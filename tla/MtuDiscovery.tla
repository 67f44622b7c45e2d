---------------------------- MODULE MtuDiscovery ----------------------------
(***************************************************************************)
(* Path MTU discovery (mtu_discoverer.go): a search between the size that  *)
(* is known to work and the maximum, in which the loss of a probe may be   *)
(* due to its size or not.  The path lets packets of up to mtu bytes pass; *)
(* other losses happen at most MaxRandomLosses times.  The connection may  *)
(* migrate, which starts the search again while a probe is under way.      *)
(***************************************************************************)
EXTENDS Integers, Sequences, FiniteSets, SequencesExt

CONSTANTS maxLostMTUProbes, maxMTUDiff,
          Starts, Maxima, \* initial packet sizes, and maximum packet sizes
          MaxRandomLosses, MaxResets

InvalidByteCount == -1

VARIABLES f,       \* the mtuFinder
          mtu,     \* of the current path
          start, maximum,
          probes,  \* probes under way: size and generation
          random, resets, probed

tvars == <<f, mtu, start, maximum, probes, random, resets, probed>>

initLost(max) == [i \in 1 .. maxLostMTUProbes |-> IF i = 1 THEN max ELSE InvalidByteCount]

newMTUDiscoverer(s, max) ==
  [inFlight |-> InvalidByteCount, min |-> s, lost |-> initLost(max), lastProbeWasLost |-> FALSE,
   generation |-> 0, err |-> "nil"]

MaxSize(h) ==
  LET valid == SelectSeq(h.lost, LAMBDA v : v # InvalidByteCount) IN Last(valid)

done(h) == MaxSize(h) - h.min <= maxMTUDiff + 1

ShouldSendProbe(h) == h.inFlight = InvalidByteCount /\ ~done(h)

ProbeSize(h) == IF h.lastProbeWasLost THEN (h.min + h.lost[1]) \div 2 ELSE (h.min + MaxSize(h)) \div 2

GetPing(h) == [h EXCEPT !.inFlight = ProbeSize(h)]

\* MUTANT: answers to probes from before the migration are taken for new ones.
Current_bug(h, p) == TRUE

Current(h, p) == p.generation = h.generation

\* Values not above the size are removed from the front.
OnAcked(h, p) ==
  LET size == h.inFlight
      above == {i \in DOMAIN h.lost : size < h.lost[i]}
      j == IF above = {} THEN 1 ELSE CHOOSE i \in above : \A k \in above : i <= k
  IN  IF ~Current(h, p) THEN h
      ELSE IF size = InvalidByteCount THEN [h EXCEPT !.err = "panic"]
      ELSE [h EXCEPT !.inFlight = InvalidByteCount, !.min = size, !.lastProbeWasLost = FALSE,
                     !.lost = [i \in DOMAIN @ |->
                        IF i + j - 1 \in DOMAIN @ THEN @[i + j - 1] ELSE InvalidByteCount]]

\* MUTANT: a lost probe takes the place of the smallest one lost before.
Insert_bug(lost, i, size) == [lost EXCEPT ![i] = size]

\* The larger ones move up, and the last falls out.
Insert(lost, i, size) == SubSeq(InsertAt(lost, i, size), 1, maxLostMTUProbes)

OnLost(h, p) ==
  LET size == h.inFlight
      above == {i \in DOMAIN h.lost : size < h.lost[i]}
      i == CHOOSE k \in above : \A l \in above : k <= l
  IN  IF ~Current(h, p) THEN h
      ELSE IF size = InvalidByteCount THEN [h EXCEPT !.err = "panic"]
      ELSE [h EXCEPT !.lastProbeWasLost = TRUE, !.inFlight = InvalidByteCount,
                     !.lost = IF above = {} THEN @ ELSE Insert(@, i, size)]

Reset(h, s, max) ==
  [h EXCEPT !.generation = @ + 1, !.lastProbeWasLost = FALSE, !.inFlight = InvalidByteCount,
            !.min = s, !.lost = initLost(max)]

---------------------------------------------------------------------------
TInit ==
  /\ start \in Starts /\ maximum \in Maxima /\ start <= maximum /\ mtu \in start .. maximum
  /\ f = newMTUDiscoverer(start, maximum)
  /\ probes = {} /\ random = MaxRandomLosses /\ resets = MaxResets /\ probed = 0

SendProbe ==
  /\ ShouldSendProbe(f)
  /\ f' = GetPing(f)
  /\ probes' = probes \cup {[size |-> ProbeSize(f), generation |-> f.generation, mtu |-> mtu]}
  /\ probed' = probed + 1
  /\ UNCHANGED <<mtu, start, maximum, random, resets>>

\* The probe passes where it was sent, and the ACK arrives.
Acked(p) ==
  /\ p.size <= p.mtu
  /\ f' = OnAcked(f, p) /\ probes' = probes \ {p}
  /\ UNCHANGED <<mtu, start, maximum, random, resets, probed>>

Lost(p) ==
  /\ IF p.size > p.mtu \/ p.generation # f.generation THEN UNCHANGED random
     ELSE random > 0 /\ random' = random - 1
  /\ f' = OnLost(f, p) /\ probes' = probes \ {p}
  /\ UNCHANGED <<mtu, start, maximum, resets, probed>>

Migrated ==
  /\ resets > 0 /\ resets' = resets - 1
  /\ mtu' \in start .. maximum
  /\ f' = Reset(f, start, maximum) /\ random' = MaxRandomLosses /\ probed' = 0
  /\ UNCHANGED <<start, maximum, probes>>

TNext == SendProbe \/ (\E p \in probes : Acked(p) \/ Lost(p)) \/ Migrated

\* Packets of the size in use always fit the path, and the largest size that is
\* still searched for is above it: "The algorithm used here is resilient to
\* packet loss of (maxLostMTUProbes - 1) packets", so a search that is done is
\* done within maxMTUDiff + 1 of what the path supports.
MTUFound ==
  /\ f.err = "nil" /\ f.min <= mtu
  /\ done(f) => mtu - f.min <= maxMTUDiff + 1

\* The search ends: a probe is only sent while there are fewer than a few times
\* the halvings of the interval, whatever is lost.
SearchEnds == probed <= 4 * (maxLostMTUProbes + 1)
=============================================================================
