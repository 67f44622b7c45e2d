------------------------- MODULE FlowControlProofs -------------------------
(***************************************************************************)
(* For any set of streams and any windows: the two ends agree about windows   *)
(* and final sizes, the memory promised is bounded, and no window shrinks.   *)
(*                                                                         *)
(* AgreedWindows is not inductive alone.  A window update in flight must     *)
(* not exceed the receiver's window (Granted), the receiver's window must    *)
(* follow from what was read (Promised: getWindowUpdate sets it to            *)
(* bytesRead + receiveWindowSize, and both only grow), and a rejected 0-RTT  *)
(* must have left no trace at the receiver (Unheard).  That the connection's *)
(* counters are the sums of the streams' needs induction over the streams    *)
(* and is left to model checking.                                           *)
(***************************************************************************)
EXTENDS FlowControl, TLAPS

Granted ==
    /\ \A s \in Streams : \A w \in maxStreamData[s] : w <= window[s]
    /\ \A w \in maxData : w <= connWindow

Promised ==
    /\ \A s \in Streams : /\ InitStream <= window[s]
                          /\ window[s] <= read[s] + size[s]
                          /\ size[s] <= MaxStream
    /\ InitConn <= connWindow
    /\ connWindow <= connRead + connSize
    /\ connSize <= MaxConn

Unheard == phase = "refused" => \A s \in Streams : highest[s] = 0 /\ ~final[s]

IInv == TypeOK /\ AgreedWindows /\ Granted /\ Promised /\ Unheard

-----------------------------------------------------------------------------
(* The operators on windows.                                               *)

\* Auto-tuning never makes a window smaller or larger than its limit.
LEMMA AdjustedGrows ==
    ASSUME NEW rd \in Nat, NEW sz \in Nat, NEW ep \in Nat, NEW limit \in Nat, sz <= limit,
           NEW a \in Adjusted(rd, sz, ep, limit)
    PROVE  a[1] \in Nat /\ a[2] \in Nat /\ sz <= a[1] /\ a[1] <= limit
  BY DEF Adjusted, Smaller

\* A stream's window that grew never makes the connection's window smaller or larger than its
\* limit.
LEMMA EnsuredGrows ==
    ASSUME TypeOK, connSize <= MaxConn, NEW inc \in Nat, NEW c \in Ensured(inc)
    PROVE  c[1] \in Nat /\ c[2] \in Nat /\ connSize <= c[1] /\ c[1] <= MaxConn
  BY FlowControlAssumption DEF Ensured, Smaller, TypeOK

-----------------------------------------------------------------------------
(* The inductive invariant.                                                *)

\* The first state satisfies the invariant.
LEMMA InitIInv == Init => IInv
  BY FlowControlAssumption
  DEF Init, IInv, TypeOK, AgreedWindows, Granted, Promised, Unheard

\* What the invariant says of one stream.
LEMMA StreamFacts ==
    ASSUME IInv, NEW t \in Streams
    PROVE  /\ sent[t] \in Nat /\ sendWindow[t] \in Nat /\ window[t] \in Nat
           /\ highest[t] \in Nat /\ read[t] \in Nat /\ size[t] \in Nat
           /\ highest[t] <= sent[t] /\ sent[t] <= sendWindow[t] /\ sendWindow[t] <= window[t]
           /\ final[t] => finished[t] /\ highest[t] = sent[t]
           /\ InitStream <= window[t] /\ window[t] <= read[t] + size[t] /\ size[t] <= MaxStream
  <1>1. /\ sent[t] \in Nat /\ sendWindow[t] \in Nat /\ window[t] \in Nat
        /\ highest[t] \in Nat /\ read[t] \in Nat /\ size[t] \in Nat
    BY Zenon DEF IInv, TypeOK
  <1>2. /\ highest[t] <= sent[t] /\ sent[t] <= sendWindow[t] /\ sendWindow[t] <= window[t]
        /\ final[t] => finished[t] /\ highest[t] = sent[t]
    <2>1. \A s \in Streams : /\ highest[s] <= sent[s] /\ sent[s] <= sendWindow[s]
                             /\ sendWindow[s] <= window[s]
                             /\ final[s] => finished[s] /\ highest[s] = sent[s]
      BY Zenon DEF IInv, AgreedWindows
    <2> QED BY <2>1, Zenon
  <1>3. InitStream <= window[t] /\ window[t] <= read[t] + size[t] /\ size[t] <= MaxStream
    BY Zenon DEF IInv, Promised
  <1> QED BY <1>1, <1>2, <1>3, Zenon

\* The parameters of an accepted 0-RTT only enlarge windows, up to the receiver's first ones.
LEMMA AcceptedStep ==
    ASSUME IInv, Accepted
    PROVE  IInv'
  <1>a. TypeOK'        BY FlowControlAssumption, Zenon DEF IInv, Accepted, stream, connection, Larger, TypeOK
  <1>b. AgreedWindows'
    <2>1. ASSUME NEW t \in Streams
          PROVE  /\ highest'[t] <= sent'[t] /\ sent'[t] <= sendWindow'[t]
                 /\ sendWindow'[t] <= window'[t]
                 /\ final'[t] => finished'[t] /\ highest'[t] = sent'[t]
      <3>1. sendWindow'[t] = Larger(sendWindow[t], InitStream) BY Zenon DEF Accepted
      <3>2. UNCHANGED <<highest, sent, window, final, finished>> BY Zenon DEF Accepted, stream
      <3> QED BY <3>1, <3>2, StreamFacts, FlowControlAssumption DEF Larger
    <2>2. connSent' <= connSendWindow' /\ connSendWindow' <= connWindow'
      BY FlowControlAssumption
      DEF Accepted, connection, Larger, IInv, TypeOK, AgreedWindows, Promised
    <2>3. error' # "FinalSizeError" BY Zenon DEF Accepted, IInv, AgreedWindows
    <2> QED BY <2>1, <2>2, <2>3, Zenon DEF AgreedWindows
  <1>c. Granted'       BY FlowControlAssumption, Zenon DEF IInv, Accepted, stream, connection, TypeOK, Granted, Promised
  <1>d. Promised'      BY FlowControlAssumption, Zenon DEF IInv, Accepted, stream, connection, TypeOK, Promised
  <1>e. Unheard'       BY FlowControlAssumption, Zenon DEF IInv, Accepted, stream, connection, TypeOK, Unheard
  <1> QED              BY <1>a, <1>b, <1>c, <1>d, <1>e, Zenon DEF IInv

\* A rejected 0-RTT restarts the sender at the receiver's first windows; nothing was heard of it.
LEMMA RejectedStep ==
    ASSUME IInv, Rejected
    PROVE  IInv'
  <1> USE FlowControlAssumption DEF IInv, Rejected, sender, stream, connection
  <1>a. TypeOK'        BY Zenon DEF TypeOK
  <1>b. AgreedWindows' BY DEF TypeOK, AgreedWindows, Granted, Promised, Unheard
  <1>c. Granted'       BY Zenon DEF TypeOK, Granted, Promised
  <1>d. Promised'      BY Zenon DEF TypeOK, Promised
  <1>e. Unheard'       BY Zenon DEF TypeOK, Unheard
  <1> QED              BY <1>a, <1>b, <1>c, <1>d, <1>e, Zenon

\* A MAX_DATA frame brings a window the receiver has granted.
LEMMA HandleMaxDataStep ==
    ASSUME IInv, HandleMaxData
    PROVE  IInv'
  <1> USE FlowControlAssumption DEF IInv, HandleMaxData, sender, stream, connection
  <1>a. TypeOK'        BY Zenon DEF TypeOK
  <1>b. AgreedWindows' BY DEF TypeOK, AgreedWindows, Granted, Promised, Unheard
  <1>c. Granted'       BY Zenon DEF TypeOK, Granted, Promised
  <1>d. Promised'      BY Zenon DEF TypeOK, Promised
  <1>e. Unheard'       BY Zenon DEF TypeOK, Unheard
  <1> QED              BY <1>a, <1>b, <1>c, <1>d, <1>e, Zenon

\* The connection's new window is at least the old one.
LEMMA GetConnWindowUpdateStep ==
    ASSUME IInv, GetConnWindowUpdate
    PROVE  IInv'
  <1>1. PICK a \in Adjusted(connRead, connSize, connEpoch, MaxConn) :
           /\ connSize' = a[1] /\ connEpoch' = a[2]
           /\ connWindow' = connRead + a[1]
           /\ maxData' = maxData \cup {connRead + a[1]}
    BY Zenon DEF GetConnWindowUpdate
  <1>2. a[1] \in Nat /\ a[2] \in Nat /\ connSize <= a[1] /\ a[1] <= MaxConn
    BY <1>1, AdjustedGrows, FlowControlAssumption, Zenon DEF IInv, TypeOK, Promised
  <1>3. UNCHANGED <<phase, sender, stream, connHighest, connRead, maxStreamData, error>>
    BY Zenon DEF GetConnWindowUpdate
  <1> USE <1>1, <1>2, <1>3, FlowControlAssumption DEF IInv, sender, stream
  <1>a. TypeOK'
    <2>1. connSize' \in Nat /\ connEpoch' \in Nat OBVIOUS
    <2>2. connRead + a[1] \in Nat BY DEF TypeOK
    <2>3. connWindow' \in Nat /\ maxData' \subseteq Nat BY <2>2, Zenon DEF TypeOK
    <2> QED BY <2>1, <2>3, Zenon DEF TypeOK
  <1>b. AgreedWindows' BY DEF TypeOK, AgreedWindows, Granted, Promised, Unheard
  <1>c. Granted'       BY DEF TypeOK, Granted, Promised
  <1>d. Promised'      BY DEF TypeOK, Promised
  <1>e. Unheard'       BY Zenon DEF TypeOK, Unheard
  <1> QED              BY <1>a, <1>b, <1>c, <1>d, <1>e, Zenon

\* Ending a stream changes no window.
LEMMA FinishStep ==
    ASSUME IInv, NEW s \in Streams, Finish(s)
    PROVE  IInv'
  <1> USE FlowControlAssumption DEF IInv, Finish, sender, stream, connection
  <1>a. TypeOK'        BY Zenon DEF TypeOK
  <1>b. AgreedWindows' BY Zenon DEF TypeOK, AgreedWindows, Granted, Promised, Unheard
  <1>c. Granted'       BY Zenon DEF TypeOK, Granted, Promised
  <1>d. Promised'      BY Zenon DEF TypeOK, Promised
  <1>e. Unheard'       BY Zenon DEF TypeOK, Unheard
  <1> QED              BY <1>a, <1>b, <1>c, <1>d, <1>e, Zenon

\* A MAX_STREAM_DATA frame brings a window the receiver has granted.
LEMMA HandleMaxStreamDataStep ==
    ASSUME IInv, NEW s \in Streams, HandleMaxStreamData(s)
    PROVE  IInv'
  <1> USE FlowControlAssumption DEF IInv, HandleMaxStreamData, sender, stream, connection
  <1>a. TypeOK'        BY DEF TypeOK
  <1>b. AgreedWindows'
    <2>1. PICK w \in maxStreamData[s] :
             w > sendWindow[s] /\ sendWindow' = [sendWindow EXCEPT ![s] = w]
      OBVIOUS
    <2>2. w \in Nat /\ w <= window[s] BY <2>1, Zenon DEF TypeOK, Granted
    <2>3. ASSUME NEW t \in Streams
          PROVE  sendWindow'[t] = IF t = s THEN w ELSE sendWindow[t]
      BY <2>1, Zenon DEF TypeOK
    <2>4. UNCHANGED <<highest, sent, window, final, finished>> OBVIOUS
    <2>5. ASSUME NEW t \in Streams
          PROVE  /\ highest'[t] <= sent'[t] /\ sent'[t] <= sendWindow'[t]
                 /\ sendWindow'[t] <= window'[t]
                 /\ final'[t] => finished'[t] /\ highest'[t] = sent'[t]
      <3> HIDE DEF IInv, HandleMaxStreamData
      <3> QED BY <2>1, <2>2, <2>3, <2>4, StreamFacts
    <2>6. connSent' <= connSendWindow' /\ connSendWindow' <= connWindow'
          /\ error' # "FinalSizeError"
      BY Zenon DEF AgreedWindows
    <2> QED BY <2>5, <2>6, Zenon DEF AgreedWindows
  <1>c. Granted'       BY DEF TypeOK, Granted, Promised
  <1>d. Promised'      BY Zenon DEF TypeOK, Promised
  <1>e. Unheard'       BY Zenon DEF TypeOK, Unheard
  <1> QED              BY <1>a, <1>b, <1>c, <1>d, <1>e, Zenon

\* Crediting the connection only allows more.
LEMMA ReadConnStep ==
    ASSUME IInv, NEW s \in Streams, ReadConn(s)
    PROVE  IInv'
  <1> USE FlowControlAssumption DEF IInv, ReadConn, sender, stream, connection
  <1>a. TypeOK'        BY DEF TypeOK
  <1>b. AgreedWindows' BY Zenon DEF TypeOK, AgreedWindows, Granted, Promised, Unheard
  <1>c. Granted'       BY Zenon DEF TypeOK, Granted, Promised
  <1>d. Promised'      BY DEF TypeOK, Promised
  <1>e. Unheard'       BY Zenon DEF TypeOK, Unheard
  <1> QED              BY <1>a, <1>b, <1>c, <1>d, <1>e, Zenon

\* Giving up a stream only allows more.
LEMMA AbandonStep ==
    ASSUME IInv, NEW s \in Streams, Abandon(s)
    PROVE  IInv'
  <1> USE FlowControlAssumption DEF IInv, Abandon, sender, stream, connection
  <1>a. TypeOK'        BY DEF TypeOK
  <1>b. AgreedWindows' BY Zenon DEF TypeOK, AgreedWindows, Granted, Promised, Unheard
  <1>c. Granted'       BY Zenon DEF TypeOK, Granted, Promised
  <1>d. Promised'      BY DEF TypeOK, Promised
  <1>e. Unheard'       BY Zenon DEF TypeOK, Unheard
  <1> QED              BY <1>a, <1>b, <1>c, <1>d, <1>e, Zenon

\* Crediting the connection with an abandoned stream only allows more.
LEMMA AbandonConnStep ==
    ASSUME IInv, NEW s \in Streams, AbandonConn(s)
    PROVE  IInv'
  <1> USE FlowControlAssumption DEF IInv, AbandonConn, sender, stream, connection
  <1>a. TypeOK'        BY DEF TypeOK
  <1>b. AgreedWindows' BY Zenon DEF TypeOK, AgreedWindows, Granted, Promised, Unheard
  <1>c. Granted'       BY Zenon DEF TypeOK, Granted, Promised
  <1>d. Promised'      BY DEF TypeOK, Promised
  <1>e. Unheard'       BY Zenon DEF TypeOK, Unheard
  <1> QED              BY <1>a, <1>b, <1>c, <1>d, <1>e, Zenon

\* A stream's new window is at least the old one, and so is the connection's size.
LEMMA GetWindowUpdateStep ==
    ASSUME IInv, NEW s \in Streams, GetWindowUpdate(s)
    PROVE  IInv'
  <1> DEFINE update == ~final[s] /\ HasWindowUpdate(window[s] - read[s], size[s])
  <1>1. CASE ~update
    <2> USE <1>1 DEF IInv, GetWindowUpdate, sender
    <2>a. TypeOK'        BY Zenon DEF TypeOK
    <2>b. AgreedWindows' BY Zenon DEF TypeOK, AgreedWindows
    <2>c. Granted'       BY Zenon DEF TypeOK, Granted
    <2>d. Promised'      BY Zenon DEF TypeOK, Promised
    <2>e. Unheard'       BY Zenon DEF TypeOK, Unheard
    <2> QED              BY <2>a, <2>b, <2>c, <2>d, <2>e, Zenon
  <1>2. CASE update
    <2>1. PICK a \in Adjusted(read[s], size[s], epoch[s], MaxStream) :
             /\ size' = [size EXCEPT ![s] = a[1]]
             /\ epoch' = [epoch EXCEPT ![s] = a[2]]
             /\ window' = [window EXCEPT ![s] = read[s] + a[1]]
             /\ maxStreamData' = [maxStreamData EXCEPT ![s] = @ \cup {read[s] + a[1]}]
             /\ \E c \in IF a[1] > size[s] THEN Ensured((3 * a[1]) \div 2)
                         ELSE {<<connSize, connEpoch>>} :
                   connSize' = c[1] /\ connEpoch' = c[2]
      BY <1>2, Zenon DEF GetWindowUpdate
    <2>2. a[1] \in Nat /\ a[2] \in Nat /\ size[s] <= a[1] /\ a[1] <= MaxStream
      BY <2>1, AdjustedGrows, FlowControlAssumption, Zenon DEF IInv, TypeOK, Promised
    <2>3. connSize' \in Nat /\ connEpoch' \in Nat /\ connSize <= connSize' /\ connSize' <= MaxConn
      <3>1. PICK c \in IF a[1] > size[s] THEN Ensured((3 * a[1]) \div 2)
                       ELSE {<<connSize, connEpoch>>} : connSize' = c[1] /\ connEpoch' = c[2]
        BY <2>1, Zenon
      <3>2. CASE a[1] > size[s]
        <4>1. (3 * a[1]) \div 2 \in Nat BY <2>2
        <4> QED BY <3>1, <3>2, <4>1, EnsuredGrows, Zenon DEF IInv, Promised
      <3>3. CASE ~(a[1] > size[s])
        BY <3>1, <3>3 DEF IInv, TypeOK, Promised
      <3> QED BY <3>2, <3>3, Zenon
    <2> HIDE DEF update
    <2>4. /\ UNCHANGED <<phase, sender, highest, read, final, reading, abandoned,
                        connHighest, connRead, connWindow, maxData, error>>
          /\ queued' = [queued EXCEPT ![s] = FALSE]
      BY Zenon DEF GetWindowUpdate
    <2>5. ASSUME NEW t \in Streams
          PROVE  /\ window'[t] = IF t = s THEN read[s] + a[1] ELSE window[t]
                 /\ size'[t] = IF t = s THEN a[1] ELSE size[t]
                 /\ maxStreamData'[t] = IF t = s THEN maxStreamData[s] \cup {read[s] + a[1]}
                                        ELSE maxStreamData[t]
      BY <2>1, Zenon DEF IInv, TypeOK
    <2>6. read[s] + a[1] \in Nat BY <2>2, StreamFacts
    <2>7. ASSUME NEW t \in Streams PROVE window'[t] >= window[t] /\ window'[t] \in Nat
      BY <2>2, <2>5, <2>6, StreamFacts
    <2>a. TypeOK'
      <3>1. /\ size' \in [Streams -> Nat] /\ epoch' \in [Streams -> Nat]
            /\ window' \in [Streams -> Nat]
        BY <2>1, <2>2, <2>6, Zenon DEF IInv, TypeOK
      <3>2. maxStreamData' \in [Streams -> SUBSET Nat]
        BY <2>1, <2>6, Zenon DEF IInv, TypeOK
      <3>3. queued' \in [Streams -> BOOLEAN] BY <2>4, Zenon DEF IInv, TypeOK
      <3> QED BY <2>3, <2>4, <3>1, <3>2, <3>3, Zenon DEF IInv, TypeOK, sender
    <2>b. AgreedWindows'
      <3>1. ASSUME NEW t \in Streams
            PROVE  /\ highest'[t] <= sent'[t] /\ sent'[t] <= sendWindow'[t]
                   /\ sendWindow'[t] <= window'[t]
                   /\ final'[t] => finished'[t] /\ highest'[t] = sent'[t]
        BY <2>4, <2>7, StreamFacts DEF sender
      <3> QED BY <2>4, <3>1, Zenon DEF IInv, AgreedWindows, sender
    <2>c. Granted'
      <3>1. ASSUME NEW t \in Streams, NEW w \in maxStreamData'[t] PROVE w <= window'[t]
        <4>1. CASE t = s /\ w = read[s] + a[1] BY <2>5, <2>6, <4>1
        <4>2. CASE w \in maxStreamData[t]
          <5>1. w \in Nat /\ w <= window[t] BY <4>2, Zenon DEF IInv, TypeOK, Granted
          <5> QED BY <2>7, <5>1, StreamFacts
        <4> QED BY <2>5, <3>1, <4>1, <4>2, Zenon
      <3> QED BY <2>4, <3>1, Zenon DEF IInv, Granted
    <2>d. Promised'
      <3>1. ASSUME NEW t \in Streams
            PROVE  /\ InitStream <= window'[t] /\ window'[t] <= read'[t] + size'[t]
                   /\ size'[t] <= MaxStream
        BY <2>2, <2>4, <2>5, <2>6, <2>7, StreamFacts, FlowControlAssumption
      <3>2. InitConn <= connWindow' /\ connWindow' <= connRead' + connSize' /\ connSize' <= MaxConn
        <4>1. /\ InitConn <= connWindow /\ connWindow <= connRead + connSize
              /\ connWindow \in Nat /\ connRead \in Nat /\ connSize \in Nat
          BY Zenon DEF IInv, TypeOK, Promised
        <4> QED BY <2>3, <2>4, <4>1
      <3> QED BY <3>1, <3>2, Zenon DEF Promised
    <2>e. Unheard' BY <2>4, Zenon DEF IInv, Unheard
    <2> QED              BY <2>a, <2>b, <2>c, <2>d, <2>e, Zenon DEF IInv
  <1> QED BY <1>1, <1>2, Zenon

\* A window update of a stream makes no window smaller.
LEMMA WindowGrows ==
    ASSUME IInv, NEW s \in Streams, GetWindowUpdate(s)
    PROVE  /\ \A t \in Streams : window'[t] >= window[t] /\ size'[t] >= size[t]
           /\ connWindow' >= connWindow /\ connSize' >= connSize
           /\ phase' = phase => /\ \A t \in Streams : sendWindow'[t] >= sendWindow[t]
                                /\ connSendWindow' >= connSendWindow
  <1>1. /\ connSize' \in Nat /\ connSize <= connSize' /\ connSize \in Nat
        /\ \A t \in Streams : window'[t] >= window[t] /\ size'[t] >= size[t]
    <2> DEFINE update == ~final[s] /\ HasWindowUpdate(window[s] - read[s], size[s])
    <2>1. CASE ~update
      BY <2>1 DEF GetWindowUpdate, IInv, TypeOK
    <2>2. CASE update
      <3>1. PICK a \in Adjusted(read[s], size[s], epoch[s], MaxStream) :
               /\ size' = [size EXCEPT ![s] = a[1]]
               /\ window' = [window EXCEPT ![s] = read[s] + a[1]]
               /\ \E c \in IF a[1] > size[s] THEN Ensured((3 * a[1]) \div 2)
                           ELSE {<<connSize, connEpoch>>} :
                     connSize' = c[1] /\ connEpoch' = c[2]
        BY <2>2, Zenon DEF GetWindowUpdate
      <3>2. a[1] \in Nat /\ size[s] <= a[1] /\ a[1] <= MaxStream
        BY <3>1, AdjustedGrows, FlowControlAssumption, Zenon DEF IInv, TypeOK, Promised
      <3>3. connSize' \in Nat /\ connSize <= connSize' /\ connSize \in Nat
        <4>1. PICK c \in IF a[1] > size[s] THEN Ensured((3 * a[1]) \div 2)
                         ELSE {<<connSize, connEpoch>>} : connSize' = c[1]
          BY <3>1, Zenon
        <4>2. CASE a[1] > size[s]
          <5>1. (3 * a[1]) \div 2 \in Nat BY <3>2
          <5> QED BY <4>1, <4>2, <5>1, EnsuredGrows, Zenon DEF IInv, Promised, TypeOK
        <4>3. CASE ~(a[1] > size[s]) BY <4>1, <4>3 DEF IInv, TypeOK
        <4> QED BY <4>2, <4>3, Zenon
      <3>4. ASSUME NEW t \in Streams PROVE window'[t] >= window[t] /\ size'[t] >= size[t]
        <4>1. /\ window'[t] = IF t = s THEN read[s] + a[1] ELSE window[t]
              /\ size'[t] = IF t = s THEN a[1] ELSE size[t]
          BY <3>1, Zenon DEF IInv, TypeOK
        <4> QED BY <3>2, <4>1, StreamFacts
      <3> QED BY <3>3, <3>4, Zenon
    <2> QED BY <2>1, <2>2, Zenon
  <1> QED BY <1>1, StreamFacts DEF GetWindowUpdate, sender, IInv, TypeOK

\* A frame stays within both windows.
LEMMA SendStep ==
    ASSUME IInv, NEW s \in Streams, NEW n \in 1 .. MaxSent, Send(s, n)
    PROVE  IInv'
  <1> USE FlowControlAssumption DEF IInv, Send, SendWindowSize, Smaller, sender, stream, connection
  <1>a. TypeOK'        BY DEF TypeOK
  <1>b. AgreedWindows'
    <2>1. /\ sent' = [sent EXCEPT ![s] = @ + n] /\ connSent' = connSent + n /\ n \in Nat
          /\ n <= sendWindow[s] - sent[s] /\ n <= connSendWindow - connSent
      BY StreamFacts DEF TypeOK
    <2>2. ASSUME NEW t \in Streams PROVE sent'[t] = IF t = s THEN sent[s] + n ELSE sent[t]
      BY <2>1, Zenon DEF TypeOK
    <2>3. UNCHANGED <<highest, sendWindow, window, final, finished>> /\ ~finished[s]
      OBVIOUS
    <2>4. ASSUME NEW t \in Streams
          PROVE  /\ highest'[t] <= sent'[t] /\ sent'[t] <= sendWindow'[t]
                 /\ sendWindow'[t] <= window'[t]
                 /\ final'[t] => finished'[t] /\ highest'[t] = sent'[t]
      <3> HIDE DEF IInv, Send
      <3> QED BY <2>1, <2>2, <2>3, StreamFacts
    <2>5. connSent' <= connSendWindow' /\ connSendWindow' <= connWindow'
          /\ error' # "FinalSizeError"
      BY <2>1 DEF AgreedWindows, TypeOK
    <2> QED BY <2>4, <2>5, Zenon DEF AgreedWindows
  <1>c. Granted'       BY Zenon DEF TypeOK, Granted, Promised
  <1>d. Promised'      BY Zenon DEF TypeOK, Promised
  <1>e. Unheard'       BY Zenon DEF TypeOK, Unheard
  <1> QED              BY <1>a, <1>b, <1>c, <1>d, <1>e, Zenon

\* Reading only allows more.
LEMMA ReadStep ==
    ASSUME IInv, NEW s \in Streams, NEW n \in 1 .. MaxSent, Read(s, n)
    PROVE  IInv'
  <1> USE FlowControlAssumption DEF IInv, Read, sender, stream, connection
  <1>a. TypeOK'        BY DEF TypeOK
  <1>b. AgreedWindows' BY Zenon DEF TypeOK, AgreedWindows, Granted, Promised, Unheard
  <1>c. Granted'       BY Zenon DEF TypeOK, Granted, Promised
  <1>d. Promised'      BY DEF TypeOK, Promised
  <1>e. Unheard'       BY Zenon DEF TypeOK, Unheard
  <1> QED              BY <1>a, <1>b, <1>c, <1>d, <1>e, Zenon

\* What arrives was sent, and a final size is the sender's.
LEMMA ReceiveStep ==
    ASSUME IInv, NEW s \in Streams, NEW off \in 0 .. sent[s], NEW fin \in BOOLEAN, Receive(s, off, fin)
    PROVE  IInv'
  <1> USE FlowControlAssumption DEF IInv, Receive, Larger, FrameError, sender, stream, connection
  <1>a. TypeOK'        BY DEF TypeOK
  <1>b. AgreedWindows'
    <2>1. /\ highest' = [highest EXCEPT ![s] = Larger(@, off)]
          /\ final' = [final EXCEPT ![s] = @ \/ fin]
          /\ error' = FrameError(s, off, fin)
          /\ fin => finished[s] /\ off = sent[s]
      OBVIOUS
    <2>2. ASSUME NEW t \in Streams
          PROVE  /\ highest'[t] = IF t = s THEN Larger(highest[s], off) ELSE highest[t]
                 /\ final'[t] <=> IF t = s THEN final[s] \/ fin ELSE final[t]
      BY <2>1, Zenon DEF TypeOK
    <2>3. UNCHANGED <<sent, sendWindow, window, finished, connSent, connSendWindow, connWindow>>
      OBVIOUS
    <2>4. ASSUME NEW t \in Streams
          PROVE  /\ highest'[t] <= sent'[t] /\ sent'[t] <= sendWindow'[t]
                 /\ sendWindow'[t] <= window'[t]
                 /\ final'[t] => finished'[t] /\ highest'[t] = sent'[t]
      <3> HIDE DEF IInv, Receive, FrameError
      <3> QED BY <2>1, <2>2, <2>3, StreamFacts
    <2>5. error' # "FinalSizeError"
      <3> HIDE DEF IInv, Receive
      <3> QED BY <2>1, StreamFacts
    <2>6. connSent' <= connSendWindow' /\ connSendWindow' <= connWindow'
      BY <2>3, Zenon DEF AgreedWindows
    <2> QED BY <2>4, <2>5, <2>6, Zenon DEF AgreedWindows
  <1>c. Granted'       BY Zenon DEF TypeOK, Granted, Promised
  <1>d. Promised'      BY Zenon DEF TypeOK, Promised
  <1>e. Unheard'       BY Zenon DEF TypeOK, Unheard
  <1> QED              BY <1>a, <1>b, <1>c, <1>d, <1>e, Zenon

\* Every step keeps the invariant.
LEMMA NextIInv == IInv /\ [Next]_vars => IInv'
  <1> SUFFICES ASSUME IInv, [Next]_vars PROVE IInv'
    OBVIOUS
  <1>1. CASE UNCHANGED vars
    BY <1>1, Zenon DEF IInv, TypeOK, AgreedWindows, Granted, Promised, Unheard, vars, sender, stream,
                connection
  <1>2. CASE Accepted BY <1>2, AcceptedStep, Zenon
  <1>3. CASE Rejected BY <1>3, RejectedStep, Zenon
  <1>4. CASE HandleMaxData BY <1>4, HandleMaxDataStep, Zenon
  <1>5. CASE GetConnWindowUpdate BY <1>5, GetConnWindowUpdateStep, Zenon
  <1>6. ASSUME NEW s \in Streams, Finish(s) PROVE IInv' BY <1>6, FinishStep, Zenon
  <1>7. ASSUME NEW s \in Streams, HandleMaxStreamData(s) PROVE IInv'
    BY <1>7, HandleMaxStreamDataStep, Zenon
  <1>8. ASSUME NEW s \in Streams, ReadConn(s) PROVE IInv' BY <1>8, ReadConnStep, Zenon
  <1>9. ASSUME NEW s \in Streams, Abandon(s) PROVE IInv' BY <1>9, AbandonStep, Zenon
  <1>10. ASSUME NEW s \in Streams, AbandonConn(s) PROVE IInv' BY <1>10, AbandonConnStep, Zenon
  <1>11. ASSUME NEW s \in Streams, GetWindowUpdate(s) PROVE IInv' BY <1>11, GetWindowUpdateStep, Zenon
  <1>12. ASSUME NEW s \in Streams, NEW n \in 1 .. MaxSent, Send(s, n) PROVE IInv'
    BY <1>12, SendStep, Zenon
  <1>13. ASSUME NEW s \in Streams, NEW n \in 1 .. MaxSent, Read(s, n) PROVE IInv'
    BY <1>13, ReadStep, Zenon
  <1>14. ASSUME NEW s \in Streams, NEW off \in 0 .. sent[s], NEW fin \in BOOLEAN,
                Receive(s, off, fin)
         PROVE  IInv'
    BY <1>14, ReceiveStep, Zenon
  <1> QED
    BY <1>1, <1>2, <1>3, <1>4, <1>5, <1>6, <1>7, <1>8, <1>9, <1>10, <1>11, <1>12, <1>13, <1>14, Zenon
    DEF Next

\* The invariant holds in every reachable state.
LEMMA IInvariance == Spec => []IInv
  BY InitIInv, NextIInv, PTL DEF Spec

-----------------------------------------------------------------------------
(* The results.                                                            *)

\* Type correctness of the controllers.
THEOREM TypeCorrect == Spec => []TypeOK
  <1>1. IInv => TypeOK BY Zenon DEF IInv
  <1> QED BY <1>1, IInvariance, PTL

\* The sender keeps to granted windows and the receiver knows final sizes only from the sender,
\* for any streams, windows, losses and reorderings.
THEOREM AgreementTheorem == Spec => []AgreedWindows
  <1>1. IInv => AgreedWindows BY Zenon DEF IInv
  <1> QED BY <1>1, IInvariance, PTL

\* The memory promised to the peer is bounded by the configuration.
THEOREM BoundTheorem == Spec => []WindowsBounded
  <1>1. IInv => WindowsBounded
    BY FlowControlAssumption DEF IInv, TypeOK, Promised, WindowsBounded
  <1> QED BY <1>1, IInvariance, PTL

\* Both together, for any windows, any maximum and any number of streams: the ends agree about
\* the windows of the two kinds of flow controller and no window promises more memory than was
\* configured.
THEOREM WindowsTheorem == Spec => []WindowsAgree
  <1> QED BY AgreementTheorem, BoundTheorem, PTL DEF WindowsAgree

\* No window shrinks: the announced one is bytesRead + receiveWindowSize, and both only grow; the
\* sender ignores smaller ones.
THEOREM NeverShrinkTheorem == Spec => WindowsNeverShrink
  <1> DEFINE Grows == /\ \A s \in Streams : window'[s] >= window[s] /\ size'[s] >= size[s]
                      /\ connWindow' >= connWindow /\ connSize' >= connSize
                      /\ phase' = phase => /\ \A s \in Streams : sendWindow'[s] >= sendWindow[s]
                                           /\ connSendWindow' >= connSendWindow
  <1>1. ASSUME IInv, [Next]_vars PROVE [Grows]_vars
    <2> SUFFICES ASSUME Next PROVE Grows
      BY <1>1, Zenon
    <2> USE <1>1
    <2>0. /\ \A t \in Streams : window[t] >= window[t] /\ size[t] >= size[t]
                               /\ sendWindow[t] >= sendWindow[t]
          /\ connWindow >= connWindow /\ connSize >= connSize
          /\ connSendWindow >= connSendWindow
      BY DEF IInv, TypeOK
    <2>1. CASE Accepted \/ Rejected
      BY <2>0, <2>1, Zenon DEF Accepted, Rejected, stream, connection
    <2>2. CASE HandleMaxData
      <3>1. PICK w \in maxData : w > connSendWindow /\ connSendWindow' = w
        BY <2>2, Zenon DEF HandleMaxData
      <3>2. w \in Nat /\ connSendWindow \in Nat BY <3>1, Zenon DEF IInv, TypeOK
      <3>3. connSendWindow' >= connSendWindow BY <3>1, <3>2
      <3> QED BY <2>0, <2>2, <3>3, Zenon DEF HandleMaxData, stream, connection
    <2>3. CASE GetConnWindowUpdate
      <3>1. PICK a \in Adjusted(connRead, connSize, connEpoch, MaxConn) :
               connSize' = a[1] /\ connWindow' = connRead + a[1]
        BY <2>3, Zenon DEF GetConnWindowUpdate
      <3>2. a[1] \in Nat /\ connSize <= a[1]
        BY <3>1, AdjustedGrows, FlowControlAssumption, Zenon DEF IInv, TypeOK, Promised
      <3>3. connWindow' >= connWindow /\ connSize' >= connSize
        BY <3>1, <3>2 DEF IInv, TypeOK, Promised
      <3> QED BY <2>0, <2>3, <3>3, Zenon DEF GetConnWindowUpdate, sender, stream
    <2>4. ASSUME NEW s \in Streams,
                 Finish(s) \/ ReadConn(s) \/ Abandon(s) \/ AbandonConn(s)
          PROVE  Grows
      BY <2>0, <2>4, Zenon DEF Finish, ReadConn, Abandon, AbandonConn, sender, stream, connection
    <2>5. ASSUME NEW s \in Streams, HandleMaxStreamData(s) PROVE Grows
      <3>1. PICK w \in maxStreamData[s] :
               w > sendWindow[s] /\ sendWindow' = [sendWindow EXCEPT ![s] = w]
        BY <2>5, Zenon DEF HandleMaxStreamData
      <3>2. w \in Nat BY <2>5, <3>1, Zenon DEF IInv, TypeOK
      <3>3. ASSUME NEW t \in Streams PROVE sendWindow'[t] >= sendWindow[t]
        BY <3>1, <3>2, StreamFacts DEF IInv, TypeOK
      <3> QED BY <2>0, <2>5, <3>3, Zenon DEF HandleMaxStreamData, stream, connection
    <2>6. ASSUME NEW s \in Streams, GetWindowUpdate(s) PROVE Grows
      BY <2>6, WindowGrows, Zenon
    <2>7. ASSUME NEW s \in Streams, NEW n \in 1 .. MaxSent, Send(s, n) \/ Read(s, n)
          PROVE  Grows
      BY <2>0, <2>7, Zenon DEF Send, Read, sender, stream, connection
    <2>8. ASSUME NEW s \in Streams, NEW off \in 0 .. sent[s], NEW fin \in BOOLEAN,
                 Receive(s, off, fin)
          PROVE  Grows
      BY <2>0, <2>8, Zenon DEF Receive, sender
    <2> QED BY <2>1, <2>2, <2>3, <2>4, <2>5, <2>6, <2>7, <2>8, Zenon DEF Next
  <1> QED BY <1>1, IInvariance, PTL DEF Spec, WindowsNeverShrink
=============================================================================
