------------------------- MODULE RelayForwardProofs -------------------------
(***************************************************************************)
(* For any number of subscribers, any objects and any bound: the relay     *)
(* delivers prefixes, writes headers before it reads objects, and          *)
(* implements OrderedDelivery; so does a publisher's stream.  The first    *)
(* part is about ObjectStream, which both run: each step of an object      *)
(* stream and its pipes keeps its types and the cursor invariant.          *)
(***************************************************************************)
EXTENDS RelayForward, SequenceTheorems, TLAPS

CONSTANT writer \* the one pipe of a publisher's stream
VARIABLE app    \* the publisher's application

Publisher == INSTANCE PubStream

Item == Object \cup {Torn}

OSInv == OSTypeOK /\ CursorInv

-----------------------------------------------------------------------------
(* What the steps of a pipe do to the relation between the array, the      *)
(* accepted objects, the copied ones and the cursor.                       *)

\* The array only grows at its end.
LEMMA RelAppend ==
    ASSUME NEW S, NEW a \in Seq(S), NEW o \in Seq(S), NEW d \in Seq(S), NEW n \in Nat,
           NEW alive, NEW x \in S, CursorRel(a, o, d, n, alive)
    PROVE  CursorRel(Append(a, x), o, d, n, alive)
<1>1. /\ Len(Append(a, x)) = Len(a) + 1
      /\ \A i \in 1 .. Len(a) : Append(a, x)[i] = a[i]
  OBVIOUS
<1>2. Len(a) \in Nat /\ Len(o) \in Nat /\ Len(d) \in Nat
  OBVIOUS
<1> QED BY <1>1, <1>2 DEF CursorRel

\* What Pipe copies under the lock lies between the cursor and the end.
LEMMA RelCopy ==
    ASSUME NEW S, NEW a \in Seq(S), NEW o \in Seq(S), NEW n \in Nat, NEW alive,
           CursorRel(a, o, << >>, n, alive)
    PROVE  CursorRel(a, o, SubSeq(a, n + 1, Len(a)), Len(a), alive)
<1> DEFINE d == SubSeq(a, n + 1, Len(a))
<1>1. Len(a) \in Nat /\ Len(o) \in Nat /\ n <= Len(a)
  BY DEF CursorRel
<1>2. Len(d) = Len(a) - n /\ \A i \in 1 .. Len(d) : d[i] = a[n + i]
  BY <1>1
<1>3. alive => Len(o) = n
  BY <1>1 DEF CursorRel
<1>4. Len(o) <= Len(a) /\ \A i \in 1 .. Len(o) : o[i] = a[i]
  BY <1>1 DEF CursorRel
<1>5. alive => Len(o) + Len(d) = Len(a)
  BY <1>1, <1>2, <1>3
<1>6. alive => \A i \in 1 .. Len(d) : d[i] = a[Len(o) + i]
  BY <1>2, <1>3, Zenon
<1> HIDE DEF d
<1>7. CursorRel(a, o, d, Len(a), alive)
  BY <1>1, <1>4, <1>5, <1>6 DEF CursorRel
<1> QED BY <1>7, Zenon DEF d

\* Appending the next stretch of a sequence to a prefix of it gives a prefix.
LEMMA ConcatPrefix ==
    ASSUME NEW S, NEW a \in Seq(S), NEW s \in Seq(S), NEW t \in Seq(S),
           Len(s) + Len(t) <= Len(a),
           \A i \in 1 .. Len(s) : s[i] = a[i],
           \A i \in 1 .. Len(t) : t[i] = a[Len(s) + i]
    PROVE  /\ s \o t \in Seq(S)
           /\ Len(s \o t) = Len(s) + Len(t)
           /\ \A i \in 1 .. Len(s \o t) : (s \o t)[i] = a[i]
<1>1. /\ s \o t \in Seq(S)
      /\ Len(s \o t) = Len(s) + Len(t)
      /\ \A i \in 1 .. Len(s) + Len(t) :
            (s \o t)[i] = IF i <= Len(s) THEN s[i] ELSE t[i - Len(s)]
  BY ConcatProperties, Zenon
<1>2. ASSUME NEW i \in 1 .. Len(s \o t) PROVE (s \o t)[i] = a[i]
  <2>1. CASE i <= Len(s)
    <3>1. i \in 1 .. Len(s) /\ i \in 1 .. Len(s) + Len(t)
      BY <1>1, <2>1
    <3> QED BY <1>1, <2>1, <3>1, Zenon
  <2>2. CASE ~(i <= Len(s))
    <3>1. i - Len(s) \in 1 .. Len(t) /\ Len(s) + (i - Len(s)) = i
      BY <1>1, <2>2
    <3> QED BY <1>1, <2>2, <3>1, Zenon
  <2> QED BY <2>1, <2>2, Zenon
<1> QED BY <1>1, <1>2, Zenon

\* A Write that succeeds hands over all that was copied.
LEMMA RelWrite ==
    ASSUME NEW S, NEW a \in Seq(S), NEW o \in Seq(S), NEW d \in Seq(S), NEW n \in Nat,
           CursorRel(a, o, d, n, TRUE)
    PROVE  o \o d \in Seq(S) /\ CursorRel(a, o \o d, << >>, n, TRUE)
<1>1. /\ Len(o) + Len(d) = n /\ n <= Len(a)
      /\ \A i \in 1 .. Len(o) : o[i] = a[i]
      /\ \A i \in 1 .. Len(d) : d[i] = a[Len(o) + i]
  BY Zenon DEF CursorRel
<1>2. /\ o \o d \in Seq(S)
      /\ Len(o \o d) = Len(o) + Len(d)
      /\ \A i \in 1 .. Len(o \o d) : (o \o d)[i] = a[i]
  BY <1>1, ConcatPrefix
<1> QED BY <1>1, <1>2 DEF CursorRel

\* A stream that dies during a Write has taken a prefix of what was copied.
LEMMA RelDie ==
    ASSUME NEW S, NEW a \in Seq(S), NEW o \in Seq(S), NEW d \in Seq(S), NEW n \in Nat,
           NEW k \in 0 .. Len(d), CursorRel(a, o, d, n, TRUE)
    PROVE  /\ o \o SubSeq(d, 1, k) \in Seq(S)
           /\ CursorRel(a, o \o SubSeq(d, 1, k), d, n, FALSE)
<1> DEFINE e == SubSeq(d, 1, k)
<1>1. /\ Len(o) + Len(d) = n /\ n <= Len(a)
      /\ \A i \in 1 .. Len(o) : o[i] = a[i]
      /\ \A i \in 1 .. Len(d) : d[i] = a[Len(o) + i]
      /\ Len(a) \in Nat /\ Len(o) \in Nat /\ Len(d) \in Nat
  BY DEF CursorRel
<1>2. e \in Seq(S) /\ Len(e) = k /\ \A i \in 1 .. k : e[i] = d[i]
  BY <1>1
<1>3. /\ Len(o) + Len(e) <= Len(a) /\ Len(o) + Len(e) <= n
      /\ \A i \in 1 .. Len(e) : e[i] = a[Len(o) + i]
  <2>1. Len(o) + k <= Len(a) /\ Len(o) + k <= n
    BY <1>1
  <2>2. \A i \in 1 .. k : e[i] = a[Len(o) + i]
    BY <1>1, <1>2
  <2> QED BY <1>2, <2>1, <2>2, Zenon
<1> HIDE DEF e
<1>4. /\ o \o e \in Seq(S)
      /\ Len(o \o e) = Len(o) + Len(e)
      /\ \A i \in 1 .. Len(o \o e) : (o \o e)[i] = a[i]
  <2>1. e \in Seq(S)
    BY <1>2, Zenon
  <2>2. /\ Len(o) + Len(e) <= Len(a)
        /\ \A i \in 1 .. Len(o) : o[i] = a[i]
        /\ \A i \in 1 .. Len(e) : e[i] = a[Len(o) + i]
    BY <1>1, <1>3, Zenon
  <2> QED BY <2>1, <2>2, ConcatPrefix
<1>5. o \o e \in Seq(S) /\ CursorRel(a, o \o e, d, n, FALSE)
  BY <1>1, <1>3, <1>4, Zenon DEF CursorRel
<1> QED BY <1>5, Zenon DEF e

\* A failed Write drops what was copied.
LEMMA RelDrop ==
    ASSUME NEW a, NEW o, NEW d, NEW n, CursorRel(a, o, d, n, FALSE)
    PROVE  CursorRel(a, o, << >>, n, FALSE)
BY Zenon DEF CursorRel
-----------------------------------------------------------------------------
(* The steps of the stream.                                                *)

\* A fresh stream has empty arrays and cursors at zero.
LEMMA OSInitInv == OSInit => OSInv
<1> SUFFICES ASSUME OSInit PROVE OSInv
  OBVIOUS
<1>1. OSTypeOK
  <2>1. << >> \in Seq(Object \cup {Torn})
    OBVIOUS
  <2>2. FALSE \in BOOLEAN /\ 0 \in Nat /\ "idle" \in PipePoints
    BY Zenon DEF PipePoints
  <2> QED BY <2>1, <2>2, Zenon DEF OSInit, OSTypeOK
<1>2. CursorRel(<< >>, << >>, << >>, 0, TRUE)
  BY DEF CursorRel
<1>3. ASSUME NEW p \in Pipes PROVE CursorOK(p)
  BY <1>2, Zenon DEF OSInit, CursorOK
<1> QED BY <1>1, <1>3, Zenon DEF OSInv, CursorInv

\* The invariant entails prefix delivery.
LEMMA CursorPrefix == OSInv => PrefixDelivery
<1> SUFFICES ASSUME OSInv, NEW p \in Pipes
             PROVE  /\ Len(out[p]) <= Len(ObjectsArr)
                    /\ \A i \in 1 .. Len(out[p]) : out[p][i] = ObjectsArr[i]
  BY Zenon DEF PrefixDelivery
<1>1. /\ ObjectsArr \in Seq(Item) /\ out[p] \in Seq(Item) /\ index[p] \in Nat
      /\ CursorRel(ObjectsArr, out[p], data[p], index[p], ~dead[p])
  BY Zenon DEF OSInv, OSTypeOK, CursorInv, CursorOK, Item
<1>2. ASSUME NEW a \in Seq(Item), NEW o \in Seq(Item), NEW d, NEW n \in Nat, NEW alive,
             CursorRel(a, o, d, n, alive)
      PROVE  Len(o) <= Len(a) /\ \A i \in 1 .. Len(o) : o[i] = a[i]
  BY <1>2 DEF CursorRel
<1> QED BY <1>1, <1>2, Zenon

\* Appending an object and notifying the waiters.
LEMMA AppendObjectInv ==
    ASSUME OSInv, NEW o \in Object \cup {Torn}, AppendObject(o)
    PROVE  OSInv'
<1>1. OSTypeOK'
  BY DEF OSInv, AppendObject, Broadcast, uniVars, OSTypeOK, PipePoints
<1>2. ASSUME NEW p \in Pipes PROVE CursorOK(p)'
  <2>1. CursorRel(Append(ObjectsArr, o), out[p], data[p], index[p], ~dead[p])
    <3>1. /\ ObjectsArr \in Seq(Item) /\ out[p] \in Seq(Item) /\ data[p] \in Seq(Item)
          /\ index[p] \in Nat /\ o \in Item
          /\ CursorRel(ObjectsArr, out[p], data[p], index[p], ~dead[p])
      BY Zenon DEF OSInv, OSTypeOK, CursorInv, CursorOK, Item
    <3> QED BY <3>1, RelAppend, Zenon
  <2>2. pc'[p] # "copied" => pc[p] # "copied"
    BY Zenon DEF OSInv, OSTypeOK, AppendObject, Broadcast
  <2>3. UNCHANGED <<out, data, index, dead>> /\ ObjectsArr' = Append(ObjectsArr, o)
    BY Zenon DEF AppendObject, uniVars
  <2> QED BY <2>1, <2>2, <2>3, Zenon DEF OSInv, CursorInv, CursorOK
<1> QED BY <1>1, <1>2, Zenon DEF OSInv, CursorInv

\* A step that moves a pipe and touches neither array nor cursor, and does not
\* leave or enter the point where objects are held outside the lock.
LEMMA MoveInv ==
    ASSUME OSInv, OSTypeOK',
           \A p \in Pipes : pc'[p] = "copied" <=> pc[p] = "copied",
           UNCHANGED <<ObjectsArr, index, data, out, dead>>
    PROVE  OSInv'
BY Zenon DEF OSInv, CursorInv, CursorOK

\* The copy under the lock.
LEMMA PipeCopyInv ==
    ASSUME OSInv, NEW p \in Pipes, PipeCopy(p)
    PROVE  OSInv'
<1> DEFINE d == SubSeq(ObjectsArr, index[p] + 1, Len(ObjectsArr))
<1>1. /\ data' = [data EXCEPT ![p] = d]
      /\ index' = [index EXCEPT ![p] = Len(ObjectsArr)]
      /\ pc[p] = "woken" /\ pc' = [pc EXCEPT ![p] = "copied"]
      /\ UNCHANGED <<ObjectsArr, IsEOF, wg, hdr, out, fin, dead>>
  BY Zenon DEF PipeCopy, Goto, streamVars, uniVars
<1>2. /\ ObjectsArr \in Seq(Item) /\ out[p] \in Seq(Item) /\ index[p] \in Nat
      /\ CursorRel(ObjectsArr, out[p], << >>, index[p], ~dead[p])
  BY <1>1, Zenon DEF OSInv, OSTypeOK, CursorInv, CursorOK, Item
<1>3. d \in Seq(Object \cup {Torn}) /\ Len(ObjectsArr) \in Nat
  BY <1>2 DEF Item
<1>4. CursorRel(ObjectsArr, out[p], d, Len(ObjectsArr), ~dead[p])
  BY <1>2, RelCopy, Zenon
<1> HIDE DEF d
<1>5. OSTypeOK'
  BY <1>1, <1>3, Zenon DEF OSInv, OSTypeOK, PipePoints
<1>6. ASSUME NEW q \in Pipes PROVE CursorOK(q)'
  BY <1>1, <1>4, Zenon DEF OSInv, OSTypeOK, CursorInv, CursorOK
<1> QED BY <1>5, <1>6, Zenon DEF OSInv, CursorInv

\* A successful Write.
LEMMA PipeWriteInv ==
    ASSUME OSInv, NEW p \in Pipes, PipeWrite(p)
    PROVE  OSInv'
<1> DEFINE o == out[p] \o data[p]
<1>1. /\ ~dead[p] /\ pc[p] = "copied"
      /\ out' = [out EXCEPT ![p] = o]
      /\ data' = [data EXCEPT ![p] = << >>]
      /\ pc' = [pc EXCEPT ![p] = "written"]
      /\ UNCHANGED <<ObjectsArr, IsEOF, wg, index, hdr, fin, dead>>
  BY Zenon DEF PipeWrite, Goto, streamVars
<1>2. /\ ObjectsArr \in Seq(Item) /\ out[p] \in Seq(Item) /\ data[p] \in Seq(Item)
      /\ index[p] \in Nat
      /\ CursorRel(ObjectsArr, out[p], data[p], index[p], TRUE)
  BY <1>1, Zenon DEF OSInv, OSTypeOK, CursorInv, CursorOK, Item
<1>3. o \in Seq(Item) /\ CursorRel(ObjectsArr, o, << >>, index[p], TRUE)
  BY <1>2, RelWrite, Zenon
<1> HIDE DEF o
<1>4. OSTypeOK'
  BY <1>1, <1>3 DEF OSInv, OSTypeOK, PipePoints, Item
<1>5. ASSUME NEW q \in Pipes PROVE CursorOK(q)'
  BY <1>1, <1>3, Zenon DEF OSInv, OSTypeOK, CursorInv, CursorOK
<1> QED BY <1>4, <1>5, Zenon DEF OSInv, CursorInv

\* A failed Write.
LEMMA PipeWriteErrorInv ==
    ASSUME OSInv, NEW p \in Pipes, NEW next \in PipePoints \ {"copied"},
           PipeWriteError(p, next)
    PROVE  OSInv'
<1>1. /\ dead[p]
      /\ data' = [data EXCEPT ![p] = << >>]
      /\ pc' = [pc EXCEPT ![p] = next]
      /\ UNCHANGED <<ObjectsArr, IsEOF, wg, index, hdr, out, fin, dead>>
  BY Zenon DEF PipeWriteError, Goto, streamVars, uniVars
<1>2. CursorRel(ObjectsArr, out[p], << >>, index[p], FALSE)
  BY <1>1, RelDrop, Zenon DEF OSInv, OSTypeOK, CursorInv, CursorOK
<1>3. OSTypeOK'
  BY <1>1 DEF OSInv, OSTypeOK
<1>4. ASSUME NEW q \in Pipes PROVE CursorOK(q)'
  BY <1>1, <1>2, Zenon DEF OSInv, OSTypeOK, CursorInv, CursorOK
<1> QED BY <1>3, <1>4, Zenon DEF OSInv, CursorInv

\* The death of a stream.
LEMMA UniStreamDiesInv ==
    ASSUME OSInv, NEW p \in Pipes, UniStreamDies(p)
    PROVE  OSInv'
<1>1. /\ ~dead[p]
      /\ dead' = [dead EXCEPT ![p] = TRUE]
      /\ UNCHANGED <<ObjectsArr, IsEOF, wg, pc, index, data, hdr, fin>>
  BY Zenon DEF UniStreamDies, streamVars
<1>2. PICK k \in 0 .. Len(data[p]) :
          out' = [out EXCEPT ![p] = out[p] \o SubSeq(data[p], 1, k)]
  BY Zenon DEF UniStreamDies
<1> DEFINE o == out[p] \o SubSeq(data[p], 1, k)
<1>3. /\ ObjectsArr \in Seq(Item) /\ out[p] \in Seq(Item) /\ data[p] \in Seq(Item)
      /\ index[p] \in Nat
      /\ CursorRel(ObjectsArr, out[p], data[p], index[p], TRUE)
  BY <1>1, Zenon DEF OSInv, OSTypeOK, CursorInv, CursorOK, Item
<1>4. o \in Seq(Item) /\ CursorRel(ObjectsArr, o, data[p], index[p], FALSE)
  BY <1>2, <1>3, RelDie, Zenon
<1>5. out' = [out EXCEPT ![p] = o]
  BY <1>2, Zenon
<1> HIDE DEF o
<1>6. OSTypeOK'
  BY <1>1, <1>4, <1>5, Zenon DEF OSInv, OSTypeOK, Item
<1>7. ASSUME NEW q \in Pipes PROVE CursorOK(q)'
  BY <1>1, <1>4, <1>5, Zenon DEF OSInv, OSTypeOK, CursorInv, CursorOK
<1> QED BY <1>6, <1>7, Zenon DEF OSInv, CursorInv

-----------------------------------------------------------------------------
(* RelayForward                                                            *)

\* Where a pipe is agrees with the WaitGroup and with the state of its stream.
PipeInv(p) ==
    /\ p \in wg <=> pc[p] \in {"start", "opened", "header"}
    /\ pc[p] = "idle" <=> p \notin spawned
    /\ pc[p] \notin {"idle", "start", "opened", "done"} => hdr[p] \/ dead[p]
    /\ pc[p] = "closing" => IsEOF \/ dead[p]
    /\ fin[p] => pc[p] = "done" /\ IsEOF /\ hdr[p] /\ ~dead[p]

\* The inductive invariant.  Objects are read, and the stream is closed, only
\* after ForwardStream returned, and then the WaitGroup is empty for good.
IInv ==
    /\ TypeOK
    /\ CursorInv
    /\ \A p \in Pipes : PipeInv(p)
    /\ prod # "forward" => spawned = Subscribers /\ wg = {}
    /\ ObjectsArr # << >> => prod # "forward"
    /\ IsEOF <=> prod = "eof"

\* The first state satisfies the invariant.
LEMMA InitIInv == Init => IInv
<1> SUFFICES ASSUME Init PROVE IInv
  OBVIOUS
<1>1. OSInv
  BY OSInitInv, Zenon DEF Init
<1>2. TypeOK
  BY <1>1, Zenon DEF Init, TypeOK, OSInv
<1>3. ASSUME NEW p \in Pipes PROVE PipeInv(p)
  BY Zenon DEF Init, OSInit, PipeInv
<1> QED BY <1>1, <1>2, <1>3, Zenon DEF Init, OSInit, IInv, OSInv

\* What a step that leaves the producer alone must still show.
LEMMA PipeStepFrame ==
    ASSUME IInv, OSInv', UNCHANGED <<prodVars, ObjectsArr, IsEOF>>,
           wg' \subseteq wg, \A p \in Pipes : PipeInv(p)'
    PROVE  IInv'
BY Zenon DEF IInv, OSInv, TypeOK, prodVars

\* Every step of the producer and of a pipe keeps the invariant.
LEMMA NextIInv == IInv /\ [Next]_vars => IInv'
<1> SUFFICES ASSUME IInv, [Next]_vars PROVE IInv'
  OBVIOUS
<1>0. OSInv
  BY Zenon DEF IInv, TypeOK, OSInv
<1>1. ASSUME NEW p \in Pipes, ForwardTo(p) PROVE IInv'
  <2>1. OSTypeOK'
    BY <1>1, Zenon DEF ForwardTo, Goto, IInv, TypeOK, OSTypeOK, PipePoints, streamVars, uniVars
  <2>2. OSInv'
    BY <1>0, <1>1, <2>1, MoveInv, Zenon DEF ForwardTo, Goto, streamVars, uniVars, OSInv, OSTypeOK
  <2>3. ASSUME NEW q \in Pipes PROVE PipeInv(q)'
    BY <1>1, Zenon DEF ForwardTo, Goto, IInv, TypeOK, OSTypeOK, PipeInv, streamVars, uniVars
  <2> QED BY <1>1, <2>2, <2>3, Zenon DEF ForwardTo, IInv, TypeOK, OSInv, streamVars, uniVars
<1>2. CASE ForwardStreamReturns
  BY <1>2, Zenon DEF ForwardStreamReturns, IInv, TypeOK, OSTypeOK, CursorInv, CursorOK, PipeInv, osVars
<1>3. CASE ReadObject
  <2>1. PICK o \in Object \cup {Torn} : AppendObject(o) /\ prod' = IF o = Torn THEN "torn" ELSE "read"
    BY <1>3, Zenon DEF ReadObject
  <2>2. OSInv'
    BY <1>0, <2>1, AppendObjectInv, Zenon
  <2>3. ASSUME NEW q \in Pipes PROVE PipeInv(q)'
    BY <1>3, <2>1, Zenon DEF ReadObject, AppendObject, Broadcast, uniVars, IInv, TypeOK, OSTypeOK, PipeInv
  <2> QED BY <1>3, <2>1, <2>2, <2>3, Zenon DEF ReadObject, AppendObject, IInv, TypeOK, OSInv
<1>4. CASE ReadEOF
  <2>1. OSTypeOK'
    BY <1>4, Zenon DEF ReadEOF, Close, Broadcast, IInv, TypeOK, OSTypeOK, PipePoints, uniVars
  <2>2. OSInv'
    BY <1>0, <1>4, <2>1, MoveInv, Zenon DEF ReadEOF, Close, Broadcast, uniVars, OSInv, OSTypeOK
  <2>3. ASSUME NEW q \in Pipes PROVE PipeInv(q)'
    BY <1>4, Zenon DEF ReadEOF, Close, Broadcast, uniVars, IInv, TypeOK, OSTypeOK, PipeInv
  <2> QED BY <1>4, <2>2, <2>3, Zenon DEF ReadEOF, Close, IInv, TypeOK, OSInv
<1>5. CASE ReadError
  BY <1>5, Zenon DEF ReadError, IInv, TypeOK, OSTypeOK, CursorInv, CursorOK, PipeInv, osVars
<1>6. ASSUME NEW p \in Pipes, NoUniStream(p) \/ OpenUniStream(p) \/ SendHeader(p) \/ WgDone(p)
      PROVE  IInv'
  <2>1. OSTypeOK'
    BY <1>6, Zenon DEF NoUniStream, OpenUniStream, SendHeader, WriteHeader, WgDone, Goto, IInv, TypeOK,
                OSTypeOK, PipePoints, streamVars, uniVars
  <2>2. OSInv'
    BY <1>0, <1>6, <2>1, MoveInv, Zenon DEF NoUniStream, OpenUniStream, SendHeader, WriteHeader, WgDone,
                Goto, streamVars, uniVars, OSInv, OSTypeOK
  <2>3. ASSUME NEW q \in Pipes PROVE PipeInv(q)'
    BY <1>6, ZenonT(30) DEF NoUniStream, OpenUniStream, SendHeader, WriteHeader, WgDone, Goto, IInv, TypeOK,
                OSTypeOK, PipeInv, prodVars, streamVars, uniVars
  <2> QED BY <1>6, <2>2, <2>3, PipeStepFrame, Zenon DEF NoUniStream, OpenUniStream, SendHeader,
                WriteHeader, WgDone, prodVars, streamVars
<1>7. ASSUME NEW p \in Pipes, PipeWait(p) \/ PipeCheckEOF(p) \/ CloseUniStream(p),
             UNCHANGED prodVars
      PROVE  IInv'
  <2>1. OSTypeOK'
    BY <1>7, Zenon DEF PipeWait, PipeCheckEOF, CloseUniStream, Goto, IInv, TypeOK,
                OSTypeOK, PipePoints, streamVars, uniVars
  <2>2. OSInv'
    BY <1>0, <1>7, <2>1, MoveInv, Zenon DEF PipeWait, PipeCheckEOF, CloseUniStream,
                Goto, streamVars, uniVars, OSInv, OSTypeOK
  <2>3. ASSUME NEW q \in Pipes PROVE PipeInv(q)'
    BY <1>7 DEF PipeWait, PipeCheckEOF, CloseUniStream, Goto, IInv, TypeOK,
                OSTypeOK, PipeInv, prodVars, streamVars, uniVars
  <2> QED BY <1>7, <2>2, <2>3, PipeStepFrame, Zenon DEF PipeWait, PipeCheckEOF, CloseUniStream, streamVars
<1>8. ASSUME NEW p \in Pipes, PipeCopy(p), UNCHANGED prodVars PROVE IInv'
  <2>1. OSInv'
    BY <1>0, <1>8, PipeCopyInv, Zenon
  <2>2. ASSUME NEW q \in Pipes PROVE PipeInv(q)'
    BY <1>8, Zenon DEF PipeCopy, Goto, IInv, TypeOK, OSTypeOK, PipeInv, prodVars, streamVars, uniVars
  <2> QED BY <1>8, <2>1, <2>2, PipeStepFrame, Zenon DEF PipeCopy, streamVars
<1>9. ASSUME NEW p \in Pipes, PipeWrite(p), UNCHANGED prodVars PROVE IInv'
  <2>1. OSInv'
    BY <1>0, <1>9, PipeWriteInv, Zenon
  <2>2. ASSUME NEW q \in Pipes PROVE PipeInv(q)'
    BY <1>9, Zenon DEF PipeWrite, Goto, IInv, TypeOK, OSTypeOK, PipeInv, prodVars, streamVars, uniVars
  <2> QED BY <1>9, <2>1, <2>2, PipeStepFrame, Zenon DEF PipeWrite, streamVars
<1>10. ASSUME NEW p \in Pipes, PipeWriteError(p, "closing"), UNCHANGED prodVars PROVE IInv'
  <2>1. OSInv'
    BY <1>0, <1>10, PipeWriteErrorInv, Zenon DEF PipePoints
  <2>2. ASSUME NEW q \in Pipes PROVE PipeInv(q)'
    BY <1>10, Zenon DEF PipeWriteError, Goto, IInv, TypeOK, OSTypeOK, PipeInv, prodVars, streamVars, uniVars
  <2> QED BY <1>10, <2>1, <2>2, PipeStepFrame, Zenon DEF PipeWriteError, streamVars
<1>11. ASSUME NEW p \in Pipes, Dies(p) PROVE IInv'
  <2>1. OSInv'
    BY <1>0, <1>11, UniStreamDiesInv, Zenon DEF Dies
  <2>2. ASSUME NEW q \in Pipes PROVE PipeInv(q)'
    BY <1>11, Zenon DEF Dies, UniStreamDies, IInv, TypeOK, OSTypeOK, PipeInv, prodVars, streamVars
  <2> QED BY <1>11, <2>1, <2>2, PipeStepFrame, Zenon DEF Dies, UniStreamDies, streamVars
<1>12. CASE UNCHANGED vars
  BY <1>12, Zenon DEF vars, IInv, TypeOK, OSTypeOK, CursorInv, CursorOK, PipeInv, osVars
<1> QED
  BY <1>1, <1>2, <1>3, <1>4, <1>5, <1>6, <1>7, <1>8, <1>9, <1>10, <1>11, <1>12, Zenon
  DEF Next, ProcessObjects, Pipe, PipeStep

\* The invariant holds in every reachable state.
LEMMA IInvariance == Spec => []IInv
<1> QED BY InitIInv, NextIInv, PTL DEF Spec
-----------------------------------------------------------------------------
\* Type correctness of the forwarding path (GroupStream, ProcessObjects,
\* ProcessMOQTStream).
THEOREM TypeCorrect == Spec => []TypeOK
<1>1. IInv => TypeOK
  BY Zenon DEF IInv
<1> QED BY <1>1, IInvariance, PTL

\* Each subscriber's unidirectional stream has accepted a prefix of the objects
\* read from the publisher (Pipe's cursor and copy).
THEOREM PrefixTheorem == Spec => []PrefixDelivery
<1>1. IInv => PrefixDelivery
  BY CursorPrefix, Zenon DEF IInv, OSInv, TypeOK
<1> QED BY <1>1, IInvariance, PTL

\* ProcessObjects is past its "read" point once an object was cut short, and that object is
\* the last one.
TornInv ==
    \A i \in 1 .. Len(ObjectsArr) :
        ObjectsArr[i] = Torn => i = Len(ObjectsArr) /\ prod \notin {"forward", "read"}

\* Only ReadObject appends, and it stops reading after a torn object.
LEMMA NextTorn == IInv /\ TornInv /\ [Next]_vars => TornInv'
<1> SUFFICES ASSUME IInv, TornInv, [Next]_vars PROVE TornInv'
  OBVIOUS
<1>1. CASE ReadObject
  <2>1. PICK o \in Item : /\ ObjectsArr' = Append(ObjectsArr, o)
                          /\ prod' = IF o = Torn THEN "torn" ELSE "read"
    BY <1>1, Zenon DEF ReadObject, AppendObject, Item
  <2>2. ObjectsArr \in Seq(Item) /\ prod = "read"
    BY <1>1, Zenon DEF ReadObject, IInv, TypeOK, OSTypeOK, Item
  <2>3. \A i \in 1 .. Len(ObjectsArr) : ObjectsArr[i] # Torn
    BY <2>2, Zenon DEF TornInv
  <2>4. /\ Len(ObjectsArr') = Len(ObjectsArr) + 1 /\ Len(ObjectsArr) \in Nat
        /\ ObjectsArr'[Len(ObjectsArr) + 1] = o
        /\ \A i \in 1 .. Len(ObjectsArr) : ObjectsArr'[i] = ObjectsArr[i]
    BY <2>1, <2>2
  <2> QED BY <2>1, <2>3, <2>4 DEF TornInv
<1>2. CASE ForwardStreamReturns \/ ReadEOF \/ ReadError
  BY <1>2, Zenon DEF ForwardStreamReturns, ReadEOF, ReadError, Close, osVars, TornInv
<1>3. ASSUME NEW p \in Pipes, ForwardTo(p) \/ Pipe(p) \/ Dies(p) PROVE TornInv'
  <2>1. ForwardTo(p) \/ Dies(p) => UNCHANGED <<ObjectsArr, prod>>
    BY Zenon DEF ForwardTo, Dies, UniStreamDies, streamVars, prodVars
  <2>2. PipeStep(p) => UNCHANGED <<ObjectsArr, prod>>
    BY Zenon DEF PipeStep, PipeWait, PipeCopy, PipeWrite, PipeWriteError, PipeCheckEOF,
        CloseUniStream, streamVars, prodVars
  <2>3. NoUniStream(p) \/ OpenUniStream(p) \/ SendHeader(p) \/ WgDone(p) =>
            UNCHANGED <<ObjectsArr, prod>>
    BY Zenon DEF NoUniStream, OpenUniStream, SendHeader, WriteHeader, WgDone, streamVars, prodVars
  <2>4. UNCHANGED <<ObjectsArr, prod>>
    BY <1>3, <2>1, <2>2, <2>3, Zenon DEF Pipe
  <2> QED BY <2>4, Zenon DEF TornInv
<1>4. CASE UNCHANGED vars
  BY <1>4, Zenon DEF vars, osVars, TornInv
<1> QED BY <1>1, <1>2, <1>3, <1>4, Zenon DEF Next, ProcessObjects

\* No object is read before every subscriber has its stream header (the WaitGroup protocol of
\* ForwardStream and ProcessMOQTStream), and none after one that was cut short.
THEOREM ForwardedTheorem == Spec => []ObjectsForwarded
<1>1. IInv => HeadersBeforeObjects
  BY Zenon DEF IInv, TypeOK, PipeInv, HeadersBeforeObjects
<1>2. Init => TornInv
  BY DEF Init, OSInit, TornInv
<1>3. TornInv => TornOnlyLast
  BY Zenon DEF TornInv, TornOnlyLast
<1>4. Spec => []TornInv
  BY <1>2, NextTorn, IInvariance, PTL DEF Spec
<1> QED BY <1>1, <1>3, <1>4, IInvariance, PTL DEF ObjectsForwarded

\* A pipe that has finished its stream has handed over all that it copied.
LEMMA FinishedAll ==
    ASSUME OSInv, NEW p \in Pipes, pc[p] = "done", ~dead[p]
    PROVE  Len(out[p]) = index[p]
<1>1. /\ CursorRel(ObjectsArr, out[p], << >>, index[p], TRUE)
      /\ out[p] \in Seq(Item) /\ index[p] \in Nat
  <2>1. CursorRel(ObjectsArr, out[p], data[p], index[p], ~dead[p]) /\ data[p] = << >>
    BY Zenon DEF OSInv, CursorInv, CursorOK
  <2>2. (~dead[p]) = TRUE /\ out[p] \in Seq(Item) /\ index[p] \in Nat
    BY Zenon DEF OSInv, OSTypeOK, Item
  <2> QED BY <2>1, <2>2, Zenon
<1>2. ASSUME NEW o \in Seq(Item), NEW n \in Nat, NEW a, CursorRel(a, o, << >>, n, TRUE)
      PROVE  Len(o) = n
  BY <1>2 DEF CursorRel
<1> QED BY <1>1, <1>2, Zenon

\* A FIN implies that the publisher's stream ended and that nothing the pipe
\* had copied was left behind (Pipe's EOF check, ProcessMOQTStream's Close).
THEOREM FinTheorem == Spec => []FinOnlyAfterEOF
<1>1. ASSUME IInv, NEW p \in Pipes, fin[p]
      PROVE  IsEOF /\ hdr[p] /\ Len(out[p]) = index[p]
  BY <1>1, FinishedAll, Zenon DEF IInv, TypeOK, OSInv, PipeInv
<1>2. IInv => FinOnlyAfterEOF
  BY <1>1, Zenon DEF FinOnlyAfterEOF
<1> QED BY <1>2, IInvariance, PTL

-----------------------------------------------------------------------------
(* Refinement of OrderedDelivery.                                          *)

\* A sequence that agrees with the array on its own length is a SubSeq of it.
LEMMA PrefixIsSubSeq ==
    ASSUME NEW S, NEW a \in Seq(S), NEW o \in Seq(S), NEW d, NEW n \in Nat, NEW alive,
           CursorRel(a, o, d, n, alive)
    PROVE  o = SubSeq(a, 1, Len(o)) /\ Len(o) \in 0 .. Len(a)
<1>1. Len(o) \in Nat /\ Len(a) \in Nat /\ Len(o) <= Len(a)
  BY DEF CursorRel
<1>2. \A i \in 1 .. Len(o) : o[i] = a[i]
  BY Zenon DEF CursorRel
<1>3. /\ SubSeq(a, 1, Len(o)) \in Seq(S)
      /\ Len(SubSeq(a, 1, Len(o))) = Len(o)
      /\ \A i \in 1 .. Len(o) : SubSeq(a, 1, Len(o))[i] = a[i]
  BY <1>1
<1>4. o = SubSeq(a, 1, Len(o))
  BY <1>2, <1>3, SeqEqual, Zenon
<1> QED BY <1>1, <1>4

\* The steps of a pipe that hand objects to its stream are abstract deliveries.
LEMMA DeliverStep ==
    ASSUME OSInv, OSInv', NEW p \in Pipes, ~dead[p], ~fin[p],
           NEW o \in Seq(Item), out' = [out EXCEPT ![p] = o], Len(out[p]) <= Len(o),
           NEW b \in BOOLEAN, dead' = [dead EXCEPT ![p] = b],
           UNCHANGED <<ObjectsArr, IsEOF, fin>>
    PROVE  Delivery!Deliver(p)
<1>1. /\ ObjectsArr \in Seq(Item) /\ out'[p] = o /\ index'[p] \in Nat
      /\ CursorRel(ObjectsArr, o, data'[p], index'[p], ~dead'[p])
  BY Zenon DEF OSInv, OSTypeOK, CursorInv, CursorOK, Item
<1>2. o = SubSeq(ObjectsArr, 1, Len(o)) /\ Len(o) \in 0 .. Len(ObjectsArr)
  BY <1>1, PrefixIsSubSeq, Zenon
<1>3. Len(o) \in Len(out[p]) .. Len(ObjectsArr)
  <2>1. Len(out[p]) \in Nat /\ Len(ObjectsArr) \in Nat
    BY LenProperties, Zenon DEF OSInv, OSTypeOK
  <2> DEFINE x == Len(out[p])
             y == Len(o)
             z == Len(ObjectsArr)
  <2>2. x \in Nat /\ z \in Nat /\ y \in 0 .. z /\ x <= y
    BY <1>2, <2>1, Zenon
  <2> HIDE DEF x, y, z
  <2>3. y \in x .. z
    BY <2>2
  <2> QED BY <2>3, Zenon DEF x, y, z
<1>4. \E k \in Len(out[p]) .. Len(ObjectsArr) :
          out' = [out EXCEPT ![p] = SubSeq(ObjectsArr, 1, k)]
  BY <1>2, <1>3, Zenon
<1> QED BY <1>4, Zenon DEF Delivery!Deliver

\* So a successful Write is a delivery,
LEMMA WriteDelivers ==
    ASSUME OSInv, OSInv', NEW p \in Pipes, ~fin[p], PipeWrite(p)
    PROVE  Delivery!Deliver(p)
<1> DEFINE o == out[p] \o data[p]
<1>1. out' = [out EXCEPT ![p] = o] /\ ~dead[p] /\ UNCHANGED <<ObjectsArr, IsEOF, fin, dead>>
  BY Zenon DEF PipeWrite, streamVars
<1>2. dead' = [dead EXCEPT ![p] = FALSE]
  BY <1>1, Zenon DEF OSInv, OSTypeOK
<1>3. out[p] \in Seq(Item) /\ data[p] \in Seq(Item)
  BY Zenon DEF OSInv, OSTypeOK, Item
<1>4. o \in Seq(Item) /\ Len(out[p]) <= Len(o)
  <2>1. ASSUME NEW s \in Seq(Item), NEW t \in Seq(Item)
        PROVE  s \o t \in Seq(Item) /\ Len(s) <= Len(s \o t)
    OBVIOUS
  <2> QED BY <1>3, <2>1, Zenon
<1> HIDE DEF o
<1> QED BY <1>1, <1>2, <1>4, DeliverStep, Zenon

\* so is the death of a stream, which may cut a Write short,
LEMMA DeathDelivers ==
    ASSUME OSInv, OSInv', NEW p \in Pipes, ~fin[p], UniStreamDies(p)
    PROVE  Delivery!Deliver(p)
<1>1. PICK k \in 0 .. Len(data[p]) :
          out' = [out EXCEPT ![p] = out[p] \o SubSeq(data[p], 1, k)]
  BY Zenon DEF UniStreamDies
<1> DEFINE o == out[p] \o SubSeq(data[p], 1, k)
<1>2. /\ ~dead[p] /\ dead' = [dead EXCEPT ![p] = TRUE]
      /\ UNCHANGED <<ObjectsArr, IsEOF, fin>>
  BY Zenon DEF UniStreamDies, streamVars
<1>3. out[p] \in Seq(Item) /\ data[p] \in Seq(Item)
  BY Zenon DEF OSInv, OSTypeOK, Item
<1>4. o \in Seq(Item) /\ Len(out[p]) <= Len(o)
  <2>1. ASSUME NEW s \in Seq(Item), NEW t \in Seq(Item), NEW j \in 0 .. Len(t)
        PROVE  s \o SubSeq(t, 1, j) \in Seq(Item) /\ Len(s) <= Len(s \o SubSeq(t, 1, j))
    <3>1. SubSeq(t, 1, j) \in Seq(Item)
      OBVIOUS
    <3> QED BY <3>1
  <2> QED BY <1>1, <1>3, <2>1, Zenon
<1>5. out' = [out EXCEPT ![p] = o]
  BY <1>1, Zenon
<1> HIDE DEF o
<1> QED BY <1>2, <1>4, <1>5, DeliverStep, Zenon

\* and closing a stream finishes it, or nothing when it had died.
LEMMA CloseFinishes ==
    ASSUME OSInv, NEW p \in Pipes, IsEOF \/ dead[p], ~fin[p], CloseUniStream(p)
    PROVE  Delivery!Finish(p) \/ UNCHANGED Delivery!vars
<1>1. CASE dead[p]
  <2>1. fin' = fin
    BY <1>1, Zenon DEF CloseUniStream, OSInv, OSTypeOK
  <2> QED BY <2>1, Zenon DEF CloseUniStream, streamVars, Delivery!vars
<1>2. CASE ~dead[p]
  <2>1. fin' = [fin EXCEPT ![p] = TRUE]
    BY <1>2, Zenon DEF CloseUniStream
  <2> QED BY <1>2, <2>1, Zenon DEF CloseUniStream, streamVars, Delivery!Finish
<1> QED BY <1>1, <1>2, Zenon

\* Every step is a step of ordered delivery, or leaves its variables alone.
LEMMA StepSimulation == IInv /\ IInv' /\ [Next]_vars => [Delivery!Next]_(Delivery!vars)
<1> SUFFICES ASSUME IInv, IInv', [Next]_vars PROVE Delivery!Next \/ UNCHANGED Delivery!vars
  OBVIOUS
<1>0. OSInv /\ OSInv'
  BY Zenon DEF IInv, TypeOK, OSInv
<1>1. CASE ReadObject
  <2>1. PICK o \in Object \cup {Torn} : AppendObject(o)
    BY <1>1, Zenon DEF ReadObject
  <2>2. ~IsEOF
    BY <1>1, Zenon DEF ReadObject, IInv
  <2>3. Delivery!Send(o)
    BY <2>1, <2>2, Zenon DEF AppendObject, uniVars, Delivery!Send
  <2> QED BY <2>3, Zenon DEF Delivery!Next
<1>2. CASE ReadEOF
  <2>1. ~IsEOF
    BY <1>2, Zenon DEF ReadEOF, IInv
  <2>2. Delivery!End
    BY <1>2, <2>1, Zenon DEF ReadEOF, Close, uniVars, Delivery!End
  <2> QED BY <2>2, Zenon DEF Delivery!Next
<1>3. ASSUME NEW p \in Pipes, PipeWrite(p), UNCHANGED prodVars
      PROVE  Delivery!Deliver(p)
  <2>1. ~fin[p]
    BY <1>3, Zenon DEF PipeWrite, Goto, IInv, PipeInv
  <2> QED BY <1>0, <1>3, <2>1, WriteDelivers, Zenon
<1>4. ASSUME NEW p \in Pipes, Dies(p)
      PROVE  Delivery!Deliver(p)
  <2>1. UniStreamDies(p) /\ ~fin[p]
    BY <1>4, Zenon DEF Dies, UniStreamDies, IInv, PipeInv
  <2> QED BY <1>0, <2>1, DeathDelivers, Zenon
<1>5. ASSUME NEW p \in Pipes, CloseUniStream(p), UNCHANGED prodVars
      PROVE  Delivery!Finish(p) \/ UNCHANGED Delivery!vars
  <2>1. (IsEOF \/ dead[p]) /\ ~fin[p]
    BY <1>5, Zenon DEF CloseUniStream, Goto, IInv, PipeInv
  <2> QED BY <1>0, <1>5, <2>1, CloseFinishes, Zenon
<1>6. ASSUME NEW p \in Pipes,
             \/ ForwardTo(p) \/ NoUniStream(p) \/ OpenUniStream(p) \/ SendHeader(p) \/ WgDone(p)
             \/ PipeWait(p) \/ PipeCopy(p) \/ PipeWriteError(p, "closing") \/ PipeCheckEOF(p)
      PROVE  UNCHANGED Delivery!vars
  BY <1>6, Zenon DEF ForwardTo, NoUniStream, OpenUniStream, SendHeader, WriteHeader, WgDone, PipeWait,
      PipeCopy, PipeWriteError, PipeCheckEOF, streamVars, uniVars, Delivery!vars
<1>7. CASE ForwardStreamReturns \/ ReadError \/ UNCHANGED vars
  BY <1>7, Zenon DEF ForwardStreamReturns, ReadError, vars, osVars, Delivery!vars
<1> QED
  BY <1>1, <1>2, <1>3, <1>4, <1>5, <1>6, <1>7, Zenon
  DEF Next, ProcessObjects, Pipe, PipeStep, Delivery!Next

\* The relay's forwarding path implements ordered prefix delivery.
THEOREM Refinement == Spec => DeliverySpec
<1>1. Init => Delivery!Init
  BY Zenon DEF Init, OSInit, Delivery!Init
<1> QED BY <1>1, StepSimulation, IInvariance, PTL DEF Spec, DeliverySpec, Delivery!Spec
-----------------------------------------------------------------------------
(* The publisher's side: PubStream runs the same stream with one pipe, which *)
(* goes on after a failed Write and leaves its loop only at the end.        *)

\* The steps of the stream are those of ObjectStream.
LEMMA PublisherSteps ==
    ASSUME NEW p, NEW o, NEW next
    PROVE  /\ Publisher!OSInit <=> OSInit
           /\ Publisher!AppendObject(o) <=> AppendObject(o)
           /\ Publisher!Close <=> Close
           /\ Publisher!PipeWait(p) <=> PipeWait(p)
           /\ Publisher!PipeCopy(p) <=> PipeCopy(p)
           /\ Publisher!PipeWrite(p) <=> PipeWrite(p)
           /\ Publisher!PipeWriteError(p, next) <=> PipeWriteError(p, next)
           /\ Publisher!PipeCheckEOF(p) <=> PipeCheckEOF(p)
           /\ Publisher!WriteHeader(p) <=> WriteHeader(p)
           /\ Publisher!CloseUniStream(p) <=> CloseUniStream(p)
           /\ Publisher!UniStreamDies(p) <=> UniStreamDies(p)
BY Zenon DEF Publisher!OSInit, OSInit, Publisher!AppendObject, AppendObject, Publisher!Close, Close,
    Publisher!PipeWait, PipeWait, Publisher!PipeCopy, PipeCopy, Publisher!PipeWrite, PipeWrite,
    Publisher!PipeWriteError, PipeWriteError, Publisher!PipeCheckEOF, PipeCheckEOF,
    Publisher!WriteHeader, WriteHeader, Publisher!CloseUniStream, CloseUniStream,
    Publisher!UniStreamDies, UniStreamDies, Publisher!Broadcast, Broadcast, Publisher!Goto, Goto,
    Publisher!streamVars, streamVars, Publisher!uniVars, uniVars

\* Where the goroutine is agrees with the application: it pipes once NewStream has opened and
\* headed its stream, and it leaves the loop only after the application's Close.
WriterInv ==
    /\ app \in {"new", "opened", "waiting", "writing", "closed", "refused"}
    /\ \A p \in Pipes \ {writer} : pc[p] = "idle"
    /\ pc[writer] = "idle" <=> app \in {"new", "refused"}
    /\ pc[writer] = "opened" <=> app = "opened"
    /\ pc[writer] \in {"opened", "header"} => writer \in wg
    /\ app \in {"writing", "closed"} => wg = {}
    /\ pc[writer] \notin {"idle", "opened"} => hdr[writer] \/ dead[writer]
    /\ pc[writer] = "closing" => IsEOF
    /\ \A p \in Pipes : fin[p] => pc[p] = "done" /\ IsEOF /\ hdr[p] /\ ~dead[p]
    /\ ObjectsArr # << >> => app \in {"writing", "closed"}
    /\ IsEOF <=> app = "closed"

PubInv == OSInv /\ WriterInv

\* NewStream and the goroutine start from the beginning.
LEMMA PubInit == ASSUME writer \in Pipes, Publisher!Init PROVE PubInv
<1>1. OSInit /\ app = "new"
  BY PublisherSteps, Zenon DEF Publisher!Init
<1>2. OSInv
  BY <1>1, OSInitInv, Zenon
<1>3. WriterInv
  BY <1>1, Zenon DEF OSInit, WriterInv
<1> QED BY <1>2, <1>3, Zenon DEF PubInv

\* Every step of NewStream, of the application and of the goroutine keeps the invariant.
LEMMA PubNext == ASSUME writer \in Pipes, PubInv, [Publisher!Next]_(Publisher!vars) PROVE PubInv'
<1> USE DEF PubInv
<1>1. CASE Publisher!NewStreamFails \/ Publisher!NewStreamOpens \/ Publisher!NewStreamReturns
  <2>1. OSTypeOK'
    BY <1>1, Zenon DEF Publisher!NewStreamFails, Publisher!NewStreamOpens, Publisher!NewStreamReturns,
        Publisher!Goto, Publisher!streamVars, Publisher!uniVars, Publisher!osVars, OSInv, OSTypeOK,
        PipePoints
  <2>2. OSInv'
    BY <1>1, <2>1, MoveInv, Zenon DEF Publisher!NewStreamFails, Publisher!NewStreamOpens,
        Publisher!NewStreamReturns, Publisher!Goto, Publisher!streamVars, Publisher!uniVars,
        Publisher!osVars, OSInv, OSTypeOK
  <2>3. WriterInv'
    <3>1. CASE Publisher!NewStreamFails
      BY <3>1, Zenon DEF Publisher!NewStreamFails, Publisher!streamVars, Publisher!uniVars, OSInv, OSTypeOK,
          WriterInv
    <3>2. CASE Publisher!NewStreamOpens
      BY <3>2, Zenon DEF Publisher!NewStreamOpens, Publisher!Goto, Publisher!streamVars, Publisher!uniVars,
          OSInv, OSTypeOK, WriterInv
    <3>3. CASE Publisher!NewStreamReturns
      BY <3>3, Zenon DEF Publisher!NewStreamReturns, Publisher!osVars, OSInv, OSTypeOK, WriterInv
    <3> QED BY <1>1, <3>1, <3>2, <3>3, Zenon
  <2> QED BY <2>2, <2>3, Zenon
<1>2. CASE Publisher!NewStreamHeader \/ Publisher!WgDone
  <2>1. OSTypeOK'
    BY <1>2, Zenon DEF Publisher!NewStreamHeader, Publisher!WriteHeader, Publisher!WgDone,
        Publisher!Goto, Publisher!streamVars, Publisher!uniVars, OSInv, OSTypeOK, PipePoints
  <2>2. OSInv'
    BY <1>2, <2>1, MoveInv, Zenon DEF Publisher!NewStreamHeader, Publisher!WriteHeader,
        Publisher!WgDone, Publisher!Goto, Publisher!streamVars, Publisher!uniVars, OSInv, OSTypeOK
  <2>3. WriterInv'
    <3>1. CASE Publisher!NewStreamHeader
      BY <3>1, Zenon DEF Publisher!NewStreamHeader, Publisher!WriteHeader, Publisher!Goto,
          Publisher!streamVars, OSInv, OSTypeOK, WriterInv
    <3>2. CASE Publisher!WgDone
      BY <3>2, Zenon DEF Publisher!WgDone, Publisher!Goto, Publisher!streamVars, Publisher!uniVars, OSInv,
          OSTypeOK, WriterInv
    <3> QED BY <1>2, <3>1, <3>2, Zenon
  <2> QED BY <2>2, <2>3, Zenon
<1>3. CASE Publisher!WriteObject
  <2>1. PICK o \in Object : AppendObject(o)
    BY <1>3, PublisherSteps, Zenon DEF Publisher!WriteObject
  <2>2. OSInv'
    BY <2>1, AppendObjectInv, Zenon
  <2>3. WriterInv'
    BY <1>3, <2>1, Zenon DEF Publisher!WriteObject, AppendObject, Broadcast, uniVars, OSInv, OSTypeOK,
        WriterInv
  <2> QED BY <2>2, <2>3, Zenon
<1>4. CASE Publisher!CloseStream
  <2>1. Close /\ app = "writing" /\ app' = "closed"
    BY <1>4, PublisherSteps, Zenon DEF Publisher!CloseStream
  <2>2. OSTypeOK'
    BY <2>1, Zenon DEF Close, Broadcast, uniVars, OSInv, OSTypeOK, PipePoints
  <2>3. OSInv'
    BY <2>1, <2>2, MoveInv, Zenon DEF Close, Broadcast, uniVars, OSInv, OSTypeOK
  <2>4. WriterInv'
    BY <2>1, Zenon DEF Close, Broadcast, uniVars, OSInv, OSTypeOK, WriterInv
  <2> QED BY <2>3, <2>4, Zenon
<1>5. CASE Publisher!PipeStep
  <2>0. /\ app' = app
        /\ \/ PipeWait(writer) \/ PipeCopy(writer) \/ PipeWrite(writer)
           \/ PipeWriteError(writer, "ready") \/ PipeCheckEOF(writer) \/ CloseUniStream(writer)
    BY <1>5, PublisherSteps, Zenon DEF Publisher!PipeStep
  <2>1. ASSUME PipeWait(writer) \/ PipeCheckEOF(writer) \/ CloseUniStream(writer) PROVE OSInv'
    <3>1. OSTypeOK'
      BY <2>1, Zenon DEF PipeWait, PipeCheckEOF, CloseUniStream, Goto, streamVars, uniVars, OSInv,
          OSTypeOK, PipePoints
    <3> QED BY <2>1, <3>1, MoveInv, Zenon DEF PipeWait, PipeCheckEOF, CloseUniStream, Goto,
          streamVars, uniVars, OSInv, OSTypeOK
  <2>2. ASSUME PipeCopy(writer) \/ PipeWrite(writer) \/ PipeWriteError(writer, "ready") PROVE OSInv'
    <3>1. "ready" \in PipePoints \ {"copied"}
      BY Zenon DEF PipePoints
    <3> QED BY <2>2, <3>1, PipeCopyInv, PipeWriteInv, PipeWriteErrorInv, Zenon
  <2>3. ASSUME PipeWait(writer) PROVE WriterInv'
    BY <2>0, <2>3, Zenon DEF PipeWait, Goto, streamVars, uniVars, OSInv, OSTypeOK, WriterInv
  <2>4. ASSUME PipeCheckEOF(writer) PROVE WriterInv'
    BY <2>0, <2>4, Zenon DEF PipeCheckEOF, Goto, streamVars, uniVars, OSInv, OSTypeOK, WriterInv
  <2>5. ASSUME CloseUniStream(writer) PROVE WriterInv'
    BY <2>0, <2>5, Zenon DEF CloseUniStream, Goto, streamVars, uniVars, OSInv, OSTypeOK, WriterInv
  <2>6. ASSUME PipeCopy(writer) PROVE WriterInv'
    BY <2>0, <2>6, Zenon DEF PipeCopy, Goto, streamVars, uniVars, OSInv, OSTypeOK, WriterInv
  <2>7. ASSUME PipeWrite(writer) PROVE WriterInv'
    BY <2>0, <2>7, Zenon DEF PipeWrite, Goto, streamVars, uniVars, OSInv, OSTypeOK, WriterInv
  <2>8. ASSUME PipeWriteError(writer, "ready") PROVE WriterInv'
    BY <2>0, <2>8, Zenon DEF PipeWriteError, Goto, streamVars, uniVars, OSInv, OSTypeOK, WriterInv
  <2> QED BY <2>0, <2>1, <2>2, <2>3, <2>4, <2>5, <2>6, <2>7, <2>8, Zenon
<1>6. CASE Publisher!Dies
  <2>1. UniStreamDies(writer) /\ app' = app
    BY <1>6, PublisherSteps, Zenon DEF Publisher!Dies
  <2>2. OSInv'
    BY <2>1, UniStreamDiesInv, Zenon
  <2>3. WriterInv'
    BY <2>1, Zenon DEF UniStreamDies, streamVars, OSInv, OSTypeOK, WriterInv
  <2> QED BY <2>2, <2>3, Zenon
<1>7. CASE UNCHANGED Publisher!vars
  BY <1>7, Zenon DEF Publisher!vars, Publisher!osVars, OSInv, OSTypeOK, CursorInv, CursorOK, WriterInv
<1> QED BY <1>1, <1>2, <1>3, <1>4, <1>5, <1>6, <1>7, Zenon DEF Publisher!Next, Publisher!NewStream

\* The publisher's invariant holds in every reachable state.
LEMMA PubInvariance == ASSUME writer \in Pipes PROVE Publisher!Spec => []PubInv
<1>1. Publisher!Init => PubInv
  BY PubInit, Zenon
<1>2. PubInv /\ [Publisher!Next]_(Publisher!vars) => PubInv'
  BY PubNext, Zenon
<1> QED BY <1>1, <1>2, PTL DEF Publisher!Spec

\* A publisher's unidirectional stream, too, has accepted a prefix of the objects its
\* application wrote, and is finished only after the application's Close and with nothing
\* copied left behind (Pipe, and the goroutine of PubStream.NewStream).
THEOREM PublisherTheorem ==
    ASSUME writer \in Pipes PROVE Publisher!Spec => [](PrefixDelivery /\ FinOnlyAfterEOF)
<1>1. PubInv => PrefixDelivery
  BY CursorPrefix, Zenon DEF PubInv
<1>2. ASSUME PubInv, NEW p \in Pipes, fin[p]
      PROVE  IsEOF /\ hdr[p] /\ Len(out[p]) = index[p]
  BY <1>2, FinishedAll, Zenon DEF PubInv, WriterInv
<1>3. PubInv => FinOnlyAfterEOF
  BY <1>2, Zenon DEF FinOnlyAfterEOF
<1> QED BY <1>1, <1>3, PubInvariance, PTL

\* Every step of the publisher is a step of ordered delivery, or leaves its variables alone.
LEMMA PubSimulation ==
    ASSUME writer \in Pipes, PubInv, PubInv', [Publisher!Next]_(Publisher!vars)
    PROVE  [Delivery!Next]_(Delivery!vars)
<1> USE DEF PubInv
<1> SUFFICES Delivery!Next \/ UNCHANGED Delivery!vars
  OBVIOUS
<1>1. CASE Publisher!WriteObject
  <2>1. PICK o \in Object : AppendObject(o)
    BY <1>1, PublisherSteps, Zenon DEF Publisher!WriteObject
  <2>2. ~IsEOF
    BY <1>1, Zenon DEF Publisher!WriteObject, WriterInv
  <2>3. Delivery!Send(o)
    BY <2>1, <2>2, Zenon DEF AppendObject, uniVars, Delivery!Send
  <2> QED BY <2>3, Zenon DEF Delivery!Next
<1>2. CASE Publisher!CloseStream
  <2>1. Close /\ ~IsEOF
    BY <1>2, PublisherSteps, Zenon DEF Publisher!CloseStream, WriterInv
  <2>2. Delivery!End
    BY <2>1, Zenon DEF Close, uniVars, Delivery!End
  <2> QED BY <2>2, Zenon DEF Delivery!Next
<1>3. CASE Publisher!PipeStep
  <2>1. CASE PipeWrite(writer)
    <3>1. ~fin[writer]
      BY <2>1, Zenon DEF PipeWrite, Goto, WriterInv
    <3> QED BY <2>1, <3>1, WriteDelivers, Zenon DEF Delivery!Next
  <2>2. CASE CloseUniStream(writer)
    <3>1. IsEOF /\ ~fin[writer]
      BY <2>2, Zenon DEF CloseUniStream, Goto, WriterInv
    <3> QED BY <2>2, <3>1, CloseFinishes, Zenon DEF Delivery!Next
  <2>3. CASE \/ PipeWait(writer) \/ PipeCopy(writer) \/ PipeWriteError(writer, "ready")
             \/ PipeCheckEOF(writer)
    BY <2>3, Zenon DEF PipeWait, PipeCopy, PipeWriteError, PipeCheckEOF, streamVars, uniVars,
        Delivery!vars
  <2> QED BY <1>3, <2>1, <2>2, <2>3, PublisherSteps, Zenon DEF Publisher!PipeStep
<1>4. CASE Publisher!Dies
  <2>1. UniStreamDies(writer)
    BY <1>4, PublisherSteps, Zenon DEF Publisher!Dies
  <2>2. ~fin[writer]
    BY <2>1, Zenon DEF UniStreamDies, WriterInv
  <2> QED BY <2>1, <2>2, DeathDelivers, Zenon DEF Delivery!Next
<1>5. CASE Publisher!NewStream \/ Publisher!WgDone \/ UNCHANGED Publisher!vars
  BY <1>5, Zenon DEF Publisher!NewStream, Publisher!NewStreamFails, Publisher!NewStreamOpens,
      Publisher!NewStreamHeader, Publisher!NewStreamReturns, Publisher!WriteHeader, Publisher!WgDone,
      Publisher!vars, Publisher!osVars, Publisher!streamVars, Publisher!uniVars, Delivery!vars
<1> QED BY <1>1, <1>2, <1>3, <1>4, <1>5, Zenon DEF Publisher!Next

\* A publisher's stream implements ordered prefix delivery.
THEOREM PublisherRefinement == ASSUME writer \in Pipes PROVE Publisher!Spec => DeliverySpec
<1>1. Publisher!Init => Delivery!Init
  BY PublisherSteps, Zenon DEF Publisher!Init, OSInit, Delivery!Init
<1>2. PubInv /\ PubInv' /\ [Publisher!Next]_(Publisher!vars) => [Delivery!Next]_(Delivery!vars)
  BY PubSimulation, Zenon
<1> QED BY <1>1, <1>2, PubInvariance, PTL DEF Publisher!Spec, DeliverySpec, Delivery!Spec
=============================================================================
