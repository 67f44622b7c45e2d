---------------------------- MODULE ObjectStream ----------------------------
(***************************************************************************)
(* wire.GroupStream and wire.TrackStream (moq-go/moqt/wire): an array of   *)
(* objects guarded by ObjectLock, the condition variable ObjectCond, the   *)
(* flag IsEOF and a WaitGroup.  One producer appends and closes; goroutines *)
(* ("pipes") copy what is new to a QUIC unidirectional stream.  The two     *)
(* types differ only in the bytes they put around an object.               *)
(*                                                                         *)
(* This module holds the state and the steps of the stream itself;         *)
(* RelayForward and PubStream add the goroutines that run them.            *)
(*                                                                         *)
(* A pipe is at one of these points of its code:                           *)
(*   idle     not yet started                                              *)
(*   start    started, unidirectional stream not yet opened                *)
(*   opened   stream open, header not yet written                          *)
(*   header   header written, WgDone not yet called                        *)
(*   ready    about to enter Pipe (about to take ObjectLock)               *)
(*   waiting  inside ObjectCond.Wait                                       *)
(*   woken    notified, about to re-take ObjectLock                        *)
(*   copied   ObjectLock released, about to Write the copied objects       *)
(*   written  Write returned, about to read IsEOF                          *)
(*   closing  Pipe loop left, about to Close the unidirectional stream     *)
(*   done     goroutine returned                                           *)
(***************************************************************************)
EXTENDS Integers, Sequences, FiniteSets

CONSTANTS
    Object,     \* whole objects
    Torn,       \* an object cut short by the end of its stream
    Pipes,      \* the goroutines that pipe this stream
    MaxObjects  \* bound on the objects a producer appends

ASSUME ObjectAssumption ==
    /\ Torn \notin Object
    /\ MaxObjects \in Nat

VARIABLES
    ObjectsArr, \* GroupStream.ObjectsArr
    IsEOF,      \* GroupStream.IsEOF
    wg,         \* GroupStream.wg: the goroutines that have not called WgDone
    pc,         \* pc[p]: where pipe p is
    index,      \* index[p]: itr, the cursor passed to Pipe
    data,       \* data[p]: the objects copied under the lock, not yet written
    hdr,        \* hdr[p]: p's unidirectional stream has accepted the header
    out,        \* out[p]: the objects p's unidirectional stream has accepted
    fin,        \* fin[p]: p's unidirectional stream was closed with a FIN
    dead        \* dead[p]: p's unidirectional stream was reset or its connection closed

streamVars == <<ObjectsArr, IsEOF>>
uniVars == <<hdr, out, fin, dead>>
osVars == <<ObjectsArr, IsEOF, wg, pc, index, data, hdr, out, fin, dead>>

PipePoints == {"idle", "start", "opened", "header", "ready", "waiting", "woken",
               "copied", "written", "closing", "done"}

\* NewGroupStream and Parse: an empty array, IsEOF false, a fresh WaitGroup.
OSInit ==
    /\ ObjectsArr = << >>
    /\ IsEOF = FALSE
    /\ wg = {}
    /\ pc = [p \in Pipes |-> "idle"]
    /\ index = [p \in Pipes |-> 0]
    /\ data = [p \in Pipes |-> << >>]
    /\ hdr = [p \in Pipes |-> FALSE]
    /\ out = [p \in Pipes |-> << >>]
    /\ fin = [p \in Pipes |-> FALSE]
    /\ dead = [p \in Pipes |-> FALSE]

Goto(p, from, to) ==
    /\ pc[p] = from
    /\ pc' = [pc EXCEPT ![p] = to]

-----------------------------------------------------------------------------
(* The producer's operations, each one critical section of ObjectLock.     *)

\* ObjectCond.Broadcast: every goroutine inside Wait is notified, no other.
Broadcast == pc' = [p \in Pipes |-> IF pc[p] = "waiting" THEN "woken" ELSE pc[p]]

\* The tail of ReadObject, and WriteObject.
AppendObject(o) ==
    /\ Len(ObjectsArr) < MaxObjects
    /\ ObjectsArr' = Append(ObjectsArr, o)
    /\ Broadcast
    /\ UNCHANGED <<IsEOF, wg, index, data, uniVars>>

Close ==
    /\ IsEOF' = TRUE
    /\ Broadcast
    /\ UNCHANGED <<ObjectsArr, wg, index, data, uniVars>>

-----------------------------------------------------------------------------
(* Pipe, run in a loop by a pipe's goroutine.                              *)

\* Lock; Wait.  Wait is unconditional: it adds the goroutine to the wait set
\* and releases the lock whatever ObjectsArr and IsEOF are.
PipeWait(p) ==
    /\ Goto(p, "ready", "waiting")
    /\ UNCHANGED <<streamVars, wg, index, data, uniVars>>

\* Wait returns with the lock held; copy ObjectsArr[index..]; Unlock.
PipeCopy(p) ==
    /\ Goto(p, "woken", "copied")
    /\ data' = [data EXCEPT ![p] = SubSeq(ObjectsArr, index[p] + 1, Len(ObjectsArr))]
    /\ index' = [index EXCEPT ![p] = Len(ObjectsArr)]
    /\ UNCHANGED <<streamVars, wg, uniVars>>

\* stream.Write(data) succeeds.
PipeWrite(p) ==
    /\ Goto(p, "copied", "written")
    /\ ~dead[p]
    /\ out' = [out EXCEPT ![p] = out[p] \o data[p]]
    /\ data' = [data EXCEPT ![p] = << >>]
    /\ UNCHANGED <<streamVars, wg, index, hdr, fin, dead>>

\* stream.Write(data) fails and Pipe returns the error; the caller goes on at next.
PipeWriteError(p, next) ==
    /\ Goto(p, "copied", next)
    /\ dead[p]
    /\ data' = [data EXCEPT ![p] = << >>]
    /\ UNCHANGED <<streamVars, wg, index, uniVars>>

\* Mutant: Pipe never reports io.EOF.
PipeCheckEOFNever(p) ==
    /\ Goto(p, "written", "ready")
    /\ UNCHANGED <<streamVars, wg, index, data, uniVars>>

\* IsEOF is read after Unlock and after Write: io.EOF leaves the loop.
PipeCheckEOF(p) ==
    /\ Goto(p, "written", IF IsEOF THEN "closing" ELSE "ready")
    /\ UNCHANGED <<streamVars, wg, index, data, uniVars>>

-----------------------------------------------------------------------------
(* The unidirectional stream of a pipe.                                    *)

\* unistream.Write(header); its error is ignored.
WriteHeader(p) ==
    /\ Goto(p, "opened", "header")
    /\ hdr' = [hdr EXCEPT ![p] = ~dead[p]]
    /\ UNCHANGED <<streamVars, wg, index, data, out, fin, dead>>

\* unistream.Close sends a FIN unless the stream was reset.
CloseUniStream(p) ==
    /\ Goto(p, "closing", "done")
    /\ fin' = [fin EXCEPT ![p] = ~dead[p]]
    /\ UNCHANGED <<streamVars, wg, index, data, hdr, out, dead>>

\* The peer resets the stream or the connection goes away.  A Write that is in
\* progress has by then handed over some prefix of its data; all later ones fail.
UniStreamDies(p) ==
    /\ pc[p] \notin {"idle", "start", "done"}
    /\ ~dead[p]
    /\ dead' = [dead EXCEPT ![p] = TRUE]
    /\ \E k \in 0 .. Len(data[p]) :
          out' = [out EXCEPT ![p] = out[p] \o SubSeq(data[p], 1, k)]
    /\ UNCHANGED <<streamVars, wg, pc, index, data, hdr, fin>>

-----------------------------------------------------------------------------
\* Type correctness.
OSTypeOK ==
    /\ ObjectsArr \in Seq(Object \cup {Torn})
    /\ IsEOF \in BOOLEAN
    /\ wg \subseteq Pipes
    /\ pc \in [Pipes -> PipePoints]
    /\ index \in [Pipes -> Nat]
    /\ data \in [Pipes -> Seq(Object \cup {Torn})]
    /\ hdr \in [Pipes -> BOOLEAN]
    /\ out \in [Pipes -> Seq(Object \cup {Torn})]
    /\ fin \in [Pipes -> BOOLEAN]
    /\ dead \in [Pipes -> BOOLEAN]

\* What a unidirectional stream has accepted is a prefix of the producer's
\* objects: Pipe's cursor, its copy outside the lock and its broadcasts never
\* reorder, repeat or skip an object, whatever the interleaving and wherever
\* the stream dies.
PrefixDelivery ==
    \A p \in Pipes :
        /\ Len(out[p]) <= Len(ObjectsArr)
        /\ \A i \in 1 .. Len(out[p]) : out[p][i] = ObjectsArr[i]

\* Why PrefixDelivery holds: while the stream lives, what it has accepted (o)
\* and what the pipe holds in its hands (d) are together exactly the first n
\* objects of the array; once it is dead o is still a prefix.
CursorRel(arr, o, d, n, alive) ==
    /\ Len(o) <= n /\ n <= Len(arr)
    /\ \A i \in 1 .. Len(o) : o[i] = arr[i]
    /\ alive => /\ Len(o) + Len(d) = n
                /\ \A i \in 1 .. Len(d) : d[i] = arr[Len(o) + i]

CursorOK(p) ==
    /\ CursorRel(ObjectsArr, out[p], data[p], index[p], ~dead[p])
    /\ pc[p] # "copied" => data[p] = << >>

\* CursorOK of every pipe: the inductive invariant behind PrefixDelivery.
CursorInv == \A p \in Pipes : CursorOK(p)

\* A receiver sees the end of a stream only if the producer closed it, and then
\* the pipe had nothing left that it had already copied.
FinOnlyAfterEOF ==
    \A p \in Pipes : fin[p] => IsEOF /\ hdr[p] /\ Len(out[p]) = index[p]

\* A pipe that is not inside Wait, or about to enter it, when the producer closes
\* the stream sees the end and closes its own, unless that one dies.
AwakePipeFinishes ==
    \A p \in Pipes :
        (IsEOF /\ pc[p] \in {"woken", "copied", "written", "closing"}) ~> (fin[p] \/ dead[p])

Delivery == INSTANCE OrderedDelivery
    WITH Items <- Object \cup {Torn}, Receivers <- Pipes,
         sent <- ObjectsArr, ended <- IsEOF,
         got <- out, broken <- dead, finished <- fin

\* The stream and its pipes implement ordered delivery: each of their steps is
\* a step of the abstract specification or leaves its state alone.
DeliverySpec == Delivery!Spec
=============================================================================
