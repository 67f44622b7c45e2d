---------------------------- MODULE RelayForward ----------------------------
(***************************************************************************)
(* The relay's path for one incoming group or track stream: the goroutine  *)
(* RelayStream.ProcessObjects reads objects from the publisher, and one     *)
(* RelayHandler.ProcessMOQTStream goroutine per subscriber pipes them out.  *)
(***************************************************************************)
EXTENDS ObjectStream

VARIABLES
    Subscribers, \* RelayStream.Subscribers when ForwardStream takes its read lock
    prod,        \* where ProcessObjects is: forward, read, torn, eof or aborted
    spawned      \* the subscribers ForwardStream has started a goroutine for

vars == <<Subscribers, prod, spawned, osVars>>
prodVars == <<Subscribers, prod, spawned>>

Init ==
    /\ OSInit
    /\ Subscribers \in SUBSET Pipes
    /\ prod = "forward"
    /\ spawned = {}

-----------------------------------------------------------------------------
(* ProcessObjects.                                                         *)

\* One turn of ForwardStream's loop: WgAdd; go sub.ProcessMOQTStream(stream).
ForwardTo(p) ==
    /\ prod = "forward"
    /\ p \in Subscribers \ spawned
    /\ spawned' = spawned \cup {p}
    /\ wg' = wg \cup {p}
    /\ Goto(p, "idle", "start")
    /\ UNCHANGED <<Subscribers, prod, streamVars, index, data, uniVars>>

\* Mutant: ForwardStream does not wait for the goroutines it started.
ForwardStreamNoWait ==
    /\ prod = "forward"
    /\ spawned = Subscribers
    /\ prod' = "read"
    /\ UNCHANGED <<Subscribers, spawned, osVars>>

\* WgWait returns: every goroutine has called WgDone.
ForwardStreamReturns ==
    /\ prod = "forward"
    /\ spawned = Subscribers
    /\ wg = {}
    /\ prod' = "read"
    /\ UNCHANGED <<Subscribers, spawned, osVars>>

\* Mutant: parsing goes on after a torn object.
ReadObjectGoesOn ==
    /\ prod = "read"
    /\ \E o \in Object \cup {Torn} : AppendObject(o)
    /\ UNCHANGED <<Subscribers, spawned, prod>>

\* ReadObject parses an object.  Object.Parse drops the error of io.ReadFull, so
\* a payload cut short by the end of the stream is appended like any other.
ReadObject ==
    /\ prod = "read"
    /\ \E o \in Object \cup {Torn} :
          /\ AppendObject(o)
          /\ prod' = IF o = Torn THEN "torn" ELSE "read"
    /\ UNCHANGED <<Subscribers, spawned>>

\* Mutant: ProcessObjects goes on after io.EOF.
ReadEOFGoesOn ==
    /\ prod \in {"read", "torn"}
    /\ Close
    /\ UNCHANGED prodVars

\* ReadObject meets io.EOF: it closes the stream, and ProcessObjects returns.
ReadEOF ==
    /\ prod \in {"read", "torn"}
    /\ prod' = "eof"
    /\ Close
    /\ UNCHANGED <<Subscribers, spawned>>

\* ReadObject returns any other error: ProcessObjects returns without Close.
ReadError ==
    /\ prod \in {"read", "torn"}
    /\ prod' = "aborted"
    /\ UNCHANGED <<Subscribers, spawned, osVars>>

-----------------------------------------------------------------------------
(* ProcessMOQTStream.                                                      *)

\* GetSubID or OpenUniStream fails: WgDone, return.
NoUniStream(p) ==
    /\ Goto(p, "start", "done")
    /\ wg' = wg \ {p}
    /\ UNCHANGED <<prodVars, streamVars, index, data, uniVars>>

OpenUniStream(p) ==
    /\ Goto(p, "start", "opened")
    /\ UNCHANGED <<prodVars, streamVars, wg, index, data, uniVars>>

SendHeader(p) == WriteHeader(p) /\ UNCHANGED prodVars

\* WgDone comes after the header and before the first Pipe.
WgDone(p) ==
    /\ Goto(p, "header", "ready")
    /\ wg' = wg \ {p}
    /\ UNCHANGED <<prodVars, streamVars, index, data, uniVars>>

\* One step of the loop over Pipe: EOF and errors leave it.
PipeStep(p) ==
    /\ \/ PipeWait(p)
       \/ PipeCopy(p)
       \/ PipeWrite(p)
       \/ PipeWriteError(p, "closing")
       \/ PipeCheckEOF(p)
       \/ CloseUniStream(p)
    /\ UNCHANGED prodVars

Dies(p) == UniStreamDies(p) /\ UNCHANGED prodVars

Pipe(p) == OpenUniStream(p) \/ NoUniStream(p) \/ SendHeader(p) \/ WgDone(p) \/ PipeStep(p)

ProcessObjects == (\E p \in Pipes : ForwardTo(p)) \/ ForwardStreamReturns
                      \/ ReadObject \/ ReadEOF \/ ReadError

Next == ProcessObjects \/ \E p \in Pipes : Pipe(p) \/ Dies(p)

\* The goroutines are scheduled, the transport eventually accepts or refuses a
\* Write, and an incoming stream ends or fails.  Nothing forces a stream to die.
Fairness ==
    /\ WF_vars(ProcessObjects)
    /\ \A p \in Pipes : WF_vars(Pipe(p))

Spec == Init /\ [][Next]_vars /\ Fairness

-----------------------------------------------------------------------------
\* The goroutines of ProcessObjects and ProcessMOQTStream are where the code can be, and the
\* stream holds what they put into it.
TypeOK ==
    /\ OSTypeOK
    /\ Subscribers \subseteq Pipes
    /\ spawned \subseteq Subscribers
    /\ prod \in {"forward", "read", "torn", "eof", "aborted"}

\* "Wait for all subscribers to write the Stream Header in CS and then start
\* reading the Objects" (relaystream.go:80): once an object has been read or the
\* stream has ended, every subscriber of the stream has its header, or has given
\* up or lost its stream.
HeadersBeforeObjects ==
    (ObjectsArr # << >> \/ IsEOF) =>
        \A p \in Subscribers :
            /\ pc[p] \notin {"idle", "start", "opened", "header"}
            /\ pc[p] = "done" \/ hdr[p] \/ dead[p]

\* Only the last object can be torn, and nothing follows it: the relay never
\* resumes parsing in the middle of an object.
TornOnlyLast ==
    \A i \in 1 .. Len(ObjectsArr) : ObjectsArr[i] = Torn => i = Len(ObjectsArr)

\* What ProcessObjects promises of the streams it feeds: headers first (HeadersBeforeObjects),
\* and no object after one that was cut short (TornOnlyLast).
ObjectsForwarded == HeadersBeforeObjects /\ TornOnlyLast

\* "subscriber 需要在 publisher 发送前连接才能接收完整数据"
\* (FILE_TRANSFER_TEST.md:150): a subscriber that was there before the first
\* object, whose stream was opened, never died and was finished, has them all.
CompleteDelivery ==
    \A p \in Subscribers : fin[p] => out[p] = ObjectsArr
=============================================================================
