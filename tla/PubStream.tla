----------------------------- MODULE PubStream -----------------------------
(***************************************************************************)
(* The publisher's side of one group or track: PubStream.NewStream opens a *)
(* unidirectional stream and starts the goroutine that pipes into it; the   *)
(* application then calls WriteObject and, once, Close.                     *)
(***************************************************************************)
EXTENDS ObjectStream

CONSTANT writer     \* the goroutine NewStream starts, the only pipe of the stream

VARIABLE app        \* the application: new, opened, waiting, writing, closed or refused

vars == <<app, osVars>>

Init == OSInit /\ app = "new"

-----------------------------------------------------------------------------
(* NewStream, in the application's goroutine.                              *)

\* WgAdd; OpenUniStream fails: the stream is returned with the error, unpiped.
NewStreamFails ==
    /\ app = "new"
    /\ app' = "refused"
    /\ wg' = wg \cup {writer}
    /\ UNCHANGED <<streamVars, pc, index, data, uniVars>>

\* WgAdd; OpenUniStream.
NewStreamOpens ==
    /\ app = "new"
    /\ app' = "opened"
    /\ wg' = wg \cup {writer}
    /\ Goto(writer, "idle", "opened")
    /\ UNCHANGED <<streamVars, index, data, uniVars>>

\* Write the header; go func() { ... }.
NewStreamHeader ==
    /\ app = "opened"
    /\ app' = "waiting"
    /\ WriteHeader(writer)

\* WgWait; return.
NewStreamReturns ==
    /\ app = "waiting"
    /\ wg = {}
    /\ app' = "writing"
    /\ UNCHANGED osVars

(* The application. *)

WriteObject ==
    /\ app = "writing"
    /\ \E o \in Object : AppendObject(o)
    /\ UNCHANGED app

CloseStream ==
    /\ app = "writing"
    /\ app' = "closed"
    /\ Close

-----------------------------------------------------------------------------
(* The goroutine.  WgDone comes before the first Pipe; an error of Pipe is  *)
(* logged and the loop goes on, only io.EOF leaves it.                     *)

WgDone ==
    /\ Goto(writer, "header", "ready")
    /\ wg' = wg \ {writer}
    /\ UNCHANGED <<app, streamVars, index, data, uniVars>>

\* One step of the goroutine's loop over Pipe.
PipeStep ==
    /\ \/ PipeWait(writer)
       \/ PipeCopy(writer)
       \/ PipeWrite(writer)
       \/ PipeWriteError(writer, "ready")
       \/ PipeCheckEOF(writer)
       \/ CloseUniStream(writer)
    /\ UNCHANGED app

Dies == UniStreamDies(writer) /\ UNCHANGED app

NewStream == NewStreamFails \/ NewStreamOpens \/ NewStreamHeader \/ NewStreamReturns

Next == NewStream \/ WriteObject \/ CloseStream \/ WgDone \/ PipeStep \/ Dies

\* The goroutines are scheduled, the transport accepts or refuses a Write, and
\* the application finishes its group.
Fairness ==
    /\ WF_vars(NewStream)
    /\ WF_vars(WgDone \/ PipeStep)
    /\ WF_vars(CloseStream)

Spec == Init /\ [][Next]_vars /\ Fairness

-----------------------------------------------------------------------------
=============================================================================
