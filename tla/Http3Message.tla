---------------------------- MODULE Http3Message ----------------------------
(***************************************************************************)
(* The body of one HTTP/3 message, from the code that frames it to the     *)
(* code that reads it: a response, written by responseWriter under the     *)
(* control of a handler (http3/response_writer.go, server_conn.go) and     *)
(* read by RequestStream.ReadResponse and body (stream.go, body.go); or a  *)
(* request, written by sendRequestBody (client.go) and read by the same    *)
(* body.  Bytes are counted, header fields are left out but for the        *)
(* Content-Length and the presence of trailers.                            *)
(***************************************************************************)
EXTENDS Integers, Sequences, FiniteSetsExt

CONSTANTS
    Messages,               \* the messages sent: see Message
    ChunkSizes,             \* how much one Write, or one read of a body, carries
    MaxCalls,               \* bound: calls of the handler, chunks of a body
    maxSmallResponseSize,   \* below it a response is buffered
    max1xxResponses         \* informational responses the client accepts

Unset == -1                 \* no Content-Length field
NoStatus == 0
NoBodyStatus == 204
OK == 200
Continue == 100

\* kind: "request", "response" or "head" (the response to a HEAD request);
\* cl: the Content-Length the application set; trailer: it set trailers
Message(kind, cl, trailer) == [kind |-> kind, cl |-> cl, trailer |-> trailer]

VARIABLES
    msg,    \* the message
    w,      \* the responseWriter, or the goroutine that sends a request body
    wire,   \* the frames not yet read, and how the stream ends
    rd,     \* the reading side: Stream, body and the call loop
    accepted, \* bytes the application was told are written
    calls   \* bound
bvars == <<msg, w, wire, rd, accepted, calls>>

\* ---- writing a response (response_writer.go) ----------------------------

NewWriter(m) == [status |-> NoStatus, header |-> m.cl, contentLen |-> 0, numWritten |-> 0,
                 headerComplete |-> FALSE, headerWritten |-> FALSE, small |-> 0, done |-> FALSE]

bodyAllowedForStatus(s) == ~(s \in 100 .. 199 \/ s \in {204, 304})

Headers(status, cl) == [type |-> "HEADERS", status |-> status, cl |-> cl]
Data(n) == [type |-> "DATA", len |-> n]
Unknown == [type |-> "unknown"]
Trailers == [type |-> "HEADERS", status |-> NoStatus, cl |-> Unset]

\* An operation of the writer: its next state and the frames it emits.
Effect(s, frames) == [w |-> s, out |-> frames]

WriteHeader(s, status) ==
    CASE s.headerComplete -> Effect(s, <<>>)
      [] status < 200 -> Effect([s EXCEPT !.status = status], <<Headers(status, s.header)>>)
      [] OTHER -> Effect([s EXCEPT !.status = status, !.headerComplete = TRUE,
                                   !.contentLen = IF s.header = Unset THEN @ ELSE s.header], <<>>)

doWrite_bug(s, n) ==
    Effect([s EXCEPT !.headerWritten = TRUE, !.small = 0],
           (IF s.headerWritten THEN <<>> ELSE <<Headers(s.status, s.header)>>)
               \o (IF n = 0 THEN <<>> ELSE <<Data(s.small + n)>>))

doWrite(s, n) ==
    LET l == s.small + n
    IN  Effect([s EXCEPT !.headerWritten = TRUE, !.small = 0],
               (IF s.headerWritten THEN <<>> ELSE <<Headers(s.status, s.header)>>)
                   \o (IF l = 0 THEN <<>> ELSE <<Data(l)>>))

TooLong_bug(s) == s.contentLen # 0 /\ s.numWritten > s.contentLen + 1

\* A Content-Length of 0 counts as none.
TooLong(s) == s.contentLen # 0 /\ s.numWritten > s.contentLen

\* ok: the call reports the bytes as written.
Write(s, n, isHead) ==
    LET h == IF s.headerComplete THEN s ELSE WriteHeader(s, OK).w
        counted == [h EXCEPT !.numWritten = @ + n]
        refused == [w |-> counted, out |-> <<>>, ok |-> FALSE]
        taken(e) == [w |-> e.w, out |-> e.out, ok |-> TRUE]
    IN  CASE ~bodyAllowedForStatus(h.status) -> [refused EXCEPT !.w = h]
          [] TooLong(counted) -> refused
          [] isHead -> taken(Effect(counted, <<>>))
          [] ~h.headerWritten /\ h.small + n < maxSmallResponseSize ->
                 taken(Effect([counted EXCEPT !.small = @ + n], <<>>))
          [] OTHER -> taken(doWrite(counted, n))

FlushError(s) == doWrite(IF s.headerComplete THEN s ELSE WriteHeader(s, OK).w, 0)

\* The end of handleRequestStream: the handler has returned.
handlerReturned(s) ==
    FlushError([s EXCEPT !.header = IF ~s.headerWritten /\ @ = Unset THEN s.numWritten ELSE @])

flushTrailers == IF msg.trailer THEN <<Trailers>> ELSE <<>>

\* ---- writing a request (client.go, request_writer.go) -------------------

\* actualContentLength with a body: 0 means unknown.
actualContentLength(m) == IF m.cl = 0 THEN Unset ELSE m.cl

SendRequestHeader(m) == <<Headers(NoStatus, actualContentLength(m))>>

\* ---- reading (frames.go, stream.go, body.go) ----------------------------

\* ParseNext skips what it does not know; 0 when there is no frame yet.
ParseNext(frames) ==
    LET known == {i \in DOMAIN frames : frames[i].type # "unknown"}
    IN  IF known = {} THEN 0 ELSE Min(known)

newBody(r, cl) == [r EXCEPT !.hasContentLength = cl # Unset, !.remaining = cl]

\* checkContentLengthViolation
Violation(r) == r.hasContentLength /\ (r.remaining < 0 \/ (r.remaining = 0 /\ r.inFrame > 0))

-----------------------------------------------------------------------------

BInit ==
    /\ msg \in Messages
    /\ w = NewWriter(msg)
    /\ wire = [frames |-> IF msg.kind = "request" THEN SendRequestHeader(msg) ELSE <<>>, end |-> "open"]
    /\ rd = [pc |-> "header", inFrame |-> 0, hasContentLength |-> FALSE, remaining |-> Unset,
             parsedTrailer |-> FALSE, num1xx |-> 0, got |-> 0, status |-> NoStatus]
    /\ accepted = 0
    /\ calls = MaxCalls

Emit(out) == wire' = [wire EXCEPT !.frames = @ \o out]
Call == calls > 0 /\ ~w.done /\ wire.end = "open" /\ calls' = calls - 1
Response == msg.kind # "request"

HandlerWriteHeader(status) ==
    /\ Response /\ Call
    /\ LET e == WriteHeader(w, status) IN w' = e.w /\ Emit(e.out)
    /\ UNCHANGED <<msg, rd, accepted>>

HandlerWrite(n) ==
    /\ Response /\ Call
    /\ LET e == Write(w, n, msg.kind = "head")
       IN  w' = e.w /\ Emit(e.out) /\ accepted' = accepted + IF e.ok THEN n ELSE 0
    /\ UNCHANGED <<msg, rd>>

HandlerFlush ==
    /\ Response /\ Call
    /\ LET e == FlushError(w) IN w' = e.w /\ Emit(e.out)
    /\ UNCHANGED <<msg, rd, accepted>>

\* The handler returns: the response is completed and the stream closed.
HandlerReturns ==
    /\ Response /\ ~w.done /\ wire.end = "open"
    /\ LET e == handlerReturned(w)
       IN  /\ w' = [e.w EXCEPT !.done = TRUE]
           /\ wire' = [frames |-> wire.frames \o e.out \o flushTrailers, end |-> "fin"]
    /\ UNCHANGED <<msg, rd, accepted, calls>>

\* The handler panics: the stream is reset.
HandlerPanics ==
    /\ Response /\ ~w.done /\ wire.end = "open"
    /\ w' = [w EXCEPT !.done = TRUE]
    /\ wire' = [wire EXCEPT !.end = "reset"]
    /\ UNCHANGED <<msg, rd, accepted, calls>>

\* LimitReader(sr, contentLength): what of a chunk of the body is sent.
Limit(n) == IF msg.cl <= 0 THEN n ELSE Min({n, Max({msg.cl - w.numWritten, 0})})

\* sendRequestBody: one round of io.CopyBuffer, through the LimitReader and,
\* beyond it, to io.Discard.
SendChunk(n) ==
    /\ msg.kind = "request" /\ Call
    /\ w' = [w EXCEPT !.numWritten = @ + n]
    /\ Emit(IF Limit(n) = 0 THEN <<>> ELSE <<Data(Limit(n))>>)
    /\ accepted' = accepted + n
    /\ UNCHANGED <<msg, rd>>

\* The request's body ends: a body longer than the Content-Length resets the
\* stream, any other is followed by the trailers and closes it.
SendDone ==
    /\ msg.kind = "request" /\ ~w.done /\ wire.end = "open"
    /\ w' = [w EXCEPT !.done = TRUE]
    /\ wire' = IF msg.cl > 0 /\ w.numWritten > msg.cl
               THEN [wire EXCEPT !.end = "reset"]
               ELSE [frames |-> wire.frames \o flushTrailers, end |-> "fin"]
    /\ UNCHANGED <<msg, accepted, rd, calls>>

\* cancelingReader: reading the request's body fails.
SendFails ==
    /\ msg.kind = "request" /\ ~w.done /\ wire.end = "open"
    /\ w' = [w EXCEPT !.done = TRUE]
    /\ wire' = [wire EXCEPT !.end = "reset"]
    /\ UNCHANGED <<msg, rd, accepted, calls>>

\* The writing side is one that also sends frames of extension types.
Extension ==
    /\ Call
    /\ Emit(<<Unknown>>)
    /\ UNCHANGED <<msg, w, rd, accepted>>

\* A read reports the end of the stream: after everything else, or, when the
\* stream was reset, at any time.
AtEnd == wire.end = "reset" \/ (wire.end = "fin" /\ rd.inFrame = 0 /\ ParseNext(wire.frames) = 0)
Drop(i) == wire' = [wire EXCEPT !.frames = SubSeq(@, i + 1, Len(@))]
EndResult == IF wire.end = "fin" THEN "eof" ELSE "error"

\* doRequest's loop: informational responses are skipped, up to a bound.
Informational(r) == IF r.num1xx = max1xxResponses
                    THEN [r EXCEPT !.pc = "error"]
                    ELSE [r EXCEPT !.num1xx = @ + 1]

\* One turn of doRequest's loop over ReadResponse, or the server's reading of the request
\* header: one HEADERS frame.
ReadResponse ==
    /\ rd.pc = "header"
    /\ \/ LET i == ParseNext(wire.frames)
              f == wire.frames[i]
          IN  /\ i # 0
              /\ Drop(i)
              /\ rd' = CASE f.type # "HEADERS" -> [rd EXCEPT !.pc = "error"]
                         [] f.status \in 100 .. 199 -> Informational(rd)
                         [] OTHER -> newBody([rd EXCEPT !.pc = "body", !.status = f.status], f.cl)
       \/ AtEnd /\ rd' = [rd EXCEPT !.pc = "error"] /\ UNCHANGED wire
    /\ UNCHANGED <<msg, w, accepted, calls>>

\* The part of the buffer that body.Read passes on.
Clip(size) == IF rd.hasContentLength THEN Min({size, rd.remaining}) ELSE size

Checked(r, res) == IF Violation(r) THEN [r EXCEPT !.pc = "too much"] ELSE [r EXCEPT !.pc = res]

\* Stream.Read's loop over the frames: a DATA frame, or the trailers, once.
NextFrame(r, f) ==
    CASE r.parsedTrailer -> [r EXCEPT !.pc = "error"]
      [] f.type = "DATA" -> Checked([r EXCEPT !.inFrame = f.len], "body")
      [] OTHER -> [r EXCEPT !.parsedTrailer = TRUE]

\* body.Read with a buffer of the given size: Stream.Read inside it first
\* parses frames up to the next DATA frame (a step of its own here); trailers
\* end that read without data.
BodyRead(size) ==
    /\ rd.pc = "body"
    /\ \/ \* bytes of the current frame; the transport may deliver any part of it
          /\ rd.inFrame > 0
          /\ IF Violation(rd)
             THEN rd' = Checked(rd, "body")
             ELSE \E n \in 1 .. Min({Clip(size), rd.inFrame}) :
                      rd' = Checked([rd EXCEPT !.inFrame = @ - n, !.remaining = @ - n, !.got = @ + n], "body")
          /\ UNCHANGED wire
       \/ \* the next frame
          /\ rd.inFrame = 0
          /\ LET i == ParseNext(wire.frames)
                 f == wire.frames[i]
             IN  /\ i # 0
                 /\ Drop(i)
                 /\ rd' = NextFrame(rd, f)
       \/ AtEnd /\ rd' = [rd EXCEPT !.pc = EndResult] /\ UNCHANGED wire
    /\ UNCHANGED <<msg, w, accepted, calls>>

BNext ==
    \/ \E s \in {Continue, OK, NoBodyStatus} : HandlerWriteHeader(s)
    \/ \E n \in ChunkSizes : HandlerWrite(n) \/ SendChunk(n) \/ BodyRead(n)
    \/ HandlerFlush \/ HandlerReturns \/ HandlerPanics
    \/ SendDone \/ SendFails \/ Extension \/ ReadResponse

\* A body that ends cleanly is the body its sender was told it had sent: no
\* buffered byte is lost by Flush or by the end of the handler, none is sent
\* twice, and a request whose body outgrew its Content-Length ends in an error.
BodyFaithful ==
    rd.pc = "eof" => rd.got = IF msg.kind = "head" THEN 0 ELSE accepted

\* What the writing side accepts, the reading side accepts: the reader meets
\* neither a Content-Length violation nor a protocol error, unless the stream
\* was reset, the application declared a length of 0 and wrote nonetheless (0
\* counts as unset in responseWriter), or it sent too many 1xx responses.
WritersKeepContentLength ==
    /\ rd.pc = "too much" => msg.kind = "response" /\ msg.cl = 0
    /\ rd.pc = "error" => wire.end = "reset" \/ rd.num1xx = max1xxResponses
=============================================================================
