------------------------------ MODULE ConnLoop ------------------------------
(***************************************************************************)
(* The run loop of a connection (connection.go: run, handlePackets,        *)
(* handlePacket, triggerSending, setCloseError, handleCloseError) and the  *)
(* goroutines around it: the transport that hands over packets, the        *)
(* application that queues data and closes, and the send queue's own loop  *)
(* (send_queue.go).  They meet in channels of capacity one (a token is     *)
(* there or not), so the question is whether a wake-up can be lost.        *)
(*                                                                         *)
(* A packet from the peer acknowledges one of ours and asks for an ACK, or *)
(* carries CONNECTION_CLOSE.  What is to be sent is a number of packets.   *)
(***************************************************************************)
EXTENDS Integers, Sequences, FiniteSets, TLAPS

CONSTANTS sendQueueCapacity,
          maxPacketsToProcess,
          MaxConnUnprocessedPackets,
          MaxControlFrames,  \* more than these queued closes the connection
          CongestionWindow,  \* packets in flight before congestion control stops
          Writers,           \* application goroutines that send
          Closers,           \* application goroutines that close
          MaxEvents          \* packets queued for the loop, write errors, timeouts, failed handshakes

VARIABLES pc,        \* where the loop is
          call,      \* handlePackets: [site, n, processed]
          sqa,       \* is the loop waiting for sendQueueAvailable?
          immediate, \* pacingDeadline = deadlineSendImmediately
          work,      \* packets there is data for
          flight,
          rq,        \* receivedPackets
          notify, sched, closeTok,  \* notifyReceivedPacket, sendingScheduled, closeChan
          closeErr,  \* "none", or the first error
          sq, avail, \* the send queue and its available channel
          srun,      \* the send queue's loop
          closeCalled, shouldClose, runStopped,
          net,       \* the transport's goroutine inside handlePacket
          wr, cl,    \* the application's goroutines
          ids,       \* the connection's IDs in the transport
          closes,    \* CONNECTION_CLOSE packets sent
          ctxDone,   \* the connection's context
          events, panic

loop == <<pc, call, sqa, immediate>>
chans == <<notify, sched, closeTok>>
queue == <<sq, avail, srun, closeCalled, shouldClose, runStopped>>
outcome == <<ids, closes, ctxDone>>
cvars == <<loop, work, flight, rq, chans, closeErr, queue, net, wr, cl, outcome, events, panic>>

CInit ==
  /\ pc = "start" /\ call = [site |-> "top", n |-> 0, processed |-> FALSE]
  /\ sqa = FALSE /\ immediate = FALSE
  /\ work = 1 /\ flight = 0 /\ rq = <<>>
  /\ notify = FALSE /\ sched = FALSE /\ closeTok = FALSE /\ closeErr = "none"
  /\ sq = 0 /\ avail = FALSE /\ srun = "off"
  /\ closeCalled = FALSE /\ shouldClose = FALSE /\ runStopped = FALSE
  /\ net = "idle" /\ wr = [w \in Writers |-> "idle"] /\ cl = [k \in Closers |-> "idle"]
  /\ ids = "registered" /\ closes = 0 /\ ctxDone = FALSE
  /\ events = MaxEvents /\ panic = FALSE

WouldBlock == sq = sendQueueCapacity

\* MUTANT: a later error replaces the one the close started with.
First_bug(e) == e

\* closeErr.CompareAndSwap(nil, e)
First(e) == IF closeErr = "none" THEN e ELSE closeErr

\* setCloseError, called by the loop itself.
setCloseError(e) == closeErr' = First(e) /\ closeTok' = TRUE

---------------------------------------------------------------------------
(* The run loop                                                            *)

\* StartHandshake fails and run returns at once, or the send queue is started
\* and (the ClientHello being there) sending is scheduled.
Start ==
  /\ pc = "start"
  /\ \/ /\ pc' = "top" /\ srun' = "select" /\ sched' = TRUE
        /\ UNCHANGED <<ctxDone, events>>
     \/ /\ events > 0 /\ events' = events - 1
        /\ pc' = "failed" /\ ctxDone' = TRUE
        /\ UNCHANGED <<srun, sched>>
  /\ UNCHANGED <<call, sqa, immediate, work, flight, rq, notify, closeTok, closeErr, sq, avail,
                 closeCalled, shouldClose, runStopped, net, wr, cl, ids, closes, panic>>

Top ==
  /\ pc = "top"
  /\ IF work > MaxControlFrames
     THEN setCloseError("local") /\ pc' = "closing" /\ UNCHANGED call
     ELSE /\ closeTok' = FALSE /\ UNCHANGED closeErr
          /\ pc' = IF closeTok THEN "closing" ELSE "recv"
          /\ call' = [site |-> "top", n |-> 0, processed |-> FALSE]
  /\ UNCHANGED <<sqa, immediate, work, flight, rq, notify, sched, queue, net, wr, cl, outcome,
                 events, panic>>

\* Where the loop goes when handlePackets returns.
AfterPackets(processed) ==
  CASE call.site = "top" -> IF ~sqa /\ (processed \/ immediate) THEN "after" ELSE "wait"
    [] call.site = "wait" -> IF processed THEN "after" ELSE "top"

\* The loop reminds itself of the packets it has left over.
Remind(more) == notify \/ more

\* handlePackets takes one packet at a time; the lock is free in between.
Recv ==
  /\ pc = "recv"
  /\ IF rq = <<>>
     THEN /\ pc' = AfterPackets(FALSE)
          /\ UNCHANGED <<call, rq, work, flight, notify, closeTok, closeErr>>
     ELSE /\ rq' = Tail(rq)
          /\ IF Head(rq) = "close"
             THEN /\ setCloseError("remote") /\ pc' = "closing"
                  /\ UNCHANGED <<call, work, flight, notify>>
             ELSE LET more == Tail(rq) # <<>>
                      last == ~more \/ call.n + 1 = maxPacketsToProcess
                  IN /\ work' = work + 1
                     /\ flight' = IF flight > 0 THEN flight - 1 ELSE 0
                     /\ call' = [call EXCEPT !.n = @ + 1, !.processed = TRUE]
                     /\ notify' = IF last THEN Remind(more) ELSE notify
                     /\ pc' = IF last THEN AfterPackets(TRUE) ELSE "recv"
                     /\ UNCHANGED <<closeTok, closeErr>>
  /\ UNCHANGED <<sqa, immediate, sched, queue, net, wr, cl, outcome, events, panic>>

\* The select of the run loop.  The timer is always armed: with the idle
\* timeout at least, with loss detection while packets are in flight.
Wait ==
  /\ pc = "wait"
  /\ \/ /\ closeTok /\ closeTok' = FALSE /\ pc' = "closing"
        /\ UNCHANGED <<call, avail, notify, sched, closeErr, work, events>>
     \/ /\ sched /\ sched' = FALSE /\ pc' = "after"
        /\ UNCHANGED <<call, avail, notify, closeTok, closeErr, work, events>>
     \/ /\ sqa /\ avail /\ avail' = FALSE /\ pc' = "after"
        /\ UNCHANGED <<call, notify, sched, closeTok, closeErr, work, events>>
     \/ /\ notify /\ notify' = FALSE /\ pc' = "recv"
        /\ call' = [site |-> "wait", n |-> 0, processed |-> FALSE]
        /\ UNCHANGED <<avail, sched, closeTok, closeErr, work, events>>
     \/ /\ events > 0 /\ events' = events - 1
        /\ \/ setCloseError("immediate") /\ pc' = "closing" /\ UNCHANGED work
           \/ flight > 0 /\ work' = work + 1 /\ pc' = "after" /\ UNCHANGED <<closeTok, closeErr>>
        /\ UNCHANGED <<call, avail, notify, sched>>
  /\ UNCHANGED <<sqa, immediate, flight, rq, sq, srun, closeCalled, shouldClose, runStopped, net,
                 wr, cl, outcome, panic>>

After ==
  /\ pc = "after"
  /\ IF WouldBlock THEN pc' = "top" /\ sqa' = TRUE /\ immediate' = FALSE
     ELSE IF closeErr # "none" THEN pc' = "closing" /\ UNCHANGED <<sqa, immediate>>
     ELSE pc' = "send" /\ immediate' = FALSE /\ UNCHANGED sqa
  /\ UNCHANGED <<call, work, flight, rq, chans, closeErr, queue, net, wr, cl, outcome, events, panic>>

\* One round of triggerSending: a probe timeout may exceed the window, which
\* the model leaves to the timer.
triggerSending ==
  /\ pc = "send"
  /\ IF work > 0 /\ flight < CongestionWindow
     THEN /\ work' = work - 1 /\ flight' = flight + 1
          /\ panic' = (panic \/ (WouldBlock /\ ~runStopped))
          /\ sq' = IF WouldBlock THEN sq ELSE sq + 1
          /\ pc' = "check" /\ UNCHANGED sqa
     ELSE pc' = "top" /\ sqa' = WouldBlock /\ UNCHANGED <<work, flight, panic, sq>>
  /\ UNCHANGED <<call, immediate, rq, chans, closeErr, avail, srun, closeCalled, shouldClose,
                 runStopped, net, wr, cl, outcome, events>>

\* The rest of sendQueue.Send: the queue is looked at, then the channel drained.
Check ==
  /\ pc = "check"
  /\ pc' = IF WouldBlock THEN "clear" ELSE "sent"
  /\ UNCHANGED <<call, sqa, immediate, work, flight, rq, chans, closeErr, queue, net, wr, cl,
                 outcome, events, panic>>

Clear ==
  /\ pc = "clear"
  /\ avail' = FALSE /\ pc' = "sent"
  /\ UNCHANGED <<call, sqa, immediate, work, flight, rq, chans, closeErr, sq, srun, closeCalled,
                 shouldClose, runStopped, net, wr, cl, outcome, events, panic>>

\* MUTANT: the sender does not ask again whether the queue has room.
Sent_bug ==
  /\ pc = "sent"
  /\ pc' = "send" /\ UNCHANGED <<sqa, immediate>>
  /\ UNCHANGED <<call, work, flight, rq, chans, closeErr, queue, net, wr, cl, outcome, events, panic>>

Sent ==
  /\ pc = "sent"
  /\ IF WouldBlock THEN pc' = "top" /\ sqa' = TRUE /\ UNCHANGED immediate
     ELSE IF rq # <<>> THEN pc' = "top" /\ sqa' = FALSE /\ immediate' = TRUE
     ELSE pc' = "send" /\ UNCHANGED <<sqa, immediate>>
  /\ UNCHANGED <<call, work, flight, rq, chans, closeErr, queue, net, wr, cl, outcome, events, panic>>

Closing ==
  /\ pc = "closing"
  /\ closeCalled' = TRUE /\ pc' = "draining"
  /\ UNCHANGED <<call, sqa, immediate, work, flight, rq, chans, closeErr, sq, avail, srun,
                 shouldClose, runStopped, net, wr, cl, outcome, events, panic>>

\* sendQueue.Close has returned; handleCloseError; the deferred functions.
Closed ==
  /\ pc = "draining" /\ runStopped
  /\ ids' = IF closeErr = "immediate" THEN "removed" ELSE "replaced"
  /\ closes' = IF closeErr = "local" THEN closes + 1 ELSE closes
  /\ rq' = <<>> /\ ctxDone' = TRUE /\ pc' = "closed"
  /\ UNCHANGED <<call, sqa, immediate, work, flight, chans, closeErr, queue, net, wr, cl, events,
                 panic>>

---------------------------------------------------------------------------
(* The send queue's loop; a write error is passed on by the goroutine that *)
(* runs it (destroyImpl).                                                  *)

Run ==
  /\ \/ /\ srun = "select" /\ shouldClose /\ sq = 0
        /\ srun' = "done" /\ runStopped' = TRUE
        /\ UNCHANGED <<sq, avail, shouldClose, closeErr, closeTok, events>>
     \/ /\ srun = "select" /\ closeCalled /\ ~shouldClose
        /\ shouldClose' = TRUE
        /\ UNCHANGED <<srun, runStopped, sq, avail, closeErr, closeTok, events>>
     \/ /\ srun = "select" /\ sq > 0
        /\ sq' = sq - 1 /\ srun' = "write"
        /\ UNCHANGED <<runStopped, avail, shouldClose, closeErr, closeTok, events>>
     \/ /\ srun = "write" /\ srun' = "signal"
        /\ UNCHANGED <<runStopped, sq, avail, shouldClose, closeErr, closeTok, events>>
     \/ /\ srun = "write" /\ events > 0 /\ events' = events - 1
        /\ srun' = "error" /\ runStopped' = TRUE
        /\ UNCHANGED <<sq, avail, shouldClose, closeErr, closeTok>>
     \/ /\ srun = "signal" /\ avail' = TRUE /\ srun' = "select"
        /\ UNCHANGED <<runStopped, sq, shouldClose, closeErr, closeTok, events>>
     \/ /\ srun = "error" /\ srun' = "token" /\ closeErr' = First("immediate")
        /\ UNCHANGED <<runStopped, sq, avail, shouldClose, closeTok, events>>
     \/ /\ srun = "token" /\ srun' = "done" /\ closeTok' = TRUE
        /\ UNCHANGED <<runStopped, sq, avail, shouldClose, closeErr, events>>
  /\ UNCHANGED <<loop, work, flight, rq, notify, sched, closeCalled, net, wr, cl, outcome,
                 panic>>

---------------------------------------------------------------------------
(* The transport, and the application                                      *)

\* handlePacket: the packet is queued under the lock, the token follows.  It is
\* dropped if the queue is full.
handlePacket ==
  /\ \/ /\ net = "idle" /\ pc # "start" /\ Len(rq) >= MaxConnUnprocessedPackets
        /\ UNCHANGED <<rq, net, notify, events>>
     \/ /\ net = "idle" /\ pc # "start" /\ Len(rq) < MaxConnUnprocessedPackets
        /\ events > 0 /\ events' = events - 1
        /\ \E kind \in {"data", "close"} : rq' = Append(rq, kind)
        /\ net' = "pushed" /\ UNCHANGED notify
     \/ /\ net = "pushed" /\ net' = "idle" /\ notify' = TRUE
        /\ UNCHANGED <<rq, events>>
  /\ UNCHANGED <<loop, work, flight, sched, closeTok, closeErr, queue, wr, cl, outcome,
                 panic>>

\* MUTANT: sending is scheduled before the frame is queued.
Write_bug(w) ==
  /\ \/ wr[w] = "idle" /\ wr' = [wr EXCEPT ![w] = "queued"] /\ sched' = TRUE /\ UNCHANGED work
     \/ wr[w] = "queued" /\ wr' = [wr EXCEPT ![w] = "done"] /\ work' = work + 1 /\ UNCHANGED sched
  /\ UNCHANGED <<loop, flight, rq, notify, closeTok, closeErr, queue, net, cl, outcome, events,
                 panic>>

\* A stream write or a control frame: queued in the framer, then scheduled.
Write(w) ==
  /\ \/ wr[w] = "idle" /\ wr' = [wr EXCEPT ![w] = "queued"] /\ work' = work + 1 /\ UNCHANGED sched
     \/ wr[w] = "queued" /\ wr' = [wr EXCEPT ![w] = "done"] /\ sched' = TRUE /\ UNCHANGED work
  /\ UNCHANGED <<loop, flight, rq, notify, closeTok, closeErr, queue, net, cl, outcome, events,
                 panic>>

\* CloseWithError: the error, the token, then the wait for the context.
Close(k) ==
  /\ \/ /\ cl[k] = "idle" /\ closeErr' = First("local") /\ cl' = [cl EXCEPT ![k] = "token"]
        /\ UNCHANGED closeTok
     \/ /\ cl[k] = "token" /\ closeTok' = TRUE /\ cl' = [cl EXCEPT ![k] = "wait"]
        /\ UNCHANGED closeErr
     \/ /\ cl[k] = "wait" /\ ctxDone /\ cl' = [cl EXCEPT ![k] = "done"]
        /\ UNCHANGED <<closeErr, closeTok>>
  /\ UNCHANGED <<loop, work, flight, rq, notify, sched, queue, net, wr, outcome, events, panic>>

LoopStep ==
  \/ Start \/ Top \/ Recv \/ Wait \/ After \/ triggerSending \/ Check \/ Clear \/ Sent
  \/ Closing \/ Closed

CNext ==
  \/ LoopStep \/ Run \/ handlePacket
  \/ \E w \in Writers : Write(w)
  \/ \E k \in Closers : Close(k)

CSpec == CInit /\ [][CNext]_cvars

---------------------------------------------------------------------------
\* sendQueue.Send "is guaranteed to not block": the loop never sends into a
\* full queue.  The first error decides how the connection ends: one
\* CONNECTION_CLOSE if it was closed locally, none otherwise, and only after
\* the queued packets have left (or the queue's loop has died of an error).
CloseOnce ==
  /\ ~panic
  /\ closes = (IF ids = "replaced" /\ closeErr = "local" THEN 1 ELSE 0)
  /\ pc = "closed" => /\ ctxDone /\ ids # "registered" /\ runStopped
                      /\ sq = 0 \/ srun \in {"error", "token", "done"}

\* No wake-up is lost.  When the loop sleeps with no token in any channel it
\* listens to, there is nothing to do, or what there is to do waits for the
\* congestion window, or whoever brought it has yet to leave the token.
NoLostWakeup ==
  pc = "wait" /\ ~closeTok /\ ~sched /\ ~notify /\ ~(sqa /\ avail) =>
    /\ closeErr = "none" \/ srun = "token" \/ \E k \in Closers : cl[k] = "token"
    /\ rq = <<>> \/ net = "pushed"
    /\ \/ work = 0
       \/ flight >= CongestionWindow
       \/ sqa /\ (sq > 0 \/ srun \in {"write", "signal", "error", "token"})
       \/ \E w \in Writers : wr[w] = "queued"

\* When each goroutine has a step of its own to take.
LoopCanStep ==
  \/ pc \in {"start", "top", "recv", "after", "send", "check", "clear", "sent", "closing"}
  \/ pc = "wait" /\ (closeTok \/ sched \/ notify \/ (sqa /\ avail))
  \/ pc = "draining" /\ runStopped
RunCanStep ==
  \/ srun \in {"write", "signal", "error", "token"}
  \/ srun = "select" /\ (sq > 0 \/ closeCalled)
CloserCanStep(k) == cl[k] = "token" \/ (cl[k] = "wait" /\ ctxDone)

\* Once closed, a connection really ends: when no goroutine can go on by itself
\* the context is done and every CloseWithError has returned.  (Every step uses
\* up a token, a packet or an event, so the goroutines get there.)
CloseCompletes ==
  \/ LoopCanStep \/ RunCanStep \/ \E k \in Closers : CloserCanStep(k)
  \/ closeErr = "none" /\ pc # "failed"
  \/ ctxDone /\ \A k \in Closers : cl[k] \in {"idle", "done"}

\* What the run loop promises.  However and how often a connection is closed (CloseWithError, a
\* timeout, a write error, the peer's CONNECTION_CLOSE), it ends once, in the way of the first
\* error, and every call that waits for the end returns.  Until then the loop does not sleep over
\* a packet, an error or data.
LoopSound == CloseOnce /\ NoLostWakeup /\ CloseCompletes

---------------------------------------------------------------------------
(* All three hold for any number of goroutines, any bounds and any queue    *)
(* with room for a packet.  The inductive invariant says, for every point   *)
(* of the loop, which token or which other goroutine stands for an error,   *)
(* for packets received, and for data to send.                              *)

\* The send queue has room for a packet, and packets in flight are counted.
Capacities == sendQueueCapacity \in Nat \ {0} /\ CongestionWindow \in Int

Flags ==
  /\ sqa \in BOOLEAN /\ immediate \in BOOLEAN /\ avail \in BOOLEAN
  /\ notify \in BOOLEAN /\ sched \in BOOLEAN /\ closeTok \in BOOLEAN
  /\ closeCalled \in BOOLEAN /\ shouldClose \in BOOLEAN /\ runStopped \in BOOLEAN
  /\ ctxDone \in BOOLEAN

\* The call of handlePackets that is under way.
Calls == [site : {"top", "wait"}, n : Nat, processed : BOOLEAN]

CTypeOK ==
  /\ pc \in {"start", "failed", "top", "recv", "wait", "after", "send", "check", "clear", "sent",
             "closing", "draining", "closed"}
  /\ call \in Calls
  /\ work \in Nat /\ flight \in Nat /\ rq \in Seq({"data", "close"})
  /\ closeErr \in {"none", "local", "remote", "immediate"}
  /\ sq \in 0 .. sendQueueCapacity
  /\ srun \in {"off", "select", "write", "signal", "error", "token", "done"}
  /\ net \in {"idle", "pushed"}
  /\ wr \in [Writers -> {"idle", "queued", "done"}]
  /\ cl \in [Closers -> {"idle", "token", "wait", "done"}]
  /\ ids \in {"registered", "replaced", "removed"}
  /\ closes \in Nat

Leaving == pc \in {"closing", "draining", "closed"}
Asleep == pc \in {"top", "recv", "wait"}
Queued == \E w \in Writers : wr[w] = "queued"

\* An error has a token, or somebody about to leave one, until the loop has seen it.
ErrorSeen ==
  /\ closeTok \/ Leaving \/ srun = "token" \/ (\E k \in Closers : cl[k] = "token") =>
       closeErr # "none"
  /\ closeErr # "none" =>
       closeTok \/ Leaving \/ srun = "token" \/ \E k \in Closers : cl[k] = "token"

\* A packet has a token, or the transport is about to leave one, or the loop is reading.
PacketSeen ==
  /\ rq # <<>> => net = "pushed" \/ notify \/ pc = "recv" \/ Leaving
  /\ pc = "recv" /\ call.processed => rq # <<>>

\* Data that may be sent has a token, a writer about to leave one, or a loop that will come to it.
DataSeen ==
  /\ Asleep /\ work > 0 /\ flight < CongestionWindow =>
       \/ sched \/ Queued \/ sqa
       \/ immediate /\ pc # "wait"
       \/ pc = "recv" /\ call.processed
  /\ immediate => ~sqa /\ pc \in {"top", "recv", "after", "closing", "draining", "closed"}

\* A loop that waits for the send queue will hear from it.
QueueSeen ==
  /\ Asleep /\ sqa => avail \/ sq > 0 \/ srun \notin {"off", "select"}
  /\ pc = "send" => sq < sendQueueCapacity
  /\ srun = "off" <=> pc \in {"start", "failed"}
  /\ pc = "start" => ~sqa
  /\ srun = "done" => closeTok \/ Leaving
  /\ runStopped <=> srun \in {"error", "token", "done"}

\* How far the connection has ended.
EndSeen ==
  /\ pc \in {"draining", "closed"} => closeCalled
  /\ closeCalled => Leaving
  /\ shouldClose => closeCalled
  /\ pc = "closed" => runStopped
  /\ ids # "registered" <=> pc = "closed"
  /\ pc \in {"closed", "failed"} => ctxDone
  /\ closes = (IF ids = "replaced" /\ closeErr = "local" THEN 1 ELSE 0)
  /\ ~panic

CInv == CTypeOK /\ Flags /\ ErrorSeen /\ PacketSeen /\ DataSeen /\ QueueSeen /\ EndSeen

\* What handlePackets records of a call keeps its type.
LEMMA CallsTyped ==
  /\ \A site \in {"top", "wait"} : [site |-> site, n |-> 0, processed |-> FALSE] \in Calls
  /\ \A c \in Calls : [c EXCEPT !.n = @ + 1, !.processed = TRUE] \in Calls
<1>1. \A site \in {"top", "wait"} : [site |-> site, n |-> 0, processed |-> FALSE] \in Calls
  BY Zenon DEF Calls
<1>2. ASSUME NEW c \in Calls PROVE [c EXCEPT !.n = @ + 1, !.processed = TRUE] \in Calls
  <2>1. c.n + 1 \in Nat
    BY DEF Calls
  <2> QED BY <2>1, Zenon DEF Calls
<1> QED BY <1>1, <1>2, Zenon

\* What the transport adds and handlePackets takes are packets.
LEMMA PacketsTyped ==
  ASSUME NEW q \in Seq({"data", "close"})
  PROVE  /\ q # <<>> => Tail(q) \in Seq({"data", "close"})
         /\ \A kind \in {"data", "close"} : Append(q, kind) \in Seq({"data", "close"})
  OBVIOUS

\* The first state satisfies the invariant.
LEMMA CInitInv == Capacities /\ CInit => CInv
<1> SUFFICES ASSUME Capacities, CInit PROVE CInv
  OBVIOUS
<1>1. CTypeOK
  <2>1. <<>> \in Seq({"data", "close"}) /\ 0 \in 0 .. sendQueueCapacity
    BY DEF Capacities
  <2>2. call \in Calls
    BY Zenon DEF CInit, Calls
  <2> QED BY <2>1, <2>2, Zenon DEF CInit, CTypeOK
<1>2. Flags /\ ErrorSeen /\ PacketSeen
  BY Zenon DEF CInit, Flags, ErrorSeen, PacketSeen, Leaving
<1>3. DataSeen /\ QueueSeen /\ EndSeen
  BY Zenon DEF CInit, DataSeen, QueueSeen, EndSeen, Leaving, Asleep
<1> QED BY <1>1, <1>2, <1>3, Zenon DEF CInv

\* The handshake starts, with the queue's loop, or fails.
LEMMA StartInv ==
  ASSUME Capacities, CInv, Start
  PROVE  CInv'
<1> USE DEF Start, loop, chans, queue, outcome, Capacities
<1>0. Flags'
  BY ZenonT(60) DEF CInv, Flags
<1>1. CTypeOK'
  BY Zenon DEF CInv, CTypeOK
<1>2. ErrorSeen'
  BY Zenon DEF CInv, CTypeOK, ErrorSeen, QueueSeen, Leaving
<1>3. PacketSeen'
  BY Zenon DEF CInv, CTypeOK, PacketSeen, Leaving
<1>4. DataSeen'
  BY Zenon DEF CInv, CTypeOK, PacketSeen, DataSeen, Asleep, Queued
<1>5. QueueSeen'
  BY Zenon DEF CInv, CTypeOK, QueueSeen, Leaving, Asleep
<1>6. EndSeen'
  BY Zenon DEF CInv, CTypeOK, ErrorSeen, QueueSeen, EndSeen, Leaving
<1> QED BY <1>0, <1>1, <1>2, <1>3, <1>4, <1>5, <1>6, Zenon DEF CInv

\* The top of the loop takes the token of closeChan.
LEMMA TopInv ==
  ASSUME Capacities, CInv, Top
  PROVE  CInv'
<1> USE DEF Top, setCloseError, First, loop, chans, queue, outcome, Capacities
<1>0. Flags'
  BY ZenonT(60) DEF CInv, Flags
<1>1. CTypeOK'
  <2>1. call' = call \/ call' = [site |-> "top", n |-> 0, processed |-> FALSE]
    BY Zenon
  <2>2. call' \in Calls
    BY <2>1, CallsTyped, Zenon DEF CInv, CTypeOK
  <2>3. closeErr' \in {"none", "local", "remote", "immediate"}
    BY Zenon DEF CInv, CTypeOK
  <2> QED BY <2>2, <2>3, Zenon DEF CInv, CTypeOK
<1>2. ErrorSeen'
  BY Zenon DEF CInv, CTypeOK, ErrorSeen, Leaving
<1>3. PacketSeen'
  BY DEF CInv, CTypeOK, PacketSeen, Leaving
<1>4. DataSeen'
  BY Zenon DEF CInv, CTypeOK, PacketSeen, DataSeen, Asleep, Queued
<1>5. QueueSeen'
  BY Zenon DEF CInv, CTypeOK, QueueSeen, Leaving, Asleep
<1>6. EndSeen'
  BY Zenon DEF CInv, CTypeOK, ErrorSeen, QueueSeen, EndSeen, Leaving
<1> QED BY <1>0, <1>1, <1>2, <1>3, <1>4, <1>5, <1>6, Zenon DEF CInv

\* handlePackets takes a packet, or has none left.
LEMMA RecvInv ==
  ASSUME Capacities, CInv, Recv
  PROVE  CInv'
<1> USE DEF Recv, setCloseError, First, AfterPackets, Remind, loop, chans, queue, outcome, Capacities
<1>0. Flags'
  BY ZenonT(60) DEF CInv, Flags
<1>1. CTypeOK'
  <2>1. /\ call' = call \/ call' = [call EXCEPT !.n = @ + 1, !.processed = TRUE]
        /\ rq' = rq \/ (rq # <<>> /\ rq' = Tail(rq))
    <3>1. CASE rq = <<>>
      BY <3>1, Zenon
    <3>2. CASE rq # <<>> /\ Head(rq) = "close"
      BY <3>2, Zenon
    <3>3. CASE rq # <<>> /\ Head(rq) # "close"
      BY <3>3, Zenon
    <3> QED BY <3>1, <3>2, <3>3, Zenon
  <2>2. call' \in Calls
    <3>1. call \in Calls
      BY Zenon DEF CInv, CTypeOK
    <3> QED BY <2>1, <3>1, CallsTyped, Zenon
  <2>3. rq' \in Seq({"data", "close"})
    <3>1. rq \in Seq({"data", "close"})
      BY Zenon DEF CInv, CTypeOK
    <3> QED BY <2>1, <3>1, PacketsTyped, Zenon
  <2>4. closeErr' \in {"none", "local", "remote", "immediate"}
    BY Zenon DEF CInv, CTypeOK
  <2>5. work' \in Nat /\ flight' \in Nat
    BY DEF CInv, CTypeOK
  <2>6. pc' \in {"top", "wait", "after", "recv", "closing"}
    BY Zenon DEF CInv, CTypeOK, Calls
  <2> QED BY <2>2, <2>3, <2>4, <2>5, <2>6, Zenon DEF CInv, CTypeOK
<1>2. ErrorSeen'
  BY Zenon DEF CInv, CTypeOK, ErrorSeen, Leaving, Calls
<1>3. PacketSeen'
  BY Zenon DEF CInv, CTypeOK, PacketSeen, Leaving, Calls
<1>4. DataSeen'
  BY Zenon DEF CInv, CTypeOK, PacketSeen, DataSeen, Asleep, Queued, Calls
<1>5. QueueSeen'
  BY Zenon DEF CInv, CTypeOK, QueueSeen, Leaving, Asleep, Calls
<1>6. EndSeen'
  BY Zenon DEF CInv, CTypeOK, ErrorSeen, QueueSeen, EndSeen, Leaving, Calls
<1> QED BY <1>0, <1>1, <1>2, <1>3, <1>4, <1>5, <1>6, Zenon DEF CInv

\* The select takes a token or the timer fires.
LEMMA WaitInv ==
  ASSUME Capacities, CInv, Wait
  PROVE  CInv'
<1> USE DEF Wait, setCloseError, First, loop, chans, queue, outcome, Capacities
<1>0. Flags'
  BY ZenonT(60) DEF CInv, Flags
<1>1. CTypeOK'
  <2>1. call' = call \/ call' = [site |-> "wait", n |-> 0, processed |-> FALSE]
    BY Zenon
  <2>2. call' \in Calls
    BY <2>1, CallsTyped, Zenon DEF CInv, CTypeOK
  <2>3. closeErr' \in {"none", "local", "remote", "immediate"} /\ work' \in Nat
    BY DEF CInv, CTypeOK
  <2> QED BY <2>2, <2>3, Zenon DEF CInv, CTypeOK
<1>2. ErrorSeen'
  BY DEF CInv, CTypeOK, ErrorSeen, Leaving
<1>3. PacketSeen'
  BY DEF CInv, CTypeOK, PacketSeen, Leaving
<1>4. DataSeen'
  BY Zenon DEF CInv, CTypeOK, PacketSeen, DataSeen, Asleep, Queued
<1>5. QueueSeen'
  BY Zenon DEF CInv, CTypeOK, QueueSeen, Leaving, Asleep
<1>6. EndSeen'
  BY Zenon DEF CInv, CTypeOK, ErrorSeen, QueueSeen, EndSeen, Leaving
<1> QED BY <1>0, <1>1, <1>2, <1>3, <1>4, <1>5, <1>6, Zenon DEF CInv

\* The loop looks whether the send queue has room.
LEMMA AfterInv ==
  ASSUME Capacities, CInv, After
  PROVE  CInv'
<1> USE DEF After, WouldBlock, loop, chans, queue, outcome, Capacities
<1>0. Flags'
  BY ZenonT(60) DEF CInv, Flags
<1>1. CTypeOK'
  BY Zenon DEF CInv, CTypeOK
<1>2. ErrorSeen'
  BY Zenon DEF CInv, CTypeOK, ErrorSeen, Leaving
<1>3. PacketSeen'
  BY Zenon DEF CInv, CTypeOK, PacketSeen, Leaving
<1>4. DataSeen'
  BY Zenon DEF CInv, CTypeOK, PacketSeen, DataSeen, Asleep, Queued
<1>5. QueueSeen'
  BY DEF CInv, CTypeOK, QueueSeen, Leaving, Asleep
<1>6. EndSeen'
  BY Zenon DEF CInv, CTypeOK, ErrorSeen, QueueSeen, EndSeen, Leaving
<1> QED BY <1>0, <1>1, <1>2, <1>3, <1>4, <1>5, <1>6, Zenon DEF CInv

\* triggerSending puts a packet into the queue, or stops.
LEMMA SendInv ==
  ASSUME Capacities, CInv, triggerSending
  PROVE  CInv'
<1> USE DEF triggerSending, WouldBlock, loop, chans, queue, outcome, Capacities
<1>0. Flags'
  BY ZenonT(60) DEF CInv, Flags
<1>1. CTypeOK'
  BY DEF CInv, CTypeOK
<1>2. ErrorSeen'
  BY Zenon DEF CInv, CTypeOK, ErrorSeen, Leaving
<1>3. PacketSeen'
  BY Zenon DEF CInv, CTypeOK, PacketSeen, Leaving
<1>4. DataSeen'
  BY Zenon DEF CInv, CTypeOK, PacketSeen, DataSeen, Asleep, Queued
<1>5. QueueSeen'
  <2>1. CASE work > 0 /\ flight < CongestionWindow
    BY <2>1, Zenon DEF CInv, CTypeOK, QueueSeen, Leaving, Asleep
  <2>2. CASE ~(work > 0 /\ flight < CongestionWindow)
    <3>a. sqa' = (sq = sendQueueCapacity) /\ sq' = sq
      BY <2>2, Zenon
    <3>b. sq = sendQueueCapacity => sq > 0
      BY DEF CInv, CTypeOK
    <3>1. sqa' => sq' > 0
      BY <3>a, <3>b, Zenon
    <3>2. pc' = "top" /\ pc = "send" /\ UNCHANGED <<srun, closeTok, runStopped>>
      BY <2>2, Zenon
    <3> HIDE DEF triggerSending
    <3> QED BY <3>1, <3>2, Zenon DEF CInv, QueueSeen, Leaving, Asleep
  <2> QED BY <2>1, <2>2, Zenon
<1>6. EndSeen'
  <2>1. sq < sendQueueCapacity /\ sq \in Int /\ sendQueueCapacity \in Int
    BY DEF CInv, CTypeOK, QueueSeen
  <2>2. sq # sendQueueCapacity /\ ~panic
    BY <2>1 DEF CInv, EndSeen
  <2>3. ~panic'
    BY <2>2, Zenon
  <2> QED BY <2>3, Zenon DEF CInv, EndSeen, Leaving
<1> QED BY <1>0, <1>1, <1>2, <1>3, <1>4, <1>5, <1>6, Zenon DEF CInv

\* sendQueue.Send looks at the queue again.
LEMMA CheckInv ==
  ASSUME Capacities, CInv, Check
  PROVE  CInv'
<1> USE DEF Check, WouldBlock, loop, chans, queue, outcome, Capacities
<1>0. Flags'
  BY ZenonT(60) DEF CInv, Flags
<1>1. CTypeOK'
  BY Zenon DEF CInv, CTypeOK
<1>2. ErrorSeen'
  BY Zenon DEF CInv, CTypeOK, ErrorSeen, Leaving
<1>3. PacketSeen'
  BY Zenon DEF CInv, CTypeOK, PacketSeen, Leaving
<1>4. DataSeen'
  BY Zenon DEF CInv, CTypeOK, PacketSeen, DataSeen, Asleep, Queued
<1>5. QueueSeen'
  BY Zenon DEF CInv, CTypeOK, QueueSeen, Leaving, Asleep
<1>6. EndSeen'
  BY Zenon DEF CInv, CTypeOK, ErrorSeen, QueueSeen, EndSeen, Leaving
<1> QED BY <1>0, <1>1, <1>2, <1>3, <1>4, <1>5, <1>6, Zenon DEF CInv

\* sendQueue.Send drains its channel.
LEMMA ClearInv ==
  ASSUME Capacities, CInv, Clear
  PROVE  CInv'
<1> USE DEF Clear, loop, chans, queue, outcome, Capacities
<1>0. Flags'
  BY ZenonT(60) DEF CInv, Flags
<1>1. CTypeOK'
  BY Zenon DEF CInv, CTypeOK
<1>2. ErrorSeen'
  BY Zenon DEF CInv, CTypeOK, ErrorSeen, Leaving
<1>3. PacketSeen'
  BY Zenon DEF CInv, CTypeOK, PacketSeen, Leaving
<1>4. DataSeen'
  BY Zenon DEF CInv, CTypeOK, PacketSeen, DataSeen, Asleep, Queued
<1>5. QueueSeen'
  BY Zenon DEF CInv, CTypeOK, QueueSeen, Leaving, Asleep
<1>6. EndSeen'
  BY Zenon DEF CInv, CTypeOK, ErrorSeen, QueueSeen, EndSeen, Leaving
<1> QED BY <1>0, <1>1, <1>2, <1>3, <1>4, <1>5, <1>6, Zenon DEF CInv

\* The loop asks whether it may send another packet.
LEMMA SentInv ==
  ASSUME Capacities, CInv, Sent
  PROVE  CInv'
<1> USE DEF Sent, WouldBlock, loop, chans, queue, outcome, Capacities
<1>0. Flags'
  BY ZenonT(60) DEF CInv, Flags
<1>1. CTypeOK'
  BY Zenon DEF CInv, CTypeOK
<1>2. ErrorSeen'
  BY Zenon DEF CInv, CTypeOK, ErrorSeen, Leaving
<1>3. PacketSeen'
  BY Zenon DEF CInv, CTypeOK, PacketSeen, Leaving
<1>4. DataSeen'
  BY Zenon DEF CInv, CTypeOK, PacketSeen, DataSeen, Asleep, Queued
<1>5. QueueSeen'
  BY DEF CInv, CTypeOK, QueueSeen, Leaving, Asleep
<1>6. EndSeen'
  BY Zenon DEF CInv, CTypeOK, ErrorSeen, QueueSeen, EndSeen, Leaving
<1> QED BY <1>0, <1>1, <1>2, <1>3, <1>4, <1>5, <1>6, Zenon DEF CInv

\* sendQueue.Close.
LEMMA ClosingInv ==
  ASSUME Capacities, CInv, Closing
  PROVE  CInv'
<1> USE DEF Closing, loop, chans, queue, outcome, Capacities
<1>0. Flags'
  BY ZenonT(60) DEF CInv, Flags
<1>1. CTypeOK'
  BY Zenon DEF CInv, CTypeOK
<1>2. ErrorSeen'
  BY Zenon DEF CInv, CTypeOK, ErrorSeen, Leaving
<1>3. PacketSeen'
  BY Zenon DEF CInv, CTypeOK, PacketSeen, Leaving
<1>4. DataSeen'
  BY Zenon DEF CInv, CTypeOK, PacketSeen, DataSeen, Asleep, Queued
<1>5. QueueSeen'
  BY Zenon DEF CInv, CTypeOK, QueueSeen, Leaving, Asleep
<1>6. EndSeen'
  BY Zenon DEF CInv, CTypeOK, ErrorSeen, QueueSeen, EndSeen, Leaving
<1> QED BY <1>0, <1>1, <1>2, <1>3, <1>4, <1>5, <1>6, Zenon DEF CInv

\* handleCloseError and the deferred functions.
LEMMA ClosedInv ==
  ASSUME Capacities, CInv, Closed
  PROVE  CInv'
<1> USE DEF Closed, loop, chans, queue, outcome, Capacities
<1>0. Flags'
  BY ZenonT(60) DEF CInv, Flags
<1>1. CTypeOK'
  BY DEF CInv, CTypeOK
<1>2. ErrorSeen'
  BY Zenon DEF CInv, CTypeOK, ErrorSeen, Leaving
<1>3. PacketSeen'
  BY Zenon DEF CInv, CTypeOK, PacketSeen, Leaving
<1>4. DataSeen'
  BY Zenon DEF CInv, CTypeOK, PacketSeen, DataSeen, Asleep, Queued
<1>5. QueueSeen'
  BY Zenon DEF CInv, CTypeOK, QueueSeen, Leaving, Asleep
<1>6. EndSeen'
  BY DEF CInv, CTypeOK, ErrorSeen, QueueSeen, EndSeen, Leaving
<1> QED BY <1>0, <1>1, <1>2, <1>3, <1>4, <1>5, <1>6, Zenon DEF CInv

\* A step of the send queue's loop.
LEMMA RunInv ==
  ASSUME Capacities, CInv, Run
  PROVE  CInv'
<1> USE DEF Run, First, loop, chans, queue, outcome, Capacities
<1>0. Flags'
  BY ZenonT(60) DEF CInv, Flags
<1>1. CTypeOK'
  BY DEF CInv, CTypeOK
<1>2. ErrorSeen'
  BY DEF CInv, ErrorSeen, Leaving
<1>3. PacketSeen'
  BY Zenon DEF CInv, CTypeOK, PacketSeen, Leaving
<1>4. DataSeen'
  BY Zenon DEF CInv, CTypeOK, PacketSeen, DataSeen, Asleep, Queued
<1>5. QueueSeen'
  BY DEF CInv, CTypeOK, QueueSeen, EndSeen, Leaving, Asleep
<1>6. EndSeen'
  BY DEF CInv, CTypeOK, ErrorSeen, QueueSeen, EndSeen, Leaving
<1> QED BY <1>0, <1>1, <1>2, <1>3, <1>4, <1>5, <1>6, Zenon DEF CInv

\* A step of handlePacket.
LEMMA handlePacketInv ==
  ASSUME Capacities, CInv, handlePacket
  PROVE  CInv'
<1> USE DEF handlePacket, loop, chans, queue, outcome, Capacities
<1>0. Flags'
  BY ZenonT(60) DEF CInv, Flags
<1>1. CTypeOK'
  <2>1. rq' = rq \/ \E kind \in {"data", "close"} : rq' = Append(rq, kind)
    BY Zenon
  <2>2. rq' \in Seq({"data", "close"})
    <3>1. rq \in Seq({"data", "close"})
      BY Zenon DEF CInv, CTypeOK
    <3> QED BY <2>1, <3>1, PacketsTyped, Zenon
  <2> QED BY <2>2 DEF CInv, CTypeOK
<1>2. ErrorSeen'
  BY Zenon DEF CInv, CTypeOK, ErrorSeen, Leaving
<1>3. PacketSeen'
  BY DEF CInv, CTypeOK, PacketSeen, Leaving
<1>4. DataSeen'
  BY Zenon DEF CInv, CTypeOK, PacketSeen, DataSeen, Asleep, Queued
<1>5. QueueSeen'
  BY Zenon DEF CInv, CTypeOK, QueueSeen, Leaving, Asleep
<1>6. EndSeen'
  BY Zenon DEF CInv, CTypeOK, ErrorSeen, QueueSeen, EndSeen, Leaving
<1> QED BY <1>0, <1>1, <1>2, <1>3, <1>4, <1>5, <1>6, Zenon DEF CInv

\* A writer queues data, then leaves its token.
LEMMA WriteInv ==
  ASSUME Capacities, CInv, NEW w \in Writers, Write(w)
  PROVE  CInv'
<1> USE DEF Write, loop, chans, queue, outcome, Capacities
<1>0. Flags'
  BY ZenonT(60) DEF CInv, Flags
<1>1. CTypeOK'
  <2>1. work \in Nat => work + 1 \in Nat
    OBVIOUS
  <2>2. work' \in Nat /\ wr' \in [Writers -> {"idle", "queued", "done"}]
    BY <2>1, Zenon DEF CInv, CTypeOK
  <2>3. UNCHANGED <<pc, call, flight, rq, closeErr, sq, srun, net, cl, ids, closes>>
    BY Zenon
  <2> HIDE DEF Write, Capacities
  <2>4. CTypeOK
    BY Zenon DEF CInv
  <2> QED BY <2>2, <2>3, <2>4 DEF CTypeOK
<1>2. ErrorSeen'
  BY Zenon DEF CInv, CTypeOK, ErrorSeen, Leaving
<1>3. PacketSeen'
  BY Zenon DEF CInv, CTypeOK, PacketSeen, Leaving
<1>4. DataSeen'
  BY Zenon DEF CInv, CTypeOK, PacketSeen, DataSeen, Asleep, Queued
<1>5. QueueSeen'
  BY Zenon DEF CInv, CTypeOK, QueueSeen, Leaving, Asleep
<1>6. EndSeen'
  BY Zenon DEF CInv, CTypeOK, ErrorSeen, QueueSeen, EndSeen, Leaving
<1> QED BY <1>0, <1>1, <1>2, <1>3, <1>4, <1>5, <1>6, Zenon DEF CInv

\* A step of CloseWithError.
LEMMA CloseInv ==
  ASSUME Capacities, CInv, NEW k \in Closers, Close(k)
  PROVE  CInv'
<1> USE DEF Close, First, loop, chans, queue, outcome, Capacities
<1>0. Flags'
  BY ZenonT(60) DEF CInv, Flags
<1>1. CTypeOK'
  BY DEF CInv, CTypeOK
<1>2. ErrorSeen'
  BY DEF CInv, CTypeOK, ErrorSeen, Leaving
<1>3. PacketSeen'
  BY Zenon DEF CInv, CTypeOK, PacketSeen, Leaving
<1>4. DataSeen'
  BY Zenon DEF CInv, CTypeOK, PacketSeen, DataSeen, Asleep, Queued
<1>5. QueueSeen'
  BY Zenon DEF CInv, CTypeOK, QueueSeen, Leaving, Asleep
<1>6. EndSeen'
  BY Zenon DEF CInv, CTypeOK, ErrorSeen, QueueSeen, EndSeen, Leaving
<1> QED BY <1>0, <1>1, <1>2, <1>3, <1>4, <1>5, <1>6, Zenon DEF CInv

\* Every step of the model keeps the invariant, a stutter included.
LEMMA CNextInv ==
  ASSUME Capacities, CInv, [CNext]_cvars
  PROVE  CInv'
<1>1. CASE LoopStep
  BY <1>1, StartInv, TopInv, RecvInv, WaitInv, AfterInv, SendInv, CheckInv, ClearInv, SentInv,
     ClosingInv, ClosedInv, Zenon DEF LoopStep
<1>2. CASE Run
  BY <1>2, RunInv, Zenon
<1>3. CASE handlePacket
  BY <1>3, handlePacketInv, Zenon
<1>4. ASSUME NEW w \in Writers, Write(w) PROVE CInv'
  BY <1>4, WriteInv, Zenon
<1>5. ASSUME NEW k \in Closers, Close(k) PROVE CInv'
  BY <1>5, CloseInv, Zenon
<1>6. CASE UNCHANGED cvars
  <2> USE <1>6 DEF cvars, loop, chans, queue, outcome, CInv
  <2>1. CTypeOK'
    BY DEF CTypeOK
  <2>2. Flags'
    BY ZenonT(60) DEF Flags
  <2>3. ErrorSeen' /\ PacketSeen'
    BY Zenon DEF ErrorSeen, PacketSeen, Leaving
  <2>4. DataSeen'
    BY Zenon DEF DataSeen, Asleep, Queued
  <2>5. QueueSeen'
    BY Zenon DEF QueueSeen, Leaving, Asleep
  <2>6. EndSeen'
    BY Zenon DEF EndSeen, Leaving
  <2> QED BY <2>1, <2>2, <2>3, <2>4, <2>5, <2>6, Zenon
<1> QED BY <1>1, <1>2, <1>3, <1>4, <1>5, <1>6, Zenon DEF CNext

\* What stands for an error, a packet and data to send does so in every state.
LEMMA CInvTheorem ==
  ASSUME Capacities
  PROVE  CSpec => []CInv
<1>1. CInit => CInv
  BY CInitInv, Zenon
<1>2. CInv /\ [CNext]_cvars => CInv'
  BY CNextInv, Zenon
<1> QED BY <1>1, <1>2, PTL DEF CSpec

\* Whoever closes the connection, and however often, its first error decides
\* how it ends, and the loop never sends into a full queue.
LEMMA ClosesOnce == CInv => CloseOnce
BY Zenon DEF CInv, QueueSeen, EndSeen, CloseOnce

\* The loop never sleeps on an error, a packet or data it could send, unless
\* the goroutine that brought it has still to leave its token.
LEMMA NeverSleepsOver ==
  ASSUME Capacities, CInv
  PROVE  NoLostWakeup
<1> SUFFICES ASSUME pc = "wait", ~closeTok, ~sched, ~notify, ~(sqa /\ avail)
    PROVE  /\ closeErr = "none" \/ srun = "token" \/ \E k \in Closers : cl[k] = "token"
           /\ rq = <<>> \/ net = "pushed"
           /\ \/ work = 0
              \/ flight >= CongestionWindow
              \/ sqa /\ (sq > 0 \/ srun \in {"write", "signal", "error", "token"})
              \/ \E w \in Writers : wr[w] = "queued"
  BY Zenon DEF NoLostWakeup
<1>1. closeErr = "none" \/ srun = "token" \/ \E k \in Closers : cl[k] = "token"
  BY Zenon DEF CInv, ErrorSeen, Leaving
<1>2. rq = <<>> \/ net = "pushed"
  BY Zenon DEF CInv, PacketSeen, Leaving
<1>3. sqa => sq > 0 \/ srun \in {"write", "signal", "error", "token"}
  BY Zenon DEF CInv, CTypeOK, QueueSeen, Asleep, Leaving
<1>4. \/ work = 0 \/ flight >= CongestionWindow
      \/ sqa \/ Queued
  BY DEF CInv, CTypeOK, DataSeen, Asleep, Capacities
<1> QED BY <1>1, <1>2, <1>3, <1>4, Zenon DEF Queued

\* A closed connection ends: if no goroutine can go on, every CloseWithError has returned.
LEMMA EndsComplete ==
  ASSUME Capacities, CInv
  PROVE  CloseCompletes
<1> SUFFICES ASSUME ~LoopCanStep, ~RunCanStep, \A k \in Closers : ~CloserCanStep(k),
                    closeErr # "none" \/ pc = "failed"
    PROVE  ctxDone /\ \A k \in Closers : cl[k] \in {"idle", "done"}
  BY Zenon DEF CloseCompletes
<1>1. pc \in {"wait", "draining", "closed", "failed"}
  BY Zenon DEF CInv, CTypeOK, LoopCanStep
<1>2. pc # "draining"
  BY Zenon DEF CInv, CTypeOK, QueueSeen, EndSeen, LoopCanStep, RunCanStep
<1>3. pc # "wait"
  BY Zenon DEF CInv, ErrorSeen, Leaving, LoopCanStep, RunCanStep, CloserCanStep
<1>4. ctxDone
  BY <1>1, <1>2, <1>3, Zenon DEF CInv, EndSeen
<1> QED BY <1>4, Zenon DEF CInv, CTypeOK, CloserCanStep

\* The run loop ends once and completely, and no wake-up is lost, for any number of goroutines that
\* write and close.
THEOREM LoopTheorem ==
  ASSUME Capacities
  PROVE  CSpec => []LoopSound
<1>1. CInv => LoopSound
  BY ClosesOnce, NeverSleepsOver, EndsComplete, Zenon DEF LoopSound
<1> QED BY <1>1, CInvTheorem, PTL
=============================================================================
