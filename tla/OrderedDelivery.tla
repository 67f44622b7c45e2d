-------------------------- MODULE OrderedDelivery --------------------------
(***************************************************************************)
(* What a MOQT object stream promises, without locks or goroutines: one    *)
(* source sends objects and ends; every receiver is handed, in order and   *)
(* without gaps or repetitions, some prefix of what was sent so far.  A     *)
(* receiver's stream may break at any time, and is finished only after the  *)
(* source has ended.                                                       *)
(*                                                                         *)
(* It deliberately does not promise that a finished receiver has all the   *)
(* objects: RelayForward and PubStream do not deliver that.                *)
(***************************************************************************)
EXTENDS Integers, Sequences

CONSTANTS Items, Receivers

VARIABLES
    sent,       \* the objects the source has produced, in order
    ended,      \* the source has ended
    got,        \* got[r]: what receiver r's stream has accepted
    broken,     \* broken[r]: r's stream was reset
    finished    \* finished[r]: r's stream was closed with a FIN

vars == <<sent, ended, got, broken, finished>>

Init ==
    /\ sent = << >>
    /\ ended = FALSE
    /\ got = [r \in Receivers |-> << >>]
    /\ broken = [r \in Receivers |-> FALSE]
    /\ finished = [r \in Receivers |-> FALSE]

Send(o) ==
    /\ ~ended
    /\ sent' = Append(sent, o)
    /\ UNCHANGED <<ended, got, broken, finished>>

End ==
    /\ ~ended
    /\ ended' = TRUE
    /\ UNCHANGED <<sent, got, broken, finished>>

\* r's stream accepts the next k objects; it may break while doing so.
Deliver(r) ==
    /\ ~broken[r] /\ ~finished[r]
    /\ \E k \in Len(got[r]) .. Len(sent) : got' = [got EXCEPT ![r] = SubSeq(sent, 1, k)]
    /\ \E b \in BOOLEAN : broken' = [broken EXCEPT ![r] = b]
    /\ UNCHANGED <<sent, ended, finished>>

Finish(r) ==
    /\ ended /\ ~broken[r] /\ ~finished[r]
    /\ finished' = [finished EXCEPT ![r] = TRUE]
    /\ UNCHANGED <<sent, ended, got, broken>>

Next ==
    \/ \E o \in Items : Send(o)
    \/ End
    \/ \E r \in Receivers : Deliver(r) \/ Finish(r)

Spec == Init /\ [][Next]_vars
============================================================================
