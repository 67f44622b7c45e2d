---------------------------- MODULE SortedBytes ----------------------------
(***************************************************************************)
(* What a frame sorter promises: bytes arrive in any order and any number    *)
(* of times, and leave once each, in order.                                  *)
(***************************************************************************)
EXTENDS Integers

CONSTANT Bytes   \* the offsets of a stream, 0 .. n

VARIABLES
    received,    \* the bytes that have arrived
    position     \* the bytes below have left

Init == received = {} /\ position = 0

Push == \E lo, hi \in Bytes : received' = received \cup lo .. hi /\ UNCHANGED position

Pop ==
    /\ \E n \in Bytes : position' = n + 1 /\ n >= position /\ position .. n \subseteq received
    /\ UNCHANGED received

Spec == Init /\ [][Push \/ Pop]_<<received, position>>
=============================================================================
