---------------------------- MODULE BoundedQueue ----------------------------
(***************************************************************************)
(* What a peer's outbound queue promises: a bounded queue with two classes *)
(* of RPCs, each first in first out, that can be closed once.              *)
(***************************************************************************)
EXTENDS Naturals, Sequences

CONSTANTS Items, MaxSize

VARIABLES normal, priority, closed

Init == normal = <<>> /\ priority = <<>> /\ closed = FALSE

Full == Len(normal) + Len(priority) = MaxSize

Enqueue(x, urgent) ==
    /\ ~ closed
    /\ ~ Full
    /\ IF urgent THEN priority' = Append(priority, x) /\ UNCHANGED normal
                 ELSE normal' = Append(normal, x) /\ UNCHANGED priority
    /\ UNCHANGED closed

\* Urgent RPCs overtake the others.
Dequeue ==
    /\ ~ closed
    /\ \/ priority # <<>> /\ priority' = Tail(priority) /\ UNCHANGED normal
       \/ priority = <<>> /\ normal # <<>> /\ normal' = Tail(normal) /\ UNCHANGED priority
    /\ UNCHANGED closed

Close == closed' = TRUE /\ UNCHANGED <<normal, priority>>

Next == (\E x \in Items, urgent \in BOOLEAN : Enqueue(x, urgent)) \/ Dequeue \/ Close

Spec == Init /\ [][Next]_<<normal, priority, closed>>
=============================================================================
