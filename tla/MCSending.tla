----------------------------- MODULE MCSending -----------------------------
(* The way of an RPC out: partial messages and batches, the splitting of   *)
(* RPCs and the send queue of a peer, on small instances.                  *)
(* They share no state and are checked side by side: in a behaviour only   *)
(* one of them moves, and the others stay in their initial states, where   *)
(* nothing that is fair is enabled.                                        *)
EXTENDS PartialMessages, MessageBatch, RpcSplit, RpcQueue

CONSTANTS p1, p2, g1, g2, m1, m2, c1, c2

VARIABLE part

RpcsOfEach == [m \in {m1, m2} |-> IF m = m1 THEN 3 ELSE 2]

SendingInit ==
    /\ PartialInit /\ BatchInit /\ Init
    /\ \/ /\ part \in {"partial", "batch", "queue"}
          /\ rpc = [publish |-> <<>>, rest |-> <<>>, partial |-> 0] /\ called = FALSE /\ parts = <<>>
       \/ part = "split" /\ SplitInit

SendingNext ==
    \/ part = "partial" /\ PartialNext /\ UNCHANGED <<part, splitVars, batchVars, vars>>
    \/ part = "split" /\ SplitNext /\ UNCHANGED <<part, partVars, batchVars, vars>>
    \/ part = "batch" /\ BatchNext /\ UNCHANGED <<part, partVars, splitVars, vars>>
    \/ part = "queue" /\ Next /\ UNCHANGED <<part, partVars, splitVars, batchVars>>

SendingSpec ==
    /\ SendingInit
    /\ [][SendingNext]_<<part, partVars, splitVars, batchVars, vars>>
    /\ Fairness
=============================================================================
