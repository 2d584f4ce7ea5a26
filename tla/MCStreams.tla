----------------------------- MODULE MCStreams -----------------------------
(* The streams of one peer on small instances: the ones it opens to us     *)
(* (InboundStreams) and the ones we open to it (PeerLifecycle).  They have *)
(* no state in common and are checked side by side: in a behaviour only    *)
(* one of them moves, and the other stays in its initial state, where      *)
(* nothing that is fair is enabled.                                        *)
EXTENDS InboundStreams, PeerLifecycle

VARIABLE part

StreamsInit == InboundInit /\ Init /\ part \in {"inbound", "outbound"}

StreamsNext ==
    \/ part = "inbound" /\ InboundNext /\ UNCHANGED <<part, vars>>
    \/ part = "outbound" /\ Next /\ UNCHANGED <<part, inboundVars>>

StreamsSpec ==
    /\ StreamsInit
    /\ [][StreamsNext]_<<part, inboundVars, vars>>
    /\ InboundFairness /\ Fairness
=============================================================================
