---------------------------- MODULE GatedStreams ----------------------------
(***************************************************************************)
(* The outbound side of one peer (PeerLifecycle) together with the peer    *)
(* gater that is told of its streams: processLoop calls the router's       *)
(* OnNewOutboundStream and OnClosedOutboundStream, which call the gater    *)
(* before they return (pubsub.go, gossipsub.go, peer_gater.go).            *)
(***************************************************************************)
EXTENDS PeerLifecycle, PeerGater

\* processLoop accepts a stream
StreamAnnounced(p) ==
    /\ queue # 0 /\ ~ blacklisted
    /\ \E i \in Queues : NewPeerStream(i)
    /\ GaterNewOutboundStream(p)

\* processLoop closes the queue of the peer, which is dead or blacklisted
QueueDropped(p) ==
    /\ queue # 0
    /\ (deadPend /\ HandleDeadPeers) \/ BlacklistPeer
    /\ GaterClosedOutboundStream(p)

\* What happens to the streams without the gater
Untold ==
    \/ Connect \/ NotifyNewPeer \/ Disconnect \/ SignalNew \/ SignalDead
    \/ HandlePendingPeers \/ BlacklistExpires \/ AttemptsForgotten
    \/ \E i \in Queues : StreamDies(i) \/ Goroutines(i) \/ NewPeerError(i)
    \/ queue = 0 /\ (BlacklistPeer \/ HandleDeadPeers)
    \/ ~ deadPend /\ HandleDeadPeers
    \/ (queue = 0 \/ blacklisted) /\ \E i \in Queues : NewPeerStream(i)

\* What happens to the gater without a change of our streams
Gated(p) ==
    \/ GaterClosedIncomingStream(p) \/ GaterCount(p)
    \/ \E low \in BOOLEAN : AcceptFrom(p, low)
    \/ GaterValidate \/ GaterThrottle \/ DecayStats \/ GaterTick

GatedInit == Init /\ GaterInit

GatedNext ==
    \E p \in GatedPeers :
       \/ StreamAnnounced(p) \/ QueueDropped(p)
       \/ Untold /\ UNCHANGED gaterVars
       \/ Gated(p) /\ UNCHANGED vars

GatedSpec == GatedInit /\ [][GatedNext]_<<vars, gaterVars>>
=============================================================================
