---------------------------- MODULE Announcements ----------------------------
(***************************************************************************)
(* Our interest in one topic and what one remote peer believes of it: the  *)
(* topic handle, its subscriptions and relays (pubsub.go, topic.go), the   *)
(* announcements that travel through the peer's bounded send queue, the    *)
(* retries of the ones that did not fit, and the hello packet a new stream *)
(* starts with (comm.go).  The peer runs the same code: an announcement    *)
(* sets or clears our entry in its topics map, and so do, later, the ends  *)
(* of our streams.                                                         *)
(***************************************************************************)
EXTENDS Naturals, Sequences

CONSTANTS
    MaxSubs, MaxRelays, \* bounds: subscriptions and relays at one time
    OutboundQueue,      \* the size of the peer's send queue
    MaxMoves            \* bound: steps of the application and the network

ASSUME AnnouncementsAssumption ==
    /\ MaxSubs \in Nat \ {0} /\ MaxRelays \in Nat \ {0} /\ OutboundQueue \in Nat \ {0}
    /\ MaxMoves \in Nat

VARIABLES
    handle,      \* the topic's entry in myTopics: "none", "normal" or "fanoutOnly"
    subs,        \* Len(mySubs[topic])
    relays,      \* myRelays[topic]
    advertised,  \* discovery advertises the topic
    joined,      \* the router has joined it
    stream,      \* the outbound side: "none", "opening" (there is a queue) or "open"
    hello,       \* FirstMessage of the stream, not yet written: <<>> or one packet
    outbox,      \* the send queue: "sub", "unsub" and "other" RPCs
    retries,     \* goroutines in announceRetry, for "sub" and for "unsub"
    view,        \* the peer has us in its topics map
    closing,     \* ends of our streams that the peer has yet to handle (closedStream)
    wiped,       \* history: it removed us after it heard from our stream last
    misjudged,   \* history: a retry took the subscriptions of a fanout-only topic for interest
    moves

annVars == <<handle, subs, relays, advertised, joined, stream, hello, outbox, retries, view,
             closing, wiped, misjudged, moves>>
topicVars == <<handle, subs, relays, advertised, joined>>
peerVars  == <<stream, hello, outbox, retries, view, closing, wiped, misjudged>>
remote    == <<view, closing, wiped>>

AnnInit ==
    /\ handle = "none" /\ subs = 0 /\ relays = 0 /\ advertised = FALSE /\ joined = FALSE
    /\ stream = "none" /\ hello = <<>> /\ outbox = <<>>
    /\ retries = [a \in {"sub", "unsub"} |-> 0]
    /\ view = FALSE /\ closing = 0 /\ wiped = FALSE /\ misjudged = FALSE
    /\ moves = 0

Interested == subs + relays > 0
Move == moves < MaxMoves /\ moves' = moves + 1

-----------------------------------------------------------------------------
(* Announcements.                                                          *)

\* announce: Push for every peer that has a queue, announceRetry if it is full
Announce(a) ==
    IF stream = "none" THEN UNCHANGED <<outbox, retries>>
    ELSE IF Len(outbox) < OutboundQueue
         THEN outbox' = Append(outbox, a) /\ UNCHANGED retries
         ELSE retries' = [retries EXCEPT ![a] = @ + 1] /\ UNCHANGED outbox

\* The retry's condition, when it gets to run in processLoop
StillTrue(a) == Interested <=> a = "sub"

\* announceRetry after its delay, and doAnnounceRetry
AnnounceRetry(a) ==
    /\ retries[a] > 0
    /\ IF ~ StillTrue(a) \/ stream = "none"
       THEN retries' = [retries EXCEPT ![a] = @ - 1] /\ UNCHANGED outbox
       ELSE /\ Len(outbox) < OutboundQueue \* else it is scheduled again
            /\ outbox' = Append(outbox, a)
            /\ retries' = [retries EXCEPT ![a] = @ - 1]
    /\ misjudged' = (misjudged \/ (handle = "fanoutOnly" /\ Interested))
    /\ UNCHANGED <<topicVars, stream, hello, remote, moves>>

-----------------------------------------------------------------------------
(* Topics, subscriptions, relays: the requests processLoop serves.         *)

\* Join, tryJoin, handleAddTopic
AddTopic(h) ==
    /\ Move
    /\ handle = "none"
    /\ handle' = h
    /\ UNCHANGED <<subs, relays, advertised, joined, peerVars>>

\* Close, handleRemoveTopic: refused while something is outstanding
RemoveTopic ==
    /\ Move
    /\ handle # "none" /\ ~ Interested
    /\ handle' = "none"
    /\ UNCHANGED <<subs, relays, advertised, joined, peerVars>>

\* disc.Advertise, announce and rt.Join, and their opposites
Begin == IF handle = "fanoutOnly" THEN UNCHANGED <<joined, outbox, retries>>
         ELSE joined' = TRUE /\ Announce("sub")
End   == IF handle = "fanoutOnly" THEN UNCHANGED <<joined, outbox, retries>>
         ELSE joined' = FALSE /\ Announce("unsub")

\* Subscribe, handleAddSubscription
AddSubscription ==
    /\ Move
    /\ handle # "none" /\ subs < MaxSubs
    /\ subs' = subs + 1
    /\ IF ~ Interested THEN advertised' = TRUE /\ Begin
       ELSE UNCHANGED <<advertised, joined, outbox, retries>>
    /\ UNCHANGED <<handle, relays, stream, hello, remote, misjudged>>

\* Faulty variant: the relays are not looked at
RemoveSubscriptionAlone ==
    /\ Move
    /\ subs > 0
    /\ subs' = subs - 1
    /\ IF subs = 1 THEN advertised' = FALSE /\ End
       ELSE UNCHANGED <<advertised, joined, outbox, retries>>
    /\ UNCHANGED <<handle, relays, stream, hello, remote, misjudged>>

\* Subscription.Cancel, handleRemoveSubscription
RemoveSubscription ==
    /\ Move
    /\ subs > 0
    /\ subs' = subs - 1
    /\ IF subs = 1 /\ relays = 0 THEN advertised' = FALSE /\ End
       ELSE UNCHANGED <<advertised, joined, outbox, retries>>
    /\ UNCHANGED <<handle, relays, stream, hello, remote, misjudged>>

\* Relay, handleAddRelay: not for a fanout-only topic
AddRelay ==
    /\ Move
    /\ handle = "normal" /\ relays < MaxRelays
    /\ relays' = relays + 1
    /\ IF ~ Interested THEN advertised' = TRUE /\ joined' = TRUE /\ Announce("sub")
       ELSE UNCHANGED <<advertised, joined, outbox, retries>>
    /\ UNCHANGED <<handle, subs, stream, hello, remote, misjudged>>

\* The function Relay returned, handleRemoveRelay
RemoveRelay ==
    /\ Move
    /\ relays > 0
    /\ relays' = relays - 1
    /\ IF relays = 1 /\ subs = 0 THEN advertised' = FALSE /\ joined' = FALSE /\ Announce("unsub")
       ELSE UNCHANGED <<advertised, joined, outbox, retries>>
    /\ UNCHANGED <<handle, subs, stream, hello, remote, misjudged>>

-----------------------------------------------------------------------------
(* The peer.                                                               *)

\* handlePendingPeers: a queue, and a goroutine that opens a stream
NewPeer ==
    /\ Move
    /\ stream = "none"
    /\ stream' = "opening"
    /\ outbox' = <<>> /\ misjudged' = FALSE
    /\ UNCHANGED <<topicVars, hello, retries, remote>>

\* Faulty variant: fanout-only topics are in it
GetHelloPacketAll == IF subs > 0 \/ relays > 0 THEN "sub" ELSE "other"

\* getHelloPacket: the topics we subscribe to, without the fanout-only ones, and the
\* ones we relay
GetHelloPacket ==
    IF (subs > 0 /\ handle # "fanoutOnly") \/ relays > 0 THEN "sub" ELSE "other"

\* newPeerStream: the writer gets its first message
StreamOpens ==
    /\ stream = "opening"
    /\ stream' = "open"
    /\ hello' = <<GetHelloPacket>>
    /\ wiped' = FALSE
    /\ UNCHANGED <<topicVars, outbox, retries, view, closing, misjudged, moves>>

\* newPeerError: the stream could not be opened, the queue goes away
StreamFails ==
    /\ Move
    /\ stream = "opening"
    /\ stream' = "none"
    /\ outbox' = <<>> /\ misjudged' = FALSE
    /\ UNCHANGED <<topicVars, hello, retries, remote>>

\* handleIncomingRPC of the peer
Hears(a) == IF a = "other" THEN UNCHANGED <<view, wiped>>
            ELSE view' = (a = "sub") /\ wiped' = FALSE

\* Faulty variant: the queue is written before the first message
WriteQueueFirst ==
    /\ stream = "open"
    /\ IF outbox # <<>>
       THEN Hears(Head(outbox)) /\ outbox' = Tail(outbox) /\ UNCHANGED hello
       ELSE hello # <<>> /\ Hears(Head(hello)) /\ hello' = <<>> /\ UNCHANGED outbox
    /\ UNCHANGED <<topicVars, stream, retries, closing, misjudged, moves>>

\* handleSendingMessages writes the first message, then the queue; the peer reads it
Write ==
    /\ stream = "open"
    /\ IF hello # <<>>
       THEN Hears(Head(hello)) /\ hello' = <<>> /\ UNCHANGED outbox
       ELSE outbox # <<>> /\ Hears(Head(outbox)) /\ outbox' = Tail(outbox) /\ UNCHANGED hello
    /\ UNCHANGED <<topicVars, stream, retries, closing, misjudged, moves>>

\* The router pushes an RPC of its own
OtherRPC ==
    /\ Move
    /\ stream # "none" /\ Len(outbox) < OutboundQueue
    /\ outbox' = Append(outbox, "other")
    /\ UNCHANGED <<topicVars, stream, hello, retries, remote, misjudged>>

\* The stream dies: our handleDeadPeers closes the queue and, while we are connected,
\* makes another.  The peer's handler is on its way to send closedStream
StreamDies(connected) ==
    /\ Move
    /\ stream = "open"
    /\ stream' = IF connected THEN "opening" ELSE "none"
    /\ hello' = <<>> /\ outbox' = <<>> /\ misjudged' = FALSE
    /\ closing' = closing + 1
    /\ UNCHANGED <<topicVars, retries, view, wiped>>

\* clearPeerFromTopicsState of the peer.  A hello that is still to come makes up for it
Forget ==
    /\ view' = FALSE
    /\ wiped' = (stream = "open" /\ hello = <<>>)

\* onClosedIncomingStream of the peer.  The entry of a handler is deleted before its
\* closedStream is sent, so that our next stream may have begun in between
ClosedStream ==
    /\ closing > 0
    /\ closing' = closing - 1
    /\ Forget
    /\ UNCHANGED <<topicVars, stream, hello, outbox, retries, misjudged, moves>>

\* The stream the peer sends on dies, ours does not: its handleDeadPeers clears our
\* entries from its topics map
ReverseStreamDies ==
    /\ Move
    /\ stream = "open"
    /\ Forget
    /\ UNCHANGED <<topicVars, stream, hello, outbox, retries, closing, misjudged>>

-----------------------------------------------------------------------------
AnnNext ==
    \/ \E h \in {"normal", "fanoutOnly"} : AddTopic(h)
    \/ RemoveTopic
    \/ AddSubscription \/ RemoveSubscription \/ AddRelay \/ RemoveRelay
    \/ \E a \in DOMAIN retries : AnnounceRetry(a)
    \/ NewPeer \/ StreamOpens \/ StreamFails \/ Write \/ OtherRPC
    \/ \E connected \in BOOLEAN : StreamDies(connected)
    \/ ClosedStream \/ ReverseStreamDies

\* The writer runs, streams open, the delay of a retry ends, and the peer handles the
\* end of a stream.
AnnFairness ==
    /\ WF_annVars(Write) /\ WF_annVars(StreamOpens) /\ WF_annVars(ClosedStream)
    /\ \A a \in {"sub", "unsub"} : WF_annVars(AnnounceRetry(a))

AnnSpec     == AnnInit /\ [][AnnNext]_annVars
AnnFairSpec == AnnSpec /\ AnnFairness

-----------------------------------------------------------------------------
\* Subscriptions and relays share what they cause: as long as there is one of either,
\* and no longer, the topic is advertised; the router has joined it unless the handle is
\* fanout-only; and the handle cannot go away under them.
InterestAgrees ==
    /\ advertised <=> Interested
    /\ joined <=> Interested /\ handle # "fanoutOnly"
    /\ Interested => handle # "none"

\* Whatever was dropped, retried, delayed or sent again with a new stream, in the end
\* the peer believes what is the case.  Excepted are a peer that removed us, by its
\* handleDeadPeers or the late end of an earlier stream, and has heard no announcement
\* since, and a queue with a retry that was sent, or dropped, because of a fanout-only
\* subscription.
ViewConverges == <>[](stream = "open" /\ ~ wiped /\ ~ misjudged => (view <=> joined))

\* While the handle is fanout-only nothing new is announced of the topic, by hello or
\* by announce, and no retry is begun: all that can still be queued are the retries that
\* an earlier handle has left.
FanoutQuiet ==
    [][ handle = "fanoutOnly" =>
          /\ hello' = <<"sub">> => hello' = hello
          /\ \A a \in {"sub", "unsub"} :
                /\ retries'[a] <= retries[a]
                /\ outbox' = Append(outbox, a) => retries'[a] < retries[a] ]_annVars

\* A fanout-only topic is never announced, neither by hello, by announce nor by a retry.
FanoutNotAnnounced ==
    [][ /\ Len(outbox') > Len(outbox) /\ outbox'[Len(outbox')] = "sub" => handle # "fanoutOnly"
        /\ hello' = <<"sub">> /\ hello = <<>> => handle # "fanoutOnly" ]_annVars
=============================================================================
