----------------------------- MODULE TopicEvents -----------------------------
(***************************************************************************)
(* Who subscribes to one topic: the topics map, fed by the subscriptions   *)
(* incoming RPCs carry, through a subscription filter or not (pubsub.go,   *)
(* subscription_filter.go), and the handlers of its topic handle, which    *)
(* log joins and leaves for readers that call NextPeerEvent (topic.go).    *)
(***************************************************************************)
EXTENDS Naturals, FiniteSets, Sequences

CONSTANTS
    Members,    \* the remote peers
    Handlers,   \* event handlers
    Readers,    \* goroutines that call NextPeerEvent on each handler
    Limit,      \* limitSubscriptionFilter.limit
    MaxBundle   \* bound: subscription changes a peer puts in one RPC

ASSUME TopicEventsAssumption ==
    /\ IsFiniteSet(Members) /\ IsFiniteSet(Handlers) /\ IsFiniteSet(Readers)
    /\ Limit \in Nat /\ MaxBundle \in Nat

VARIABLES
    filtered,    \* a subscription filter is set, which allows the topic
    known,       \* the topic has a handle in myTopics
    topicPeers,  \* p.topics[topic]
    wants,       \* the peers that subscribe to the topic
    bundle,      \* what each of them has not told us: subscribe or not, in order
    ignored,     \* peers one of whose RPCs the filter refused
    handler,     \* "none", "on" (in evtHandlers) or "off"
    evtLog,      \* its log, a function from some peers to "join" or "leave"
    evtLogCh,    \* its signal channel is full
    reader,      \* where each call of NextPeerEvent is
    told         \* peers whose last event it returned is a join

memberVars == <<wants, bundle, ignored>>
logVars    == <<evtLog, evtLogCh>>
evtVars == <<filtered, known, topicPeers, wants, bundle, ignored, handler, evtLog, evtLogCh,
             reader, told>>

EvtInit ==
    /\ filtered \in BOOLEAN
    /\ known = FALSE
    /\ topicPeers = {} /\ wants = {}
    /\ bundle = [p \in Members |-> <<>>]
    /\ ignored = {}
    /\ handler = [h \in Handlers |-> "none"]
    /\ evtLog = [h \in Handlers |-> << >>]
    /\ evtLogCh = [h \in Handlers |-> FALSE]
    /\ reader = [h \in Handlers |-> [r \in Readers |-> "idle"]]
    /\ told = [h \in Handlers |-> {}]

Without(f, x) == [y \in DOMAIN f \ {x} |-> f[y]]
With(f, x, v) == [y \in DOMAIN f \cup {x} |-> IF y = x THEN v ELSE f[y]]

-----------------------------------------------------------------------------
(* Events.  A record s of the topics map, the logs and the signals is      *)
(* threaded through the subscriptions of an RPC.                           *)

\* Faulty variant: the newer event replaces the one in the log
AddToEventLogLatest(log, p, e) == With(log, p, e)

\* addToEventLog: an event and its opposite cancel out
AddToEventLog(log, p, e) ==
    IF p \notin DOMAIN log THEN With(log, p, e)
    ELSE IF log[p] # e THEN Without(log, p) ELSE log

\* sendNotification, to every handler of the topic, if there is a handle
SendNotification(s, p, e) ==
    LET on == {h \in Handlers : known /\ handler[h] = "on"}
    IN  [peers |-> s.peers,
         log   |-> [h \in Handlers |->
                      IF h \in on THEN AddToEventLog(s.log[h], p, e) ELSE s.log[h]],
         ch    |-> [h \in Handlers |-> s.ch[h] \/ (h \in on /\ p \notin DOMAIN s.log[h])]]

\* clearPeerFromTopicsState, and an unsubscription: delete and notifyLeave
DropPeer(s, p) ==
    IF p \in s.peers THEN SendNotification([s EXCEPT !.peers = @ \ {p}], p, "leave") ELSE s

\* One subopt of an RPC
ApplySub(s, p, subscribe) ==
    IF ~ subscribe THEN DropPeer(s, p)
    ELSE IF p \in s.peers THEN s
    ELSE SendNotification([s EXCEPT !.peers = @ \cup {p}], p, "join")

\* FilterSubscriptions, for one topic: an entry is dropped again by its opposite
FilterSubscriptions(subs) ==
    LET accept[i \in 0 .. Len(subs)] ==
            IF i = 0 THEN <<>>
            ELSE IF accept[i - 1] = <<>> THEN <<subs[i]>>
            ELSE IF accept[i - 1][1] # subs[i] THEN <<>> ELSE accept[i - 1]
    IN  accept[Len(subs)]

Current == [peers |-> topicPeers, log |-> evtLog, ch |-> evtLogCh]
Becomes(s) == topicPeers' = s.peers /\ evtLog' = s.log /\ evtLogCh' = s.ch

\* The subopts of an RPC, one after the other
ApplySubs(p, subs) ==
    LET after[i \in 0 .. Len(subs)] ==
            IF i = 0 THEN Current ELSE ApplySub(after[i - 1], p, subs[i])
    IN  after[Len(subs)]

-----------------------------------------------------------------------------
(* The peers.                                                              *)

\* A peer subscribes or unsubscribes
PeerToggles(p) ==
    /\ Len(bundle[p]) < MaxBundle
    /\ wants' = IF p \in wants THEN wants \ {p} ELSE wants \cup {p}
    /\ bundle' = [bundle EXCEPT ![p] = Append(@, p \notin wants)]
    /\ UNCHANGED <<filtered, known, topicPeers, ignored, handler, logVars, reader, told>>

\* handleIncomingRPC, the subscriptions; too many of them and the filter refuses the RPC
HandleIncomingRPC(p) ==
    /\ bundle[p] # <<>>
    /\ bundle' = [bundle EXCEPT ![p] = <<>>]
    /\ IF filtered /\ Len(bundle[p]) > Limit
       THEN ignored' = ignored \cup {p} /\ UNCHANGED <<topicPeers, logVars>>
       ELSE /\ Becomes(ApplySubs(p, IF filtered THEN FilterSubscriptions(bundle[p]) ELSE bundle[p]))
            /\ UNCHANGED ignored
    /\ UNCHANGED <<filtered, known, wants, handler, reader, told>>

\* The peer's stream closes, or the peer is found dead or blacklisted; the hello of its
\* next stream says what it subscribes to
ClearPeerFromTopicsState(p) ==
    /\ Becomes(DropPeer(Current, p))
    /\ bundle' = [bundle EXCEPT ![p] = IF p \in wants THEN <<TRUE>> ELSE <<>>]
    /\ ignored' = ignored \ {p}
    /\ UNCHANGED <<filtered, known, wants, handler, reader, told>>

-----------------------------------------------------------------------------
(* The topic handle and its event handlers.                                *)

\* handleAddTopic
JoinTopic ==
    /\ ~ known
    /\ known' = TRUE
    /\ UNCHANGED <<filtered, topicPeers, memberVars, handler, logVars, reader, told>>

\* handleRemoveTopic: refused while the handle has event handlers
CloseTopic ==
    /\ known /\ \A h \in Handlers : handler[h] # "on"
    /\ known' = FALSE
    /\ UNCHANGED <<filtered, topicPeers, memberVars, handler, logVars, reader, told>>

\* EventHandler: the log starts with the peers there are; nothing is signalled
EventHandler(h) ==
    /\ known /\ handler[h] = "none"
    /\ handler' = [handler EXCEPT ![h] = "on"]
    /\ evtLog' = [evtLog EXCEPT ![h] = [p \in topicPeers |-> "join"]]
    /\ UNCHANGED <<filtered, known, topicPeers, memberVars, evtLogCh, reader, told>>

\* Cancel
CancelHandler(h) ==
    /\ handler[h] = "on"
    /\ handler' = [handler EXCEPT ![h] = "off"]
    /\ UNCHANGED <<filtered, known, topicPeers, memberVars, logVars, reader, told>>

\* NextPeerEvent is called
NextPeerEvent(h, r) ==
    /\ handler[h] # "none" /\ reader[h][r] = "idle"
    /\ reader' = [reader EXCEPT ![h][r] = "pulling"]
    /\ UNCHANGED <<filtered, known, topicPeers, memberVars, handler, logVars, told>>

\* Faulty variant: no signal is left for the events that remain
SignalRestNever(h, p) == evtLogCh[h]

\* The signal after event p was taken from the log
SignalRest(h, p) == evtLogCh[h] \/ DOMAIN evtLog[h] # {p}

\* ... takes an event out of the log and returns it
PullFromEventLog(h, r) ==
    /\ reader[h][r] = "pulling"
    /\ \E p \in DOMAIN evtLog[h] :
          /\ told' = [told EXCEPT ![h] = IF evtLog[h][p] = "join" THEN @ \cup {p} ELSE @ \ {p}]
          /\ evtLog' = [evtLog EXCEPT ![h] = Without(@, p)]
          /\ evtLogCh' = [evtLogCh EXCEPT ![h] = SignalRest(h, p)]
    /\ reader' = [reader EXCEPT ![h][r] = "idle"]
    /\ UNCHANGED <<filtered, known, topicPeers, memberVars, handler>>

\* ... finds it empty
FindsLogEmpty(h, r) ==
    /\ reader[h][r] = "pulling" /\ DOMAIN evtLog[h] = {}
    /\ reader' = [reader EXCEPT ![h][r] = "waiting"]
    /\ UNCHANGED <<filtered, known, topicPeers, memberVars, handler, logVars, told>>

\* ... gets the signal and looks again
GetsSignal(h, r) ==
    /\ reader[h][r] = "waiting" /\ evtLogCh[h]
    /\ evtLogCh' = [evtLogCh EXCEPT ![h] = FALSE]
    /\ reader' = [reader EXCEPT ![h][r] = "pulling"]
    /\ UNCHANGED <<filtered, known, topicPeers, memberVars, handler, evtLog, told>>

\* ... returns since its context is done
ContextDone(h, r) ==
    /\ reader[h][r] = "waiting"
    /\ reader' = [reader EXCEPT ![h][r] = "idle"]
    /\ UNCHANGED <<filtered, known, topicPeers, memberVars, handler, logVars, told>>

-----------------------------------------------------------------------------
EvtNext ==
    \/ \E p \in Members : PeerToggles(p) \/ HandleIncomingRPC(p) \/ ClearPeerFromTopicsState(p)
    \/ JoinTopic \/ CloseTopic
    \/ \E h \in Handlers : \/ EventHandler(h) \/ CancelHandler(h)
                           \/ \E r \in Readers : \/ NextPeerEvent(h, r) \/ PullFromEventLog(h, r)
                                                 \/ FindsLogEmpty(h, r) \/ GetsSignal(h, r)
                                                 \/ ContextDone(h, r)

-----------------------------------------------------------------------------
\* What a reader was told and what still is in the log add up to who subscribes: no
\* event is lost, none is reported twice and joins and leaves of a peer alternate, though
\* events cancel out in the log while several readers empty it.
EventsInOrder ==
    \A h \in Handlers : handler[h] = "on" =>
        \A p \in Members :
            IF p \in DOMAIN evtLog[h]
            THEN (evtLog[h][p] = "join") = (p \in topicPeers) /\ (p \in topicPeers) # (p \in told[h])
            ELSE (p \in topicPeers) = (p \in told[h])

\* A reader never sleeps on events nobody is about to look at.
WakeupPending ==
    \A h \in Handlers :
        DOMAIN evtLog[h] # {} /\ (\E r \in Readers : reader[h][r] = "waiting")
            => evtLogCh[h] \/ \E r \in Readers : reader[h][r] = "pulling"

=============================================================================
