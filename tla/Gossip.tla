-------------------------------- MODULE Gossip --------------------------------
(***************************************************************************)
(* Lazy gossip in one topic that we are subscribed to: the seen caches     *)
(* (timecache), the message cache (mcache.go), the exchange of IHAVE,      *)
(* IWANT and IDONTWANT (gossipsub.go) and the promises that an IWANT is    *)
(* followed by the message (gossip_tracer.go).                             *)
(*                                                                         *)
(* processLoop handles RPCs and heartbeats; the validations run beside it  *)
(* and reach the seen cache and the promises at any time.  The unit of     *)
(* time is the heartbeat.                                                  *)
(***************************************************************************)
EXTENDS Naturals, Sequences, FiniteSets, FiniteSetsExt

CONSTANTS
    Peers, Msgs,
    Requested,          \* the messages that the peers ask for with IWANT
    Strategies,         \* "first" or "last": FirstSeenCache or LastSeenCache
    SeenTTL,            \* TimeCacheDuration
    HistoryLength, HistoryGossip,
    MaxIHaveMessages, MaxIHaveLength,
    MaxIDontWantMessages, MaxIDontWantLength, IDontWantMessageTTL,
    GossipRetransmission,
    IWantFollowupTime

\* A message is remembered as delivered for as long as it is cached.
ASSUME GossipAssumption ==
    /\ IsFiniteSet(Peers) /\ IsFiniteSet(Msgs) /\ Requested \subseteq Msgs
    /\ Strategies \subseteq {"first", "last"}
    /\ {SeenTTL, HistoryLength, HistoryGossip, IDontWantMessageTTL, IWantFollowupTime,
        MaxIHaveMessages, MaxIHaveLength, MaxIDontWantMessages, MaxIDontWantLength,
        GossipRetransmission} \subseteq Nat \ {0}
    /\ HistoryGossip <= HistoryLength
    /\ HistoryLength <= SeenTTL

VARIABLES
    strategy,           \* WithSeenMessagesStrategy
    seen, delivered,    \* the time caches: time left plus one, 0 if absent
    stage,              \* what the validation of a copy of the message has reached
    cached,             \* the domain of mcache.msgs
    history,            \* mcache.history
    peertx,             \* mcache.peertx
    peerhave, iasked,   \* control RPCs handled and messages asked for since the last heartbeat
    peerdontwant,       \* IDONTWANTs handled since the last heartbeat
    unwanted,           \* the heartbeats left of each IDONTWANT, 0 if there is none
    promises,           \* promises: the time left plus one, 0 if there is none
    peerPromises,       \* the same, as the messages that each peer promised
    ask                 \* the IHAVE that processLoop is about to answer

caches  == <<seen, delivered, strategy>>
mcache  == <<cached, history, peertx>>
limits  == <<peerhave, iasked, peerdontwant>>
tracer  == <<promises, peerPromises>>
gossipVars == <<caches, stage, mcache, limits, unwanted, tracer, ask>>

NoAsk == [peer |-> "none", ids |-> {}]
Less(x) == IF x = 0 THEN 0 ELSE x - 1

\* processLoop is between two events
Ready == ask = NoAsk

-----------------------------------------------------------------------------
(* The time caches.                                                        *)

\* Add, and Has for the messages S
Added(c, m) == IF strategy = "last" \/ c[m] = 0 THEN [c EXCEPT ![m] = SeenTTL + 1] ELSE c
Looked(c, S) ==
    [m \in Msgs |-> IF strategy = "last" /\ m \in S /\ c[m] > 0 THEN SeenTTL + 1 ELSE c[m]]

\* Time passes; what is expired stays until the sweep
Aged(c) == [m \in Msgs |-> IF c[m] > 1 THEN c[m] - 1 ELSE c[m]]
Swept(c) == [m \in Msgs |-> IF c[m] = 1 THEN 0 ELSE c[m]]

\* The background goroutines of the two caches sweep on their own
SweepSeen ==
    /\ seen' = Swept(seen)
    /\ UNCHANGED <<strategy, delivered, stage, mcache, limits, unwanted, tracer, ask>>

SweepDelivered ==
    /\ delivered' = Swept(delivered)
    /\ UNCHANGED <<strategy, seen, stage, mcache, limits, unwanted, tracer, ask>>

-----------------------------------------------------------------------------
(* Promises.                                                               *)

\* Faulty variant: the index by peer is not cleaned
FulfillPromiseInOne(m) ==
    /\ promises' = [promises EXCEPT ![m] = [p \in Peers |-> 0]]
    /\ UNCHANGED peerPromises

\* fulfillPromise: nobody else can keep its promise of m any more
FulfillPromise(m) ==
    /\ promises' = [promises EXCEPT ![m] = [p \in Peers |-> 0]]
    /\ peerPromises' = [p \in Peers |-> peerPromises[p] \ {m}]

\* AddPromise
AddPromise(p, m) ==
    /\ promises' = IF promises[m][p] = 0
                   THEN [promises EXCEPT ![m][p] = IWantFollowupTime + 1] ELSE promises
    /\ peerPromises' = IF promises[m][p] = 0
                       THEN [peerPromises EXCEPT ![p] = @ \cup {m}] ELSE peerPromises

\* Faulty variant: only messages that are cached are looked at
BrokenIfCached == {x \in Peers \X cached : promises[x[2]][x[1]] = 1}

\* GetBrokenPromises: what has expired is counted against the peer once
Broken == {x \in Peers \X Msgs : promises[x[2]][x[1]] = 1}

\* ThrottlePeer, when the messages of an RPC of p were not looked at
ThrottlePeer(p) ==
    /\ Ready
    /\ promises' = [m \in Msgs |-> IF m \in peerPromises[p]
                                   THEN [promises[m] EXCEPT ![p] = 0] ELSE promises[m]]
    /\ peerPromises' = [peerPromises EXCEPT ![p] = {}]
    /\ UNCHANGED <<caches, stage, mcache, limits, unwanted, ask>>

-----------------------------------------------------------------------------
(* A message is validated and published.                                   *)

\* markSeen, by a worker or a publisher
MarkSeen(m) ==
    /\ stage[m] = "idle"
    /\ seen[m] = 0
    /\ seen' = Added(seen, m)
    /\ stage' = [stage EXCEPT ![m] = "marked"]
    /\ UNCHANGED <<strategy, delivered, mcache, limits, unwanted, tracer, ask>>

\* Another copy arrives: shouldPush or validate look it up and drop it.
SeenAgain(m) ==
    /\ seen[m] > 0
    /\ seen' = Looked(seen, {m})
    /\ UNCHANGED <<strategy, delivered, stage, mcache, limits, unwanted, tracer, ask>>

\* The trace of ValidateMessage
BeginValidation(m) ==
    /\ stage[m] = "marked"
    /\ stage' = [stage EXCEPT ![m] = "begun"]
    /\ FulfillPromise(m)
    /\ UNCHANGED <<caches, mcache, limits, unwanted, ask>>

\* The trace of RejectMessage, for a message that did not pass its validators
RejectMessage(m) ==
    /\ stage[m] = "begun"
    /\ stage' = [stage EXCEPT ![m] = "idle"]
    /\ FulfillPromise(m)
    /\ UNCHANGED <<caches, mcache, limits, unwanted, ask>>

\* The trace of RejectMessage for a copy that is not validated: its peer or its source is
\* blacklisted, it is signed against the policy, it claims to be ours, or the validation
\* queue is full.  Only for a missing or wrong signature the promises stand
RejectUnseen(m) ==
    /\ Ready
    /\ FulfillPromise(m)
    /\ UNCHANGED <<caches, stage, mcache, limits, unwanted, ask>>

\* MessageCache.Put
Put(m) ==
    /\ cached' = cached \cup {m}
    /\ history' = [history EXCEPT ![1] = @ \cup {m}]
    /\ UNCHANGED peertx

\* publishMessage: the trace of DeliverMessage, then rpcs
PublishMessage(m) ==
    /\ Ready
    /\ stage[m] = "begun"
    /\ stage' = [stage EXCEPT ![m] = "idle"]
    /\ delivered' = Added(delivered, m)
    /\ IF delivered[m] > 0 THEN UNCHANGED <<mcache, tracer>> ELSE FulfillPromise(m) /\ Put(m)
    /\ UNCHANGED <<strategy, seen, limits, unwanted, ask>>

-----------------------------------------------------------------------------
(* The control messages.                                                   *)

\* handleIHave up to the choice of what to ask for: an IHAVE that begins with the
\* messages ids, as many as are looked at.  It is called, and counts, for every RPC with a
\* control message of a peer that is not below the gossip threshold: ids is empty if the
\* RPC has no IHAVE, and the handlers of what else it has follow
HandleIHave(p, ids) ==
    LET refused == peerhave[p] >= MaxIHaveMessages \/ iasked[p] >= MaxIHaveLength
        want    == {m \in ids : seen[m] = 0}
    IN  /\ Ready
        /\ Cardinality(ids) <= MaxIHaveLength
        /\ peerhave' = [peerhave EXCEPT ![p] = Min({@ + 1, MaxIHaveMessages})]
        /\ seen' = IF refused THEN seen ELSE Looked(seen, ids)
        /\ ask' = IF refused \/ want = {} THEN NoAsk ELSE [peer |-> p, ids |-> want]
        /\ UNCHANGED <<strategy, delivered, stage, mcache, iasked, peerdontwant, unwanted, tracer>>

\* handleIHave asks for as many of them as p has left, and takes the promise for one
SendIWant ==
    LET p == ask.peer
        n == Min({Cardinality(ask.ids), MaxIHaveLength - iasked[p]})
    IN  /\ ~ Ready
        /\ iasked' = [iasked EXCEPT ![p] = @ + n]
        /\ \E asked \in kSubset(n, ask.ids) : \E m \in asked : AddPromise(p, m)
        /\ ask' = NoAsk
        /\ UNCHANGED <<caches, stage, mcache, peerhave, peerdontwant, unwanted>>

\* handleIWant; GetForPeer counts the request, also one too many that is not answered.
\* The counters need not go beyond their limits.
HandleIWant(p, m) ==
    /\ Ready
    /\ unwanted[p][m] = 0 /\ m \in cached
    /\ peertx' = [peertx EXCEPT ![m][p] = Min({@ + 1, GossipRetransmission})]
    /\ UNCHANGED <<caches, stage, cached, history, limits, unwanted, tracer, ask>>

\* Faulty variant: one IDONTWANT too many is taken
DontWantRefusedLate(p) == peerdontwant[p] > MaxIDontWantMessages

DontWantRefused(p) == peerdontwant[p] >= MaxIDontWantMessages

\* handleIDontWant, for a message that begins with ids, as many as are looked at
HandleIDontWant(p, ids) ==
    /\ Ready
    /\ Cardinality(ids) <= MaxIDontWantLength
    /\ ~ DontWantRefused(p)
    /\ peerdontwant' = [peerdontwant EXCEPT ![p] = @ + 1]
    /\ unwanted' = [unwanted EXCEPT ![p] =
          [m \in Msgs |-> IF m \in ids THEN IDontWantMessageTTL ELSE unwanted[p][m]]]
    /\ UNCHANGED <<caches, stage, mcache, peerhave, iasked, tracer, ask>>

\* OnClosedOutboundStream
ClosedOutboundStream(p) ==
    /\ Ready
    /\ unwanted' = [unwanted EXCEPT ![p] = [m \in Msgs |-> 0]]
    /\ UNCHANGED <<caches, stage, mcache, limits, tracer, ask>>

\* Faulty variant: the cached messages are kept
ShiftKeep ==
    /\ UNCHANGED <<cached, peertx>>
    /\ history' = [i \in 1 .. HistoryLength |-> IF i = 1 THEN {} ELSE history[i - 1]]

\* MessageCache.Shift
Shift ==
    /\ cached' = cached \ history[HistoryLength]
    /\ peertx' = [m \in Msgs |-> IF m \in history[HistoryLength]
                                 THEN [p \in Peers |-> 0] ELSE peertx[m]]
    /\ history' = [i \in 1 .. HistoryLength |-> IF i = 1 THEN {} ELSE history[i - 1]]

\* heartbeat: the counters are cleared, broken promises are settled, the window moves
GossipHeartbeat ==
    /\ Ready
    /\ peerhave' = [p \in Peers |-> 0]
    /\ iasked' = [p \in Peers |-> 0]
    /\ peerdontwant' = [p \in Peers |-> 0]
    /\ unwanted' = [p \in Peers |-> [m \in Msgs |-> Less(unwanted[p][m])]]
    /\ promises' = [m \in Msgs |-> [p \in Peers |->
          IF <<p, m>> \in Broken THEN 0
          ELSE IF promises[m][p] > 1 THEN promises[m][p] - 1 ELSE promises[m][p]]]
    /\ peerPromises' = [p \in Peers |-> {m \in peerPromises[p] : <<p, m>> \notin Broken}]
    /\ Shift
    /\ seen' = Aged(seen)
    /\ delivered' = Aged(delivered)
    /\ UNCHANGED <<strategy, stage, ask>>

-----------------------------------------------------------------------------
GossipInit ==
    /\ strategy \in Strategies
    /\ seen = [m \in Msgs |-> 0]
    /\ delivered = [m \in Msgs |-> 0]
    /\ stage = [m \in Msgs |-> "idle"]
    /\ cached = {}
    /\ history = [i \in 1 .. HistoryLength |-> {}]
    /\ peertx = [m \in Msgs |-> [p \in Peers |-> 0]]
    /\ peerhave = [p \in Peers |-> 0]
    /\ iasked = [p \in Peers |-> 0]
    /\ peerdontwant = [p \in Peers |-> 0]
    /\ unwanted = [p \in Peers |-> [m \in Msgs |-> 0]]
    /\ promises = [m \in Msgs |-> [p \in Peers |-> 0]]
    /\ peerPromises = [p \in Peers |-> {}]
    /\ ask = NoAsk

GossipNext ==
    \/ \E m \in Msgs :
          \/ MarkSeen(m) \/ SeenAgain(m) \/ BeginValidation(m) \/ RejectMessage(m)
          \/ RejectUnseen(m) \/ PublishMessage(m)
    \/ \E p \in Peers :
          \/ \E ids \in SUBSET Msgs : HandleIHave(p, ids)
          \/ \E ids \in SUBSET Msgs \ {{}} : HandleIDontWant(p, ids)
          \/ \E m \in Requested : HandleIWant(p, m)
          \/ ThrottlePeer(p) \/ ClosedOutboundStream(p)
    \/ SendIWant \/ GossipHeartbeat \/ SweepSeen \/ SweepDelivered

GossipSpec == GossipInit /\ [][GossipNext]_gossipVars

\* processLoop takes its next step and the heartbeat timer never stops.
GossipFairness == WF_gossipVars(SendIWant) /\ WF_gossipVars(GossipHeartbeat)

-----------------------------------------------------------------------------
(* Properties.                                                             *)

\* The window and the store of the message cache agree: a message that is advertised can
\* be sent, and one that left the window is not kept.  A message published again while
\* it is still cached would break this, and only the delivered cache prevents it.
WindowServed == cached = UNION {history[i] : i \in 1 .. HistoryLength}

\* The two indexes of the promises agree, so that throttling a peer, a broken promise and
\* a message that comes at last each clear a promise in both.
PromisesIndexed ==
    \A p \in Peers : peerPromises[p] = {m \in Msgs : promises[m][p] > 0}

\* A peer can make us remember a bounded number of unwanted messages.
UnwantedBound ==
    \A p \in Peers :
        Cardinality({m \in Msgs : unwanted[p][m] > 0})
            <= MaxIDontWantMessages * MaxIDontWantLength * IDontWantMessageTTL

\* Every promise is settled: kept, voided or broken and charged to the peer.
Settles == \A m \in Msgs, p \in Peers : []<>(promises[m][p] = 0)
=============================================================================
