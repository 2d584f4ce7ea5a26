--------------------------- MODULE GossipSubRouter ---------------------------
(***************************************************************************)
(* The mesh and fanout maintenance of one gossipsub node (gossipsub.go),   *)
(* together with the parts of PubSub (pubsub.go) that feed it: the peers'  *)
(* subscriptions, the life cycle of their streams and the send queues.     *)
(*                                                                         *)
(* Every action is one event of PubSub.processLoop, which runs handlers    *)
(* one at a time; only the writer goroutines of the peers run concurrently *)
(* with it.  Message payloads, gossip contents and peer exchange are left  *)
(* out: an RPC is the set of topics it GRAFTs and PRUNEs.                  *)
(***************************************************************************)
EXTENDS Integers, FiniteSets, Sequences, FiniteSetsExt

CONSTANTS
    Peers,              \* the remote peers
    Topics,             \* the topics
    FloodPeers,         \* peers that only speak floodsub
    Rejected,           \* pairs <<peer, topic>> that WithPeerFilter refuses
    DirectInit,         \* WithDirectPeers
    DirectCandidates,   \* peers AddDirectPeer/RemoveDirectPeer are called for
    ChurnPeers,         \* peers whose streams come and go; the others stay connected
    OutboundInit,       \* permanently connected peers that we dialled
    LaggingPeers,       \* peers whose writer may lag; the others' queues never fill
    QueueSize,          \* peerOutboundQueueSize
    D, Dlo, Dhi, Dscore, Dout,
    PruneBackoff, UnsubscribeBackoff,
    PeerBackoffs,       \* intervals a remote PRUNE may ask for, after conversion
    BackoffSlack,       \* slack added before a backoff entry is cleared
    ClearBackoffTicks,  \* heartbeats between two runs of clearBackoff
    FanoutTTL,
    OpportunisticGraftTicks, OpportunisticGraftPeers, OpportunisticGraftThreshold,
    Scores,             \* the scores a peer can have
    PublishThreshold, GossipThreshold, GraylistThreshold,
    FloodPublish

Expired == -(BackoffSlack + 1)  \* a backoff that clearBackoff may erase
Absent  == -(BackoffSlack + 2)  \* no backoff entry
MaxBackoff == Max({PruneBackoff, UnsubscribeBackoff} \cup PeerBackoffs)

ASSUME SetAssumption ==
    /\ IsFiniteSet(Peers)
    /\ FloodPeers \subseteq Peers
    /\ Rejected \subseteq Peers \X Topics
    /\ DirectInit \subseteq Peers
    /\ DirectCandidates \subseteq Peers
    /\ ChurnPeers \subseteq Peers
    /\ OutboundInit \subseteq Peers \ ChurnPeers
    /\ LaggingPeers \subseteq Peers

\* GossipSubParams.validate, with the types Go gives the parameters
ASSUME ParamAssumption ==
    /\ {D, Dlo, Dhi, Dscore, Dout, QueueSize, FanoutTTL} \subseteq Nat
    /\ {PruneBackoff, UnsubscribeBackoff, BackoffSlack} \subseteq Nat
    /\ {OpportunisticGraftTicks, ClearBackoffTicks} \subseteq Nat \ {0}
    /\ OpportunisticGraftPeers \in Nat
    /\ Dscore <= Dhi
    /\ \/ D = 0 /\ Dlo = 0 /\ Dhi = 0 /\ Dout = 0
       \/ Dlo <= D /\ D <= Dhi /\ Dout < Dlo /\ Dout < D \div 2

ASSUME BackoffAssumption ==
    /\ PeerBackoffs \subseteq Expired .. MaxBackoff
    /\ {PruneBackoff, UnsubscribeBackoff, MaxBackoff} \subseteq 0 .. MaxBackoff

ASSUME ScoreAssumption ==
    /\ Scores \subseteq Int
    /\ 0 \in Scores
    /\ {PublishThreshold, GossipThreshold, GraylistThreshold,
        OpportunisticGraftThreshold} \subseteq Int
    /\ FloodPublish \in BOOLEAN

VARIABLES
    topics,        \* p.topics: the peers subscribed to each topic
    hasQueue,      \* the domain of p.peers: peers with a send queue
    inbound,       \* peers with an open inbound stream
    peers,         \* the domain of gs.peers: peers with an announced outbound stream
    outbound,      \* gs.outbound: peers that we dialled
    direct,        \* gs.direct
    joined,        \* the domain of gs.mesh
    mesh,          \* gs.mesh; empty for a topic that is not joined
    fanoutTopics,  \* the domain of gs.fanout
    fanout,        \* gs.fanout; empty for a topic without entry
    lastpub,       \* gs.lastpub, as the time since the last publish, -1 if absent
    backoff,       \* gs.backoff, as the time left, Absent if there is no entry
    score,         \* gs.score.Score
    ticks,         \* gs.heartbeatTicks, modulo the period of its tests
    link           \* the send queue and gs.control of each lagging peer

subVars  == <<topics, inbound>>
peerVars == <<hasQueue, peers, outbound>>
meshVars == <<joined, mesh>>
fanVars  == <<fanoutTopics, fanout, lastpub>>
vars == <<topics, hasQueue, inbound, peers, outbound, direct, joined, mesh,
          fanoutTopics, fanout, lastpub, backoff, score, ticks, link>>

-----------------------------------------------------------------------------
(* RPCs, send queues and pending control messages.                         *)

\* An RPC: the topics it GRAFTs and PRUNEs; NoCtl is one that carries neither.
Ctl == [graft : SUBSET Topics, prune : SUBSET Topics]
NoCtl == [graft |-> {}, prune |-> {}]
Graft(T) == [graft |-> T, prune |-> {}]
Prune(T) == [graft |-> {}, prune |-> T]

\* told[t] is the last GRAFT or PRUNE of t that was written to the peer's stream.
Link == [normal : Seq(Ctl), priority : Seq(Ctl), control : Ctl,
         told : [Topics -> {"none", "graft", "prune"}]]
EmptyLink == [normal |-> <<>>, priority |-> <<>>, control |-> NoCtl,
              told |-> [t \in Topics |-> "none"]]

Larger(a, b) == IF a < b THEN b ELSE a
Smaller(a, b) == IF a < b THEN a ELSE b

\* The last GRAFT or PRUNE of t in the RPCs s
LastWord(s, t, before) ==
    LET I == {i \in DOMAIN s : t \in s[i].graft \cup s[i].prune}
    IN  IF I = {} THEN before
        ELSE IF t \in s[Max(I)].prune THEN "prune" ELSE "graft"

\* The writer goroutine has sent k more RPCs, urgent ones first.
Written(lk, k) ==
    LET np == Smaller(k, Len(lk.priority))
        nn == Smaller(k - np, Len(lk.normal))
        s  == SubSeq(lk.priority, 1, np) \o SubSeq(lk.normal, 1, nn)
    IN  [normal   |-> SubSeq(lk.normal, nn + 1, Len(lk.normal)),
         priority |-> SubSeq(lk.priority, np + 1, Len(lk.priority)),
         control  |-> lk.control,
         told     |-> [t \in Topics |-> LastWord(s, t, lk.told[t])]]

Backlog(lk) == Len(lk.priority) + Len(lk.normal)

\* What the writer can have made of the queue by the time of the next push.  It
\* only runs once the stream is announced to the router.
Drained(p, lk) ==
    {Written(lk, k) : k \in 0 .. (IF p \in peers THEN Backlog(lk) ELSE 0)}

\* pushControl, as doDropRPC calls it: the GRAFTs and PRUNEs of a dropped RPC
PushControl(lk, c) == IF c = NoCtl THEN lk ELSE [lk EXCEPT !.control = c]

\* doSendRPC and what the push does: a full queue drops the RPC
DoSendRPC(p, lk, c, urgent) ==
    {IF Backlog(l) = QueueSize THEN PushControl(l, c)
     ELSE IF urgent THEN [l EXCEPT !.priority = Append(@, c)]
     ELSE [l EXCEPT !.normal = Append(@, c)] : l \in Drained(p, lk)}

\* Faulty variant: the test for staleness of a PRUNE is that of a GRAFT
FreshPruneInMesh(p, c, m) ==
    [graft |-> {t \in c.graft : p \in m[t]}, prune |-> {t \in c.prune : p \in m[t]}]

\* piggybackControl: what is still true of the pending control message, for
\* the meshes m.
Fresh(p, c, m) ==
    [graft |-> {t \in c.graft : p \in m[t]}, prune |-> {t \in c.prune : p \notin m[t]}]

\* The outcomes of sendRPC.  gossip says whether IHAVEs wait for p in gs.gossip.
SendRPC(p, lk, out, gossip, urgent, m) ==
    IF p \notin hasQueue THEN {PushControl(lk, out)}
    ELSE LET c    == Fresh(p, lk.control, m)
             lk0  == [lk EXCEPT !.control = NoCtl]
             lks  == IF c # NoCtl \/ gossip THEN DoSendRPC(p, lk0, c, urgent) ELSE {lk0}
         IN  UNION {DoSendRPC(p, l, out, urgent) : l \in lks}

\* p.announce: a subscription RPC for p.  It bypasses the router, and when the
\* queue is full the retry is announceRetry's.
Announce(p, lk) ==
    IF p \notin hasQueue THEN {lk}
    ELSE {IF Backlog(l) = QueueSize THEN l ELSE [l EXCEPT !.normal = Append(@, NoCtl)] :
             l \in Drained(p, lk)}

\* All ways to pick, for every lagging peer, one of its outcomes.
LinkChoices(outcomes) ==
    {f \in [LaggingPeers -> UNION {outcomes[p] : p \in LaggingPeers}] :
        \A p \in LaggingPeers : f[p] \in outcomes[p]}

-----------------------------------------------------------------------------
(* Peer selection and backoffs.                                            *)

\* gs.feature(GossipSubFeatureMesh, gs.peers[p])
MeshPeers == peers \ FloodPeers

\* Faulty variant: the peer filter is not asked
GetPeersUnfiltered(t, count, ok) ==
    LET c == topics[t] \cap MeshPeers \cap ok
    IN  IF count > 0 /\ Cardinality(c) > count THEN kSubset(count, c) ELSE {c}

\* getPeers: the possible choices of count of the peers in ok that are in the
\* topic, speak gossipsub and pass the filter; a count of 0 means all of them.
GetPeers(t, count, ok) ==
    LET c == {p \in topics[t] \cap MeshPeers \cap ok : <<p, t>> \notin Rejected}
    IN  IF count > 0 /\ Cardinality(c) > count THEN kSubset(count, c) ELSE {c}

Active(t, p) == backoff[t][p] > 0
InBackoff(t) == {p \in Peers : backoff[t][p] # Absent}

\* addBackoff and doAddBackoff: a backoff is never shortened
AddBackoff(b, S, interval) ==
    [p \in Peers |-> IF p \in S THEN Larger(b[p], interval) ELSE b[p]]

\* The peers we may GRAFT: outside m, with no entry in gs.backoff.
Graftable(m, backed) == {p \in Peers \ (m \cup backed \cup direct) : score[p] >= 0}

-----------------------------------------------------------------------------
(* Mesh maintenance of the heartbeat for one topic.                        *)

\* The peers are ordered by score, then all but the first Dscore (T) are shuffled.
MustPrecede(T, x, y) == x \in T /\ (y \notin T \/ score[x] > score[y])

\* The sets that can be the first n of A in that order.
First(n, A, T) ==
    {S \in kSubset(n, A) : \A x \in S, y \in A \ S : ~ MustPrecede(T, y, x)}

\* Faulty variant: any Dscore peers
TopScoredAny(A) == kSubset(Dscore, A)

\* The Dscore best
TopScored(A) ==
    {T \in kSubset(Dscore, A) : \A x \in T, y \in A \ T : score[x] >= score[y]}

\* The first D are S: outbound peers from outside S replace the last of the others
\* when S has fewer than Dout of them.
Selections(A, T, S) ==
    LET out   == S \cap outbound
        spare == (A \ S) \cap outbound
        n     == IF Cardinality(out) >= Dout THEN 0
                 ELSE Smaller(Dout - Cardinality(out), Cardinality(spare))
    IN  {out \cup r[1] \cup r[2] :
            r \in First(n, spare, T) \X First(D - Cardinality(out) - n, S \ outbound, T)}

\* "do we have too many peers?": what can be left of A
Trimmed(A) ==
    IF Cardinality(A) < Dhi THEN {A}
    ELSE UNION {UNION {Selections(A, T, S) : S \in First(D, A, T)} : T \in TopScored(A)}

\* x has the score at index Cardinality(m) \div 2 of m sorted by score
IsMedian(m, x) ==
    LET k == Cardinality(m) \div 2
    IN  /\ Cardinality({p \in m : score[p] < score[x]}) <= k
        /\ k < Cardinality({p \in m : score[p] <= score[x]})

\* Faulty variant: the mesh may fall to Dlo - 1
RefillOffByOne(t, m, backed) ==
    IF Cardinality(m) < Dlo - 1 THEN GetPeers(t, D - Cardinality(m), Graftable(m, backed))
    ELSE {{}}

\* "do we have enough peers?"
Refill(t, m, backed) ==
    IF Cardinality(m) < Dlo THEN GetPeers(t, D - Cardinality(m), Graftable(m, backed))
    ELSE {{}}

\* "do we have enough outboud peers?"
OutboundGrafts(t, m, backed) ==
    LET have == Cardinality(m \cap outbound)
    IN  IF Cardinality(m) >= Dlo /\ have < Dout
        THEN GetPeers(t, Dout - have, Graftable(m, backed) \cap outbound)
        ELSE {{}}

\* Opportunistic grafting, in a heartbeat whose turn it is.  The filter only asks
\* for a score above the median.
OpportunisticGrafts(t, m, backed, turn) ==
    IF ~ turn \/ Cardinality(m) <= 1 THEN {{}}
    ELSE UNION {IF score[x] < OpportunisticGraftThreshold
                THEN GetPeers(t, OpportunisticGraftPeers,
                              {p \in Peers \ (m \cup backed \cup direct) : score[p] > score[x]})
                ELSE {{}} : x \in {y \in m : IsMedian(m, y)}}

\* The negative members are pruned, the mesh is refilled or trimmed, then outbound
\* and opportunistic GRAFTs follow.  A pruned peer has a backoff from then on.
MeshOutcomes(t, backed, turn) ==
    LET neg == {p \in mesh[t] : score[p] < 0}
        m0  == mesh[t] \ neg
    IN  UNION {UNION {UNION {
            {[mesh  |-> k \cup g2 \cup g3,
              graft |-> g1 \cup g2 \cup g3,
              prune |-> neg \cup ((m0 \cup g1) \ k)] :
             g3 \in OpportunisticGrafts(t, k \cup g2, backed \cup mesh[t] \cup g1, turn)} :
             g2 \in OutboundGrafts(t, k, backed \cup mesh[t] \cup g1)} :
             k  \in Trimmed(m0 \cup g1)} :
             g1 \in Refill(t, m0, backed \cup neg)}

\* Faulty variant: nothing is erased
ClearBackoffNever(tick) == backoff

\* clearBackoff: entries expired for longer than the slack are erased
ClearBackoff(tick) ==
    IF tick % ClearBackoffTicks # 0 THEN backoff
    ELSE [t \in Topics |-> [p \in Peers |->
            IF backoff[t][p] < -BackoffSlack THEN Absent ELSE backoff[t][p]]]

\* The fanout of t after the heartbeat, for a topic whose fanout is kept
FanoutOutcomes(t) ==
    LET kept == {p \in fanout[t] \cap topics[t] : score[p] >= PublishThreshold}
        more == {p \in Peers \ (kept \cup direct) : score[p] >= PublishThreshold}
    IN  IF Cardinality(kept) >= D THEN {kept}
        ELSE {kept \cup g : g \in GetPeers(t, D - Cardinality(kept), more)}

\* emitGossip: the peers that can be sent an IHAVE, for the meshes m and fanouts f
GossipTargets(m, fts, f) ==
    {p \in MeshPeers \ direct : /\ score[p] >= GossipThreshold
                                /\ \E t \in joined \cup fts : p \in topics[t] \ (m[t] \cup f[t])}

\* sendGraftPrune, then flush, for one peer.  The last loop of flush sends what is
\* still pending as it is.
HeartbeatLinks(p, out, gossip, m) ==
    LET sent  == IF out # NoCtl THEN SendRPC(p, link[p], out, gossip, FALSE, m) ELSE {link[p]}
        flush == IF out = NoCtl /\ gossip
                 THEN UNION {SendRPC(p, l, NoCtl, FALSE, FALSE, m) : l \in sent} ELSE sent
    IN  UNION {IF l.control = NoCtl THEN {l}
               ELSE SendRPC(p, [l EXCEPT !.control = NoCtl], l.control, FALSE, FALSE, m) :
                 l \in flush}

-----------------------------------------------------------------------------
(* The event handlers.                                                     *)

\* All permanently connected peers are up, nothing was announced yet.
Init ==
    /\ topics = [t \in Topics |-> {}]
    /\ hasQueue = Peers \ ChurnPeers
    /\ inbound = Peers \ ChurnPeers
    /\ peers = Peers \ ChurnPeers
    /\ outbound = OutboundInit
    /\ direct = DirectInit
    /\ joined = {}
    /\ mesh = [t \in Topics |-> {}]
    /\ fanoutTopics = {}
    /\ fanout = [t \in Topics |-> {}]
    /\ lastpub = [t \in Topics |-> -1]
    /\ backoff = [t \in Topics |-> [p \in Peers |-> Absent]]
    /\ score = [p \in Peers |-> 0]
    /\ ticks = 0
    /\ link = [p \in LaggingPeers |-> EmptyLink]

\* Faulty variant: all of them
FanoutSurvivorsAll(t) == fanout[t]

\* The members a new mesh takes over from the fanout.
FanoutSurvivors(t) == {p \in fanout[t] : score[p] >= 0 /\ p \notin InBackoff(t)}

\* The peers a new mesh is made of; a fanout that has D survivors asks for no more.
JoinMeshes(t) ==
    LET base == FanoutSurvivors(t)
    IN  IF t \in fanoutTopics /\ Cardinality(base) >= D THEN {base}
        ELSE {base \cup g : g \in GetPeers(t, D - Cardinality(base),
                                           Graftable(base, InBackoff(t)))}

\* Faulty variant: the fanout stays
FanoutAfterJoinKept(t) == fanoutTopics

\* Join deletes the fanout of the topic
FanoutAfterJoin(t) == fanoutTopics \ {t}

\* The first subscription or relay of t: announce, then Join
JoinTopic(t) ==
    /\ t \notin joined
    /\ joined' = joined \cup {t}
    /\ \E m \in JoinMeshes(t) : mesh' = [mesh EXCEPT ![t] = m]
    /\ fanoutTopics' = FanoutAfterJoin(t)
    /\ fanout' = [fanout EXCEPT ![t] = {}]
    /\ lastpub' = IF t \in fanoutTopics THEN [lastpub EXCEPT ![t] = -1] ELSE lastpub
    /\ link' \in LinkChoices([p \in LaggingPeers |->
                    IF p \notin mesh'[t] THEN Announce(p, link[p])
                    ELSE UNION {SendRPC(p, l, Graft({t}), FALSE, FALSE, mesh') :
                                  l \in Announce(p, link[p])}])
    /\ UNCHANGED <<subVars, peerVars, direct, backoff, score, ticks>>

\* The peers Leave backs off
LeaveBackoff(t) == AddBackoff(backoff[t], mesh[t], UnsubscribeBackoff)

\* The last subscription or relay of t is gone: announce, then Leave
LeaveTopic(t) ==
    /\ t \in joined
    /\ joined' = joined \ {t}
    /\ mesh' = [mesh EXCEPT ![t] = {}]
    /\ backoff' = [backoff EXCEPT ![t] = LeaveBackoff(t)]
    /\ link' \in LinkChoices([p \in LaggingPeers |->
                    IF p \notin mesh[t] THEN Announce(p, link[p])
                    ELSE UNION {SendRPC(p, l, Prune({t}), FALSE, FALSE, mesh') :
                                  l \in Announce(p, link[p])}])
    /\ UNCHANGED <<subVars, peerVars, direct, fanVars, score, ticks>>

\* handleIncomingRPC: p subscribes to or unsubscribes from t
HandleSubscription(p, t, sub) ==
    /\ p \in inbound
    /\ topics' = [topics EXCEPT ![t] = IF sub THEN @ \cup {p} ELSE @ \ {p}]
    /\ topics' # topics
    /\ UNCHANGED <<inbound, peerVars, direct, meshVars, fanVars, backoff, score, ticks, link>>

\* AcceptFrom, as far as control messages are concerned
AcceptControl(p) == p \in direct \/ score[p] >= GraylistThreshold

\* The topics handleGraft considers at all
GraftKnown(p, T) == {t \in T : <<p, t>> \notin Rejected /\ t \in joined /\ p \notin mesh[t]}

\* Faulty variants: one of the tests is missing
GraftRefusedIgnoringBackoff(p, T) ==
    {t \in GraftKnown(p, T) : p \in direct \/ score[p] < 0
                              \/ (Cardinality(mesh[t]) >= Dhi /\ p \notin outbound)}
GraftRefusedIgnoringDirect(p, T) ==
    {t \in GraftKnown(p, T) : Active(t, p) \/ score[p] < 0
                              \/ (Cardinality(mesh[t]) >= Dhi /\ p \notin outbound)}
GraftRefusedNoCap(p, T) ==
    {t \in GraftKnown(p, T) : p \in direct \/ Active(t, p) \/ score[p] < 0}

\* ... and those it turns down
GraftRefused(p, T) ==
    {t \in GraftKnown(p, T) :
        \/ p \in direct
        \/ Active(t, p)
        \/ score[p] < 0
        \/ (Cardinality(mesh[t]) >= Dhi /\ p \notin outbound)}

\* HandleRPC with the GRAFTs and PRUNEs of one RPC from p; interval is the backoff
\* its PRUNEs ask for and reply says whether IHAVE or IWANT also get an answer.
\* GRAFTs are handled before PRUNEs, a direct peer is refused without backoff.
HandleControl(p, graft, prune, interval, reply) ==
    LET refused == GraftRefused(p, graft)
        pruned  == prune \cap joined
    IN  /\ p \in inbound
        /\ AcceptControl(p)
        /\ mesh' = [t \in Topics |->
              IF t \in pruned THEN mesh[t] \ {p}
              ELSE IF t \in GraftKnown(p, graft) \ refused THEN mesh[t] \cup {p}
              ELSE mesh[t]]
        /\ backoff' = [t \in Topics |->
              AddBackoff(AddBackoff(backoff[t], IF t \in refused /\ p \notin direct
                                                THEN {p} ELSE {}, PruneBackoff),
                         IF t \in pruned THEN {p} ELSE {}, interval)]
        /\ link' \in LinkChoices([q \in LaggingPeers |->
              IF q = p /\ (refused # {} \/ reply)
              THEN SendRPC(p, link[p], Prune(refused), FALSE, FALSE, mesh')
              ELSE {link[q]}])
        /\ UNCHANGED <<subVars, peerVars, direct, joined, fanVars, score, ticks>>

\* The peers a message is published to, for the mesh or fanout gmap
ToSend(t, local, gmap) ==
    IF FloodPublish /\ local
    THEN {p \in topics[t] : p \in direct \/ score[p] >= PublishThreshold}
    ELSE (direct \cap topics[t]) \cup gmap
           \cup {p \in topics[t] \ MeshPeers : score[p] >= PublishThreshold}

\* getFanoutPeersForPublishing
FanoutForPublishing(t) ==
    IF fanout[t] # {} THEN {fanout[t]}
    ELSE GetPeers(t, D, {p \in Peers \ direct : score[p] >= PublishThreshold})

\* Publish of a message of t: our own, or one that passed validation.  skip are the
\* peers left out as its source or author, or because of an IDONTWANT or partial
\* messages.
Publish(t, local, skip) ==
    /\ topics[t] # {}
    /\ \E gmap \in IF t \in joined \/ (FloodPublish /\ local) THEN {mesh[t]}
                   ELSE FanoutForPublishing(t) :
        /\ IF t \in joined \/ (FloodPublish /\ local) THEN UNCHANGED fanVars
           ELSE /\ fanoutTopics' = IF gmap = {} THEN fanoutTopics ELSE fanoutTopics \cup {t}
                /\ fanout' = [fanout EXCEPT ![t] = gmap]
                /\ lastpub' = [lastpub EXCEPT ![t] = 0]
        /\ link' \in LinkChoices([p \in LaggingPeers |->
              IF p \in ToSend(t, local, gmap) \ skip
              THEN SendRPC(p, link[p], NoCtl, FALSE, FALSE, mesh) ELSE {link[p]}])
    /\ UNCHANGED <<subVars, peerVars, direct, meshVars, backoff, score, ticks>>

\* Preprocess: an IDONTWANT, ahead of what is queued, to the mesh of t
Preprocess(t, skip) ==
    /\ (mesh[t] \cap LaggingPeers) \ skip # {}
    /\ link' \in LinkChoices([p \in LaggingPeers |->
          IF p \in (mesh[t] \cap MeshPeers) \ skip
          THEN SendRPC(p, link[p], NoCtl, FALSE, TRUE, mesh) ELSE {link[p]}])
    /\ UNCHANGED <<subVars, peerVars, direct, meshVars, fanVars, backoff, score, ticks>>

TickPeriod == ClearBackoffTicks * OpportunisticGraftTicks

\* heartbeat
Heartbeat ==
    LET tick   == (ticks + 1) % TickPeriod
        b      == ClearBackoff(tick)
        turn   == tick % OpportunisticGraftTicks = 0
        mo     == [t \in joined |->
                     MeshOutcomes(t, {p \in Peers : b[t][p] # Absent}, turn)]
        alive  == {t \in Topics : lastpub[t] <= FanoutTTL}
        fts    == fanoutTopics \cap alive
        fo     == [t \in fts |-> FanoutOutcomes(t)]
    IN  /\ ticks' = tick
        /\ fanoutTopics' = fts
        /\ lastpub' = [t \in Topics |-> IF t \in alive THEN lastpub[t] ELSE -1]
        /\ \E f \in [fts -> UNION {fo[t] : t \in fts}] :
            /\ \A t \in fts : f[t] \in fo[t]
            /\ fanout' = [t \in Topics |-> IF t \in fts THEN f[t] ELSE {}]
        /\ \E o \in [joined -> UNION {mo[t] : t \in joined}] :
            /\ \A t \in joined : o[t] \in mo[t]
            /\ mesh' = [t \in Topics |-> IF t \in joined THEN o[t].mesh ELSE {}]
            /\ backoff' = [t \in Topics |->
                 IF t \in joined THEN AddBackoff(b[t], o[t].prune, PruneBackoff) ELSE b[t]]
            /\ \E gossip \in SUBSET (GossipTargets(mesh', fts, fanout') \cap LaggingPeers) :
                 link' \in LinkChoices([p \in LaggingPeers |->
                   HeartbeatLinks(p, [graft |-> {t \in joined : p \in o[t].graft},
                                      prune |-> {t \in joined : p \in o[t].prune}],
                                  p \in gossip, mesh')])
        /\ UNCHANGED <<subVars, peerVars, direct, joined, score>>

\* Time passes
Tick ==
    /\ backoff' = [t \in Topics |-> [p \in Peers |->
          IF backoff[t][p] = Absent THEN Absent ELSE Larger(backoff[t][p] - 1, Expired)]]
    /\ lastpub' = [t \in Topics |->
          IF lastpub[t] \in 0 .. FanoutTTL THEN lastpub[t] + 1 ELSE lastpub[t]]
    /\ UNCHANGED <<subVars, peerVars, direct, meshVars, fanoutTopics, fanout, score, ticks, link>>

\* The score of p changes, by its conduct, a penalty or decay
ScoreChange(p, s) ==
    /\ score[p] # s
    /\ score' = [score EXCEPT ![p] = s]
    /\ UNCHANGED <<subVars, peerVars, direct, meshVars, fanVars, backoff, ticks, link>>

\* AddDirectPeer and RemoveDirectPeer
AddDirectPeer(p) ==
    /\ direct' = direct \cup {p}
    /\ UNCHANGED <<subVars, peerVars, meshVars, fanVars, backoff, score, ticks, link>>

RemoveDirectPeer(p) ==
    /\ direct' = direct \ {p}
    /\ UNCHANGED <<subVars, peerVars, meshVars, fanVars, backoff, score, ticks, link>>

\* The writer goroutine of p sends one RPC
WriteRPC(p) ==
    /\ p \in peers /\ p \in hasQueue
    /\ Backlog(link[p]) > 0
    /\ link' = [link EXCEPT ![p] = Written(@, 1)]
    /\ UNCHANGED <<subVars, peerVars, direct, meshVars, fanVars, backoff, score, ticks>>

-----------------------------------------------------------------------------
(* The streams of a peer (the interleavings that lead to these events are  *)
(* in PeerLifecycle and InboundStreams).                                   *)

WithLink(p, lk) == IF p \in LaggingPeers THEN [link EXCEPT ![p] = lk] ELSE link

\* handlePendingPeers: p gets a queue, and a goroutine opens a stream
NewPeer(p) ==
    /\ p \notin hasQueue
    /\ hasQueue' = hasQueue \cup {p}
    /\ UNCHANGED <<subVars, peers, outbound, direct, meshVars, fanVars, backoff, score, ticks, link>>

\* newPeerStream, OnNewOutboundStream
NewOutboundStream(p, dialled) ==
    /\ p \in hasQueue
    /\ peers' = peers \cup {p}
    /\ outbound' = IF dialled THEN outbound \cup {p} ELSE outbound \ {p}
    /\ UNCHANGED <<subVars, hasQueue, direct, meshVars, fanVars, backoff, score, ticks, link>>

\* newPeerError: no stream could be opened
NewPeerError(p) ==
    /\ p \in hasQueue
    /\ hasQueue' = hasQueue \ {p}
    /\ link' = IF p \in LaggingPeers
               THEN WithLink(p, [EmptyLink EXCEPT !.control = link[p].control]) ELSE link
    /\ UNCHANGED <<subVars, peers, outbound, direct, meshVars, fanVars, backoff, score, ticks>>

\* handleDeadPeers and OnClosedOutboundStream; a peer that is still connected gets
\* a new queue at once
DeadPeer(p, respawn) ==
    /\ p \in hasQueue
    /\ hasQueue' = IF respawn THEN hasQueue ELSE hasQueue \ {p}
    /\ topics' = [t \in Topics |-> topics[t] \ {p}]
    /\ peers' = peers \ {p}
    /\ outbound' = outbound \ {p}
    /\ mesh' = [t \in Topics |-> mesh[t] \ {p}]
    /\ fanout' = [t \in Topics |-> fanout[t] \ {p}]
    /\ link' = WithLink(p, EmptyLink)
    /\ UNCHANGED <<inbound, direct, joined, fanoutTopics, lastpub, backoff, score, ticks>>

\* handleNewStream: p opens a stream to us
NewIncomingStream(p) ==
    /\ p \notin inbound
    /\ inbound' = inbound \cup {p}
    /\ UNCHANGED <<topics, peerVars, direct, meshVars, fanVars, backoff, score, ticks, link>>

\* onClosedIncomingStream
ClosedIncomingStream(p) ==
    /\ p \in inbound
    /\ inbound' = inbound \ {p}
    /\ topics' = [t \in Topics |-> topics[t] \ {p}]
    /\ UNCHANGED <<peerVars, direct, meshVars, fanVars, backoff, score, ticks, link>>

-----------------------------------------------------------------------------
LocalNext ==
    \/ \E t \in Topics : JoinTopic(t) \/ LeaveTopic(t)
    \/ \E t \in Topics, local \in BOOLEAN, skip \in SUBSET LaggingPeers :
          Publish(t, local, skip)
    \/ \E t \in Topics, skip \in SUBSET LaggingPeers : Preprocess(t, skip)
    \/ \E p \in DirectCandidates : AddDirectPeer(p) \/ RemoveDirectPeer(p)
    \/ \E p \in LaggingPeers : WriteRPC(p)

RemoteNext ==
    \/ \E p \in Peers, t \in Topics, sub \in BOOLEAN : HandleSubscription(p, t, sub)
    \/ \E p \in Peers, graft, prune \in SUBSET Topics,
          interval \in PeerBackoffs \cup {PruneBackoff} :
             \E reply \in IF p \in LaggingPeers THEN BOOLEAN ELSE {FALSE} :
                HandleControl(p, graft, prune, interval, reply)
    \/ \E p \in Peers, s \in Scores : ScoreChange(p, s)

StreamNext ==
    \E p \in ChurnPeers :
        \/ NewPeer(p)
        \/ \E dialled \in BOOLEAN : NewOutboundStream(p, dialled)
        \/ NewPeerError(p)
        \/ \E respawn \in BOOLEAN : DeadPeer(p, respawn)
        \/ NewIncomingStream(p)
        \/ ClosedIncomingStream(p)

Next == LocalNext \/ RemoteNext \/ StreamNext \/ Heartbeat \/ Tick

Spec == Init /\ [][Next]_vars

\* The heartbeat timer and the clock never stop.
FairSpec == Spec /\ WF_vars(Heartbeat) /\ WF_vars(Tick)

-----------------------------------------------------------------------------
(* Properties.                                                             *)

\* The types of the state kept by the router and by PubSub, and the bound of the
\* send queues.
TypeOK ==
    /\ topics \in [Topics -> SUBSET Peers]
    /\ hasQueue \subseteq Peers
    /\ inbound \subseteq Peers
    /\ peers \subseteq Peers
    /\ outbound \subseteq Peers
    /\ direct \subseteq Peers
    /\ joined \subseteq Topics
    /\ mesh \in [Topics -> SUBSET Peers]
    /\ fanoutTopics \subseteq Topics
    /\ fanout \in [Topics -> SUBSET Peers]
    /\ lastpub \in [Topics -> -1 .. FanoutTTL + 1]
    /\ backoff \in [Topics -> [Peers -> Absent .. MaxBackoff]]
    /\ score \in [Peers -> Scores]
    /\ ticks \in 0 .. TickPeriod - 1
    /\ link \in [LaggingPeers -> Link]
    /\ \A p \in LaggingPeers : Backlog(link[p]) <= QueueSize

\* A peer that we are backing off is never in the mesh of that topic: whoever asked
\* for the backoff (heartbeat, Leave, handlePrune or a refused GRAFT), no GRAFT of
\* ours or of the peer brings it back before it expires.
BackoffRespected ==
    \A t \in Topics : \A p \in mesh[t] : ~ Active(t, p)

\* A topic has a mesh or a fanout, never both, and a fanout is always on the clock
\* of its last publish, so that the heartbeat will expire it.
FanoutExclusive ==
    /\ \A t \in Topics : t \notin joined => mesh[t] = {}
    /\ \A t \in Topics : t \notin fanoutTopics => fanout[t] = {}
    /\ \A t \in fanoutTopics : t \notin joined /\ lastpub[t] # -1

\* No fanout holds a peer that the peer filter refuses: Join moves a fanout into the
\* mesh without asking the filter again.
FanoutFiltered ==
    \A t \in Topics : \A p \in fanout[t] : <<p, t>> \notin Rejected

\* p enters the mesh of t in this step
Enters(p, t) == p \in mesh'[t] \ mesh[t]

\* No step brings a peer into a mesh that has a negative score, is being backed off
\* or is refused by the peer filter, though opportunistic grafting never looks at
\* the sign of a score and Join starts from a fanout chosen under another threshold.
GraftEligible ==
    [][\A t \in Topics, p \in Peers :
          Enters(p, t) => score[p] >= 0 /\ ~ Active(t, p) /\ <<p, t>> \notin Rejected]_vars

\* No step brings a direct peer into a mesh, as long as the application leaves the set
\* of direct peers as it was configured: Join does not look at gs.direct when it takes
\* over a fanout.
NoDirectGraft ==
    [][\A t \in Topics, p \in Peers : Enters(p, t) => p \notin direct]_vars

\* The places that peers who dialled us can get: a GRAFT is accepted below Dhi, and
\* opportunistic grafting can only follow a heartbeat's trimming.
DialledUsBound ==
    Larger(Dhi, Larger(D, Dhi - 1) + (IF OpportunisticGraftThreshold > 0
                                      THEN OpportunisticGraftPeers ELSE 0))

\* Peers that dialled us cannot take over a mesh, whatever they send and however
\* their GRAFTs interleave with heartbeats and Join.
TakeoverBound ==
    \A t \in Topics : Cardinality(mesh[t] \ outbound) <= DialledUsBound

\* When an oversubscribed mesh is pruned, at least Dscore of the survivors score no
\* worse than any peer that is pruned, if Dscore + Dout <= D as by default: outbound
\* peers that are moved up to the first D may otherwise displace some of the best.
TrimKeepsBest ==
    \A t \in Topics : Cardinality(mesh[t]) >= Dhi =>
        \A K \in Trimmed(mesh[t]) : \A x \in mesh[t] \ K :
            Cardinality({p \in K : score[p] >= score[x]}) >= Smaller(Dscore, D)

\* The last word on t that p has been or will be told
LastTold(lk, t) == LastWord(lk.priority \o lk.normal, t, lk.told[t])

\* A PRUNE that waits for retry is not lost: unless p is back in the mesh or goes
\* away, it keeps waiting or becomes the last word queued for p.
PendingPruneKept ==
    [][\A p \in LaggingPeers, t \in Topics :
          (/\ t \in link[p].control.prune
           /\ p \notin mesh'[t]
           /\ p \in hasQueue \cap hasQueue' /\ p \in peers \cap peers')
          => t \in link'[p].control.prune \/ LastTold(link'[p], t) = "prune"]_vars

\* The entry of a peer in gs.backoff is erased eventually, so that it can be grafted
\* again, unless the backoff is renewed over and over.
BackoffEventuallyCleared ==
    \A t \in Topics, p \in Peers :
        \/ []<>(backoff[t][p] = Absent)
        \/ []<><<backoff'[t][p] > backoff[t][p]>>_vars

\* A joined mesh does not stay below Dlo while there are peers it may graft.
MeshRecovers ==
    \A t \in Topics :
        []<>~(/\ t \in joined
              /\ Cardinality(mesh[t]) < Dlo
              /\ GetPeers(t, 0, Graftable(mesh[t], InBackoff(t))) # {{}})
=============================================================================
