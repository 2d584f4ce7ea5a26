------------------------------ MODULE PeerScore ------------------------------
(***************************************************************************)
(* The peer score (score.go) for one topic: the statistics kept for each   *)
(* peer, the tracking of IP addresses and the score computed from them.    *)
(* What the deliveries of a message amount to is in MessageTracers; here   *)
(* they are calls of the mark functions.                                   *)
(*                                                                         *)
(* All operations hold the mutex of peerScore.  Counters are integers:     *)
(* decay halves them, rounding down, in place of a factor and DecayToZero. *)
(***************************************************************************)
EXTENDS Integers, FiniteSets, FiniteSetsExt

CONSTANTS
    Peers,          \* the remote peers
    Busy,           \* the peers that are grafted and send messages; others only come and go
    IPs,            \* the addresses they connect from
    Whitelisted,    \* IPColocationFactorWhitelist
    MaxConns,       \* bound: connections of a peer from one address
    FirstCaps, MeshCaps,    \* the values that FirstMessageDeliveriesCap and
                            \* MeshMessageDeliveriesCap take
    MeshMessageDeliveriesThreshold, MeshMessageDeliveriesActivation,
    TimeInMeshCap, TopicScoreCap,
    TimeInMeshWeight, FirstMessageDeliveriesWeight, MeshMessageDeliveriesWeight,
    MeshFailurePenaltyWeight, InvalidMessageDeliveriesWeight, TopicWeight,
    AppSpecificScore,   \* [Peers -> Int], times its weight
    IPColocationFactorThreshold, IPColocationFactorWeight,
    BehaviourPenaltyThreshold, BehaviourPenaltyWeight,
    RetainScore,
    MaxPenalty      \* bound: the counters without a cap stop here

\* PeerScoreParams.validate and TopicScoreParams.validate
ASSUME ScoreParamAssumption ==
    /\ IsFiniteSet(Peers) /\ Busy \subseteq Peers
    /\ IsFiniteSet(IPs) /\ Whitelisted \subseteq IPs
    /\ FirstCaps \subseteq Nat /\ MeshCaps \subseteq Nat
    /\ {MeshMessageDeliveriesThreshold, MeshMessageDeliveriesActivation, RetainScore,
        TimeInMeshCap, TopicScoreCap, IPColocationFactorThreshold,
        BehaviourPenaltyThreshold, MaxPenalty, MaxConns, TopicWeight,
        TimeInMeshWeight, FirstMessageDeliveriesWeight} \subseteq Nat
    /\ \A w \in {MeshMessageDeliveriesWeight, MeshFailurePenaltyWeight,
                 InvalidMessageDeliveriesWeight, IPColocationFactorWeight,
                 BehaviourPenaltyWeight} : w \in Int /\ w <= 0
    /\ AppSpecificScore \in [Peers -> Int]

VARIABLES
    conns,      \* [Peers -> [IPs -> Nat]]: the connections of each peer
    mesh,       \* the mesh that the router keeps for the topic
    known,      \* the domain of peerStats
    stats,      \* peerStats, NoStats for an unknown peer
    peerIPs,    \* the peers tracked for each address
    params      \* the caps of the topic, NoParams while it is not scored

scoreVars == <<conns, mesh, known, stats, peerIPs, params>>

NoParams == [first |-> 0, mesh |-> 0, scored |-> FALSE]
Scored(a, b) == [first |-> a, mesh |-> b, scored |-> TRUE]

\* One peer.  ips counts the connections per address at the last refresh; age is the
\* time since graftTime and away the time since expire was set.
NoIPs == [ip \in IPs |-> 0]
NoStats == [connected |-> FALSE, away |-> 0, ips |-> NoIPs,
            inMesh |-> FALSE, age |-> 0, meshTime |-> 0, active |-> FALSE,
            first |-> 0, meshDel |-> 0, failure |-> 0, invalid |-> 0, behaviour |-> 0]

AtMost(n, x) == IF x > n THEN n ELSE x

-----------------------------------------------------------------------------
(* The score.                                                              *)

\* The square of the mesh delivery deficit
Deficit(st) ==
    IF st.meshDel < MeshMessageDeliveriesThreshold
    THEN (MeshMessageDeliveriesThreshold - st.meshDel) * (MeshMessageDeliveriesThreshold - st.meshDel)
    ELSE 0

TopicScore(st) ==
    IF ~ params.scored THEN 0
    ELSE TopicWeight *
           (  (IF st.inMesh THEN AtMost(TimeInMeshCap, st.meshTime) * TimeInMeshWeight ELSE 0)
            + st.first * FirstMessageDeliveriesWeight
            + (IF st.active THEN Deficit(st) * MeshMessageDeliveriesWeight ELSE 0)
            + st.failure * MeshFailurePenaltyWeight
            + st.invalid * st.invalid * InvalidMessageDeliveriesWeight)

\* ipColocationFactor: an address counts once for every connection from it
IPColocationFactor(p) ==
    LET surplus(ip) == Cardinality(peerIPs[ip]) - IPColocationFactorThreshold
    IN  MapThenSumSet(LAMBDA ip :
            IF ip \notin Whitelisted /\ surplus(ip) > 0
            THEN stats[p].ips[ip] * surplus(ip) * surplus(ip) ELSE 0, IPs)

\* score: P1 to P7
Score(p) ==
    IF p \notin known THEN 0
    ELSE LET st     == stats[p]
             excess == st.behaviour - BehaviourPenaltyThreshold
         IN  (IF TopicScoreCap > 0 THEN AtMost(TopicScoreCap, TopicScore(st)) ELSE TopicScore(st))
             + AppSpecificScore[p]
             + IPColocationFactor(p) * IPColocationFactorWeight
             + (IF excess > 0 THEN excess * excess * BehaviourPenaltyWeight ELSE 0)

-----------------------------------------------------------------------------
(* Streams, connections and addresses.                                     *)

\* Faulty variant: the addresses that are gone are kept
SetIPsAddOnly(p, new, old) ==
    [ip \in IPs |-> IF new[ip] > 0 /\ old[ip] = 0 THEN peerIPs[ip] \cup {p} ELSE peerIPs[ip]]

\* setIPs: the tracker is told what changed
SetIPs(p, new, old) ==
    [ip \in IPs |-> IF new[ip] > 0 /\ old[ip] = 0 THEN peerIPs[ip] \cup {p}
                    ELSE IF new[ip] = 0 /\ old[ip] > 0 THEN peerIPs[ip] \ {p}
                    ELSE peerIPs[ip]]

\* removeIPs, for the peers S
RemoveIPs(S) ==
    [ip \in IPs |-> peerIPs[ip] \ {p \in S : stats[p].ips[ip] > 0}]

\* A connection of p from ip opens or closes.
Connect(p, ip) ==
    /\ conns[p][ip] < MaxConns
    /\ conns' = [conns EXCEPT ![p][ip] = @ + 1]
    /\ UNCHANGED <<mesh, known, stats, peerIPs, params>>

Disconnect(p, ip) ==
    /\ conns[p][ip] > 0
    /\ conns' = [conns EXCEPT ![p][ip] = @ - 1]
    /\ UNCHANGED <<mesh, known, stats, peerIPs, params>>

\* OnNewOutboundStream: getIPs reads the connections
OnNewOutboundStream(p) ==
    /\ known' = known \cup {p}
    /\ stats' = [stats EXCEPT ![p].connected = TRUE, ![p].away = 0, ![p].ips = conns[p]]
    /\ peerIPs' = SetIPs(p, conns[p], stats[p].ips)
    /\ UNCHANGED <<conns, mesh, params>>

\* Faulty variant: the deficit is forgotten and the peer stays in the mesh
RetainedAsIs(st) == [st EXCEPT !.first = 0, !.connected = FALSE, !.away = 0]

\* What is retained of a peer that leaves with a score that is not positive
Retained(st) ==
    [st EXCEPT !.first = 0,
               !.failure = IF params.scored /\ st.inMesh /\ st.active
                           THEN AtMost(MaxPenalty, @ + Deficit(st)) ELSE @,
               !.inMesh = FALSE, !.connected = FALSE, !.away = 0]

\* OnClosedOutboundStream, which the router answers by taking p out of the mesh
OnClosedOutboundStream(p) ==
    /\ IF p \notin known THEN UNCHANGED <<known, stats, peerIPs>>
       ELSE IF Score(p) > 0
       THEN /\ known' = known \ {p}
            /\ stats' = [stats EXCEPT ![p] = NoStats]
            /\ peerIPs' = RemoveIPs({p})
       ELSE /\ stats' = [stats EXCEPT ![p] = Retained(@)]
            /\ UNCHANGED <<known, peerIPs>>
    /\ mesh' = mesh \ {p}
    /\ UNCHANGED <<conns, params>>

\* refreshIPs
RefreshIPs ==
    LET C == {p \in known : stats[p].connected}
    IN  /\ stats' = [p \in Peers |-> IF p \in C THEN [stats[p] EXCEPT !.ips = conns[p]] ELSE stats[p]]
        /\ peerIPs' = [ip \in IPs |-> {p \in Peers :
               IF p \in C /\ (conns[p][ip] > 0) # (stats[p].ips[ip] > 0)
               THEN conns[p][ip] > 0 ELSE p \in peerIPs[ip]}]
        /\ UNCHANGED <<conns, mesh, known, params>>

-----------------------------------------------------------------------------
(* The mesh and the counters.                                              *)

\* st with the change f of a peer that is known, for a topic that is scored
Counted(p, st) ==
    stats' = IF p \in known /\ params.scored THEN [stats EXCEPT ![p] = st] ELSE stats

Graft(p) ==
    /\ p \notin mesh
    /\ mesh' = mesh \cup {p}
    /\ Counted(p, [stats[p] EXCEPT !.inMesh = TRUE, !.age = 0, !.meshTime = 0, !.active = FALSE])
    /\ UNCHANGED <<conns, known, peerIPs, params>>

Prune(p) ==
    /\ p \in mesh
    /\ mesh' = mesh \ {p}
    /\ Counted(p, [stats[p] EXCEPT !.inMesh = FALSE,
           !.failure = IF stats[p].active THEN AtMost(MaxPenalty, @ + Deficit(stats[p])) ELSE @])
    /\ UNCHANGED <<conns, known, peerIPs, params>>

\* markFirstMessageDelivery, and markDuplicateMessageDelivery within the window
MarkFirstMessageDelivery(p) ==
    /\ Counted(p, [stats[p] EXCEPT !.first = AtMost(params.first, @ + 1),
           !.meshDel = IF stats[p].inMesh THEN AtMost(params.mesh, @ + 1) ELSE @])
    /\ UNCHANGED <<conns, mesh, known, peerIPs, params>>

MarkDuplicateMessageDelivery(p) ==
    /\ Counted(p, [stats[p] EXCEPT
           !.meshDel = IF stats[p].inMesh THEN AtMost(params.mesh, @ + 1) ELSE @])
    /\ UNCHANGED <<conns, mesh, known, peerIPs, params>>

MarkInvalidMessageDelivery(p) ==
    /\ Counted(p, [stats[p] EXCEPT !.invalid = AtMost(MaxPenalty, @ + 1)])
    /\ UNCHANGED <<conns, mesh, known, peerIPs, params>>

\* AddPenalty
AddPenalty(p) ==
    /\ p \in known
    /\ stats' = [stats EXCEPT ![p].behaviour = AtMost(MaxPenalty, @ + 1)]
    /\ UNCHANGED <<conns, mesh, known, peerIPs, params>>

\* The counters of a peer under new caps
Recapped(st, a, b) == [st EXCEPT !.first = AtMost(a, @), !.meshDel = AtMost(b, @)]

\* SetTopicScoreParams: lowering a cap lowers the counters
SetTopicScoreParams(a, b) ==
    /\ params' = Scored(a, b)
    /\ stats' = IF params.scored /\ (a < params.first \/ b < params.mesh)
                THEN [p \in Peers |-> IF p \in known THEN Recapped(stats[p], a, b) ELSE stats[p]]
                ELSE stats
    /\ UNCHANGED <<conns, mesh, known, peerIPs>>

\* The topic counters of a connected peer decay, and its time in the mesh is updated.
Decayed(st) ==
    LET t == IF ~ params.scored THEN st
             ELSE [st EXCEPT !.first = @ \div 2, !.meshDel = @ \div 2,
                             !.failure = @ \div 2, !.invalid = @ \div 2,
                             !.meshTime = IF st.inMesh THEN st.age ELSE @,
                             !.active = @ \/ (st.inMesh /\ st.age > MeshMessageDeliveriesActivation)]
    IN  [t EXCEPT !.behaviour = @ \div 2]

\* Faulty variant: a peer that is away decays as well
RefreshScoresAll ==
    LET gone == {p \in known : ~ stats[p].connected /\ stats[p].away > RetainScore}
    IN  /\ known' = known \ gone
        /\ stats' = [p \in Peers |-> IF p \in gone THEN NoStats
                                     ELSE IF p \in known THEN Decayed(stats[p]) ELSE stats[p]]
        /\ peerIPs' = RemoveIPs(gone)
        /\ UNCHANGED <<conns, mesh, params>>

\* refreshScores: what is retained too long is thrown away
RefreshScores ==
    LET gone == {p \in known : ~ stats[p].connected /\ stats[p].away > RetainScore}
    IN  /\ known' = known \ gone
        /\ stats' = [p \in Peers |->
              IF p \in gone THEN NoStats
              ELSE IF p \in known /\ stats[p].connected THEN Decayed(stats[p]) ELSE stats[p]]
        /\ peerIPs' = RemoveIPs(gone)
        /\ UNCHANGED <<conns, mesh, params>>

\* Time passes
ScoreTick ==
    /\ stats' = [p \in Peers |-> [stats[p] EXCEPT
          !.age  = IF stats[p].inMesh THEN AtMost(MeshMessageDeliveriesActivation + 1, @ + 1) ELSE @,
          !.away = IF p \in known /\ ~ stats[p].connected THEN AtMost(RetainScore + 1, @ + 1) ELSE @]]
    /\ UNCHANGED <<conns, mesh, known, peerIPs, params>>

-----------------------------------------------------------------------------
ScoreInit ==
    /\ conns = [p \in Peers |-> NoIPs]
    /\ mesh = {}
    /\ known = {}
    /\ stats = [p \in Peers |-> NoStats]
    /\ peerIPs = [ip \in IPs |-> {}]
    /\ params \in {NoParams} \cup {Scored(a, b) : a \in FirstCaps, b \in MeshCaps}

ScoreNext ==
    \/ \E p \in Peers, ip \in IPs : Connect(p, ip) \/ Disconnect(p, ip)
    \/ \E p \in Peers : OnNewOutboundStream(p) \/ OnClosedOutboundStream(p)
    \/ \E p \in Busy :
          \/ Graft(p) \/ Prune(p)
          \/ MarkFirstMessageDelivery(p) \/ MarkDuplicateMessageDelivery(p)
          \/ MarkInvalidMessageDelivery(p) \/ AddPenalty(p)
    \/ \E a \in FirstCaps, b \in MeshCaps : SetTopicScoreParams(a, b)
    \/ RefreshScores \/ RefreshIPs \/ ScoreTick

-----------------------------------------------------------------------------
(* Properties.                                                             *)

\* The colocation tracker knows exactly the addresses recorded for the peers that have
\* statistics, connected or retained: none leaks when a record is dropped or retained,
\* an address goes away or a second connection from it closes.
IPsConsistent ==
    \A ip \in IPs : peerIPs[ip] = {p \in known : stats[p].ips[ip] > 0}

\* A peer is in the mesh for the score only if it is for the router: leaving, pruning
\* and coming back leave no time in the mesh and no delivery deficit behind.
MeshAgrees == \A p \in known : stats[p].inMesh => p \in mesh

\* What is held against a peer for its conduct in the mesh
Held(st) ==
    AtMost(MaxPenalty, st.failure + (IF params.scored /\ st.inMesh /\ st.active THEN Deficit(st) ELSE 0))

\* Leaving, being away and coming back never lessen what is held against a peer, unless
\* it leaves with a positive score or its retention period is over.
NoWhitewash ==
    [][\A p \in known :
          \/ stats[p].connected /\ stats'[p].connected
          \/ Score(p) > 0
          \/ stats[p].away > RetainScore
          \/ /\ p \in known'
             /\ Held(stats'[p]) >= Held(stats[p])
             /\ stats'[p].invalid >= stats[p].invalid
             /\ stats'[p].behaviour >= stats[p].behaviour]_scoreVars
=============================================================================
