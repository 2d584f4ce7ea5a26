---------------------------- MODULE Scoring_proofs ----------------------------
(***************************************************************************)
(* Proofs about PeerScore and PeerGater, for any peers, addresses, caps,   *)
(* thresholds, weights and retention times.                                *)
(***************************************************************************)
EXTENDS PeerScore, PeerGater, Inductions

ScoreSpec == ScoreInit /\ [][ScoreNext]_scoreVars
GaterSpec == GaterInit /\ [][GaterNext]_gaterVars

-----------------------------------------------------------------------------
(* The statistics of a peer.                                               *)

Penalties == 0 .. MaxPenalty
PeerStatistics ==
    [connected : BOOLEAN, away : Nat, ips : [IPs -> Nat],
     inMesh : BOOLEAN, age : Nat, meshTime : Nat, active : BOOLEAN,
     first : Nat, meshDel : Nat, failure : Penalties, invalid : Penalties, behaviour : Penalties]

LEMMA ScoreNumbers ==
    /\ MaxPenalty \in Nat /\ RetainScore \in Nat /\ Busy \subseteq Peers
    /\ MeshMessageDeliveriesActivation \in Nat /\ MeshMessageDeliveriesThreshold \in Nat
    /\ FirstCaps \subseteq Nat /\ MeshCaps \subseteq Nat
BY ScoreParamAssumption

LEMMA AtMostNat == ASSUME NEW n \in Nat, NEW x \in Nat PROVE AtMost(n, x) \in 0 .. n /\ AtMost(n, x) <= x
BY DEF AtMost

LEMMA DeficitNat == ASSUME NEW st \in PeerStatistics PROVE Deficit(st) \in Nat
<1>1. st.meshDel \in Nat
  BY DEF PeerStatistics
<1>2. ASSUME NEW x \in Nat PROVE x * x \in Nat
  OBVIOUS
<1>3. CASE st.meshDel < MeshMessageDeliveriesThreshold
  <2>1. MeshMessageDeliveriesThreshold - st.meshDel \in Nat
    BY <1>1, <1>3, ScoreNumbers
  <2> QED BY <1>2, <1>3, <2>1 DEF Deficit
<1> QED BY <1>3 DEF Deficit

LEMMA RetainedStats ==
    ASSUME NEW st \in PeerStatistics
    PROVE  /\ Retained(st) \in PeerStatistics
           /\ Retained(st).ips = st.ips /\ Retained(st).inMesh = FALSE
           /\ Retained(st).connected = FALSE
           /\ Retained(st).failure = IF params.scored /\ st.inMesh /\ st.active
                                     THEN AtMost(MaxPenalty, st.failure + Deficit(st)) ELSE st.failure
           /\ Retained(st).invalid = st.invalid /\ Retained(st).behaviour = st.behaviour
<1>1. (IF params.scored /\ st.inMesh /\ st.active
       THEN AtMost(MaxPenalty, st.failure + Deficit(st)) ELSE st.failure) \in Penalties
  <2>1. st.failure \in Penalties /\ st.failure + Deficit(st) \in Nat
    BY DeficitNat, ScoreNumbers DEF PeerStatistics, Penalties
  <2> QED BY <2>1, AtMostNat, ScoreNumbers DEF Penalties
<1> HIDE DEF Deficit, AtMost
<1> QED BY <1>1 DEF Retained, PeerStatistics

LEMMA DecayedStats ==
    ASSUME NEW st \in PeerStatistics
    PROVE  /\ Decayed(st) \in PeerStatistics
           /\ Decayed(st).ips = st.ips /\ Decayed(st).inMesh = st.inMesh
           /\ Decayed(st).connected = st.connected
<1>1. \A n \in Nat : n \div 2 \in Nat
  OBVIOUS
<1>2. \A n \in Penalties : n \div 2 \in Penalties
  BY ScoreNumbers DEF Penalties
<1> DEFINE h(n) == n \div 2
<1>3. (\A n \in Nat : h(n) \in Nat) /\ \A n \in Penalties : h(n) \in Penalties
  BY <1>1, <1>2
<1> DEFINE t == IF ~ params.scored THEN st
             ELSE [st EXCEPT !.first = h(@), !.meshDel = h(@),
                             !.failure = h(@), !.invalid = h(@),
                             !.meshTime = IF st.inMesh THEN st.age ELSE @,
                             !.active = @ \/ (st.inMesh /\ st.age > MeshMessageDeliveriesActivation)]
<1>4. Decayed(st) = [t EXCEPT !.behaviour = h(@)]
  BY DEF Decayed
<1> HIDE DEF h
<1>5. t \in PeerStatistics /\ t.ips = st.ips /\ t.inMesh = st.inMesh /\ t.connected = st.connected
  BY <1>3 DEF PeerStatistics
<1> HIDE DEF t
<1> QED BY <1>3, <1>4, <1>5 DEF PeerStatistics

LEMMA RecappedStats ==
    ASSUME NEW st \in PeerStatistics, NEW a \in Nat, NEW b \in Nat
    PROVE  LET u == Recapped(st, a, b) IN
           /\ u \in PeerStatistics
           /\ u.ips = st.ips /\ u.inMesh = st.inMesh /\ u.connected = st.connected
           /\ u.active = st.active /\ u.failure = st.failure /\ u.invalid = st.invalid
           /\ u.behaviour = st.behaviour
<1>0. st.first \in Nat /\ st.meshDel \in Nat
  BY DEF PeerStatistics
<1>1. AtMost(a, st.first) \in Nat /\ AtMost(b, st.meshDel) \in Nat
  BY <1>0 DEF AtMost
<1> HIDE DEF AtMost
<1> QED BY <1>1 DEF Recapped, PeerStatistics

-----------------------------------------------------------------------------
(* The inductive invariant of the score.                                   *)

STyped ==
    /\ stats \in [Peers -> PeerStatistics]
    /\ conns \in [Peers -> [IPs -> Nat]]
    /\ known \subseteq Peers
    /\ params.scored \in BOOLEAN /\ params.first \in Nat /\ params.mesh \in Nat

\* Nothing is left of a peer that is not known.
Forgotten == \A p \in Peers : p \notin known => stats[p].ips = NoIPs /\ ~ stats[p].inMesh

\* The score puts a peer in the mesh only of a topic that is scored, and there it stays.
Meshed == \A p \in Peers : stats[p].inMesh => p \in mesh /\ params.scored

\* A peer that is away has no deficit that grows: it left the mesh, or came back to it
\* without being active.
Dormant == \A p \in Peers : ~ stats[p].connected => ~ (stats[p].inMesh /\ stats[p].active)

SInv == STyped /\ Forgotten /\ Meshed /\ Dormant /\ IPsConsistent

\* u follows st in the statistics of a peer by a step that is neither decay nor the
\* opening or closing of a stream.
Onward(st, u) ==
    /\ u.connected = st.connected /\ u.ips = st.ips
    /\ u.inMesh /\ u.active => st.inMesh /\ st.active
    /\ u.failure >= st.failure /\ u.invalid >= st.invalid /\ u.behaviour >= st.behaviour

LEMMA OnwardSame == ASSUME NEW st \in PeerStatistics PROVE Onward(st, st)
BY ScoreNumbers DEF Onward, PeerStatistics, Penalties

LEMMA OneMore == ASSUME NEW n \in Penalties
    PROVE AtMost(MaxPenalty, n + 1) \in Penalties /\ AtMost(MaxPenalty, n + 1) >= n
BY ScoreNumbers DEF AtMost, Penalties

\* The counters of a peer, one after the other
LEMMA GraftStats ==
    ASSUME NEW st \in PeerStatistics
    PROVE  LET u == [st EXCEPT !.inMesh = TRUE, !.age = 0, !.meshTime = 0, !.active = FALSE] IN
              u \in PeerStatistics /\ Onward(st, u)
<1> DEFINE u == [st EXCEPT !.inMesh = TRUE, !.age = 0, !.meshTime = 0, !.active = FALSE]
<1>1. st.failure \in Nat /\ st.invalid \in Nat /\ st.behaviour \in Nat
  BY ScoreNumbers DEF PeerStatistics, Penalties
<1>2. u \in PeerStatistics
  BY DEF PeerStatistics
<1>3. u.connected = st.connected /\ u.ips = st.ips /\ u.active = FALSE
  BY DEF PeerStatistics
<1>4. u.failure = st.failure /\ u.invalid = st.invalid /\ u.behaviour = st.behaviour
  BY DEF PeerStatistics
<1> HIDE DEF u
<1>5. Onward(st, u)
  BY <1>1, <1>3, <1>4 DEF Onward
<1> QED BY <1>2, <1>5 DEF u

LEMMA PruneStats ==
    ASSUME NEW st \in PeerStatistics
    PROVE  LET u == [st EXCEPT !.inMesh = FALSE,
                        !.failure = IF st.active THEN AtMost(MaxPenalty, @ + Deficit(st)) ELSE @] IN
              u \in PeerStatistics /\ Onward(st, u) /\ ~ u.inMesh
<1>1. /\ st.failure \in Nat /\ st.invalid \in Nat /\ st.behaviour \in Nat /\ st.failure \in Penalties
      /\ st.failure <= MaxPenalty
  BY ScoreNumbers DEF PeerStatistics, Penalties
<1>2. PICK f \in Penalties : f = (IF st.active THEN AtMost(MaxPenalty, st.failure + Deficit(st)) ELSE st.failure)
                             /\ f >= st.failure
  <2>1. AtMost(MaxPenalty, st.failure + Deficit(st)) \in Penalties
        /\ AtMost(MaxPenalty, st.failure + Deficit(st)) >= st.failure
    BY <1>1, DeficitNat, ScoreNumbers DEF AtMost, Penalties
  <2> QED BY <1>1, <2>1
<1> DEFINE u == [st EXCEPT !.inMesh = FALSE, !.failure = f]
<1>3. u \in PeerStatistics
  BY DEF PeerStatistics
<1>4. u.connected = st.connected /\ u.ips = st.ips /\ u.inMesh = FALSE
  BY DEF PeerStatistics
<1>5. u.failure = f /\ u.invalid = st.invalid /\ u.behaviour = st.behaviour
  BY DEF PeerStatistics
<1> HIDE DEF u
<1>6. Onward(st, u) /\ ~ u.inMesh
  BY <1>1, <1>2, <1>4, <1>5 DEF Onward
<1> HIDE DEF u
<1> QED BY <1>2, <1>3, <1>6 DEF u

LEMMA DeliveryStats ==
    ASSUME NEW st \in PeerStatistics, NEW a \in Nat, NEW b \in Nat
    PROVE  LET u == [st EXCEPT !.first = a, !.meshDel = b] IN
              u \in PeerStatistics /\ Onward(st, u) /\ u.inMesh = st.inMesh
<1> DEFINE u == [st EXCEPT !.first = a, !.meshDel = b]
<1>1. st.failure \in Nat /\ st.invalid \in Nat /\ st.behaviour \in Nat
  BY ScoreNumbers DEF PeerStatistics, Penalties
<1>2. u \in PeerStatistics
  BY DEF PeerStatistics
<1>3. u.connected = st.connected /\ u.ips = st.ips /\ u.inMesh = st.inMesh /\ u.active = st.active
  BY DEF PeerStatistics
<1>4. u.failure = st.failure /\ u.invalid = st.invalid /\ u.behaviour = st.behaviour
  BY DEF PeerStatistics
<1> HIDE DEF u
<1>5. Onward(st, u)
  BY <1>1, <1>3, <1>4 DEF Onward
<1> QED BY <1>2, <1>3, <1>5 DEF u

LEMMA PenaltyStats ==
    ASSUME NEW st \in PeerStatistics
    PROVE  LET u == [st EXCEPT !.invalid = AtMost(MaxPenalty, @ + 1)]
               v == [st EXCEPT !.behaviour = AtMost(MaxPenalty, @ + 1)] IN
              /\ u \in PeerStatistics /\ Onward(st, u) /\ u.inMesh = st.inMesh
              /\ v \in PeerStatistics /\ Onward(st, v) /\ v.inMesh = st.inMesh
<1>1. st.failure \in Nat /\ st.invalid \in Penalties /\ st.behaviour \in Penalties
      /\ st.invalid \in Nat /\ st.behaviour \in Nat
  BY ScoreNumbers DEF PeerStatistics, Penalties
<1>2. PICK i \in Penalties, b \in Penalties :
         /\ i = AtMost(MaxPenalty, st.invalid + 1) /\ i >= st.invalid
         /\ b = AtMost(MaxPenalty, st.behaviour + 1) /\ b >= st.behaviour
  BY <1>1, OneMore
<1>3. [st EXCEPT !.invalid = i] \in PeerStatistics /\ Onward(st, [st EXCEPT !.invalid = i])
      /\ [st EXCEPT !.invalid = i].inMesh = st.inMesh
  BY <1>1, <1>2 DEF PeerStatistics, Onward
<1>4. [st EXCEPT !.behaviour = b] \in PeerStatistics /\ Onward(st, [st EXCEPT !.behaviour = b])
      /\ [st EXCEPT !.behaviour = b].inMesh = st.inMesh
  BY <1>1, <1>2 DEF PeerStatistics, Onward
<1> QED BY <1>2, <1>3, <1>4

\* Graft, Prune, the marks of deliveries and AddPenalty
LEMMA CounterSteps ==
    ASSUME SInv, NEW p \in Busy,
           \/ Graft(p) \/ Prune(p)
           \/ MarkFirstMessageDelivery(p) \/ MarkDuplicateMessageDelivery(p)
           \/ MarkInvalidMessageDelivery(p) \/ AddPenalty(p)
    PROVE  /\ UNCHANGED <<conns, known, peerIPs, params>>
           /\ stats' \in [Peers -> PeerStatistics]
           /\ \A q \in Peers : /\ Onward(stats[q], stats'[q])
                               /\ q \notin known => stats'[q] = stats[q]
                               /\ stats'[q].inMesh => q \in mesh' /\ params.scored
<1> DEFINE Good(u) == u \in PeerStatistics /\ Onward(stats[p], u)
           Goal == /\ stats' \in [Peers -> PeerStatistics]
                   /\ \A q \in Peers : /\ Onward(stats[q], stats'[q])
                                       /\ q \notin known => stats'[q] = stats[q]
                                       /\ stats'[q].inMesh => q \in mesh' /\ params.scored
<1>1. /\ stats \in [Peers -> PeerStatistics] /\ p \in Peers /\ stats[p] \in PeerStatistics
      /\ params.first \in Nat /\ params.mesh \in Nat /\ Meshed /\ Forgotten
  BY ScoreNumbers DEF SInv, STyped
<1>2. \A q \in Peers : Onward(stats[q], stats[q])
  BY <1>1, OnwardSame
<1>3. ASSUME NEW u, Good(u), u.inMesh => p \in mesh' /\ params.scored,
             stats' = stats \/ (p \in known /\ stats' = [stats EXCEPT ![p] = u]),
             \A q \in Peers : q # p /\ q \in mesh => q \in mesh',
             stats' = stats => (stats[p].inMesh => p \in mesh')
      PROVE  Goal
  <2>1. CASE stats' = stats
    BY <1>1, <1>2, <1>3, <2>1 DEF Meshed
  <2>2. CASE p \in known /\ stats' = [stats EXCEPT ![p] = u]
    <3>1. stats' \in [Peers -> PeerStatistics] /\ stats'[p] = u /\ \A q \in Peers : q # p => stats'[q] = stats[q]
      BY <1>1, <1>3, <2>2
    <3> QED BY <1>1, <1>2, <1>3, <2>2, <3>1 DEF Meshed
  <2> QED BY <1>3, <2>1, <2>2
<1>4. ASSUME Graft(p) PROVE Goal
  <2> DEFINE u == [stats[p] EXCEPT !.inMesh = TRUE, !.age = 0, !.meshTime = 0, !.active = FALSE]
  <2>1. Good(u)
    BY <1>1, GraftStats
  <2>2. mesh' = mesh \cup {p} /\ Counted(p, u)
    BY <1>4 DEF Graft
  <2> HIDE DEF u
  <2>3. CASE params.scored
    BY <1>3, <2>1, <2>2, <2>3 DEF Counted
  <2>4. CASE ~ params.scored
    <3>1. stats' = stats
      BY <2>2, <2>4 DEF Counted
    <3> QED BY <1>1, <1>2, <2>2, <3>1 DEF Meshed
  <2> QED BY <2>3, <2>4
<1>5. ASSUME Prune(p) PROVE Goal
  <2> DEFINE u == [stats[p] EXCEPT !.inMesh = FALSE,
                     !.failure = IF stats[p].active THEN AtMost(MaxPenalty, @ + Deficit(stats[p])) ELSE @]
  <2>1. Good(u) /\ ~ u.inMesh
    BY <1>1, PruneStats
  <2>2. mesh' = mesh \ {p} /\ Counted(p, u)
    BY <1>5 DEF Prune
  <2> HIDE DEF u
  <2>3. CASE p \in known /\ params.scored
    <3>1. stats' = [stats EXCEPT ![p] = u]
      BY <2>2, <2>3 DEF Counted
    <3>2. stats' \in [Peers -> PeerStatistics] /\ stats'[p] = u /\ \A q \in Peers : q # p => stats'[q] = stats[q]
      BY <1>1, <2>1, <3>1
    <3> QED BY <1>1, <1>2, <2>1, <2>2, <2>3, <3>2 DEF Meshed
  <2>4. CASE ~ (p \in known /\ params.scored)
    <3>1. stats' = stats
      BY <2>2, <2>4 DEF Counted
    <3>2. ~ stats[p].inMesh
      BY <1>1, <2>4 DEF Meshed, Forgotten
    <3> QED BY <1>1, <1>2, <2>2, <3>1, <3>2 DEF Meshed
  <2> QED BY <2>3, <2>4
<1>6. ASSUME NEW u, Good(u), u.inMesh = stats[p].inMesh, UNCHANGED mesh,
             stats' = stats \/ (p \in known /\ stats' = [stats EXCEPT ![p] = u])
      PROVE  Goal
  <2>1. /\ u.inMesh => p \in mesh' /\ params.scored
        /\ stats[p].inMesh => p \in mesh'
    BY <1>1, <1>6 DEF Meshed
  <2> HIDE DEF Goal, Good
  <2> QED BY <1>3, <1>6, <2>1
<1>7. ASSUME MarkFirstMessageDelivery(p) \/ MarkDuplicateMessageDelivery(p) PROVE Goal
  <2> DEFINE b == IF stats[p].inMesh THEN AtMost(params.mesh, stats[p].meshDel + 1) ELSE stats[p].meshDel
             a == AtMost(params.first, stats[p].first + 1)
             u == [stats[p] EXCEPT !.first = a, !.meshDel = b]
             v == [stats[p] EXCEPT !.meshDel = b]
             v1 == [stats[p] EXCEPT !.first = stats[p].first, !.meshDel = b]
  <2>1. stats[p].first \in Nat /\ stats[p].meshDel \in Nat
    BY <1>1 DEF PeerStatistics
  <2>2. a \in Nat /\ b \in Nat
    BY <1>1, <2>1 DEF AtMost
  <2>3. Counted(p, u) \/ Counted(p, v)
    BY <1>7 DEF MarkFirstMessageDelivery, MarkDuplicateMessageDelivery
  <2>4. UNCHANGED mesh
    BY <1>7 DEF MarkFirstMessageDelivery, MarkDuplicateMessageDelivery
  <2> HIDE DEF a, b
  <2>5. v = v1
    BY <1>1 DEF PeerStatistics
  <2>6. Good(u) /\ u.inMesh = stats[p].inMesh /\ Good(v1) /\ v1.inMesh = stats[p].inMesh
    BY <1>1, <2>1, <2>2, DeliveryStats
  <2> HIDE DEF u, v, v1, Good, Goal
  <2> QED BY <1>6, <2>3, <2>4, <2>5, <2>6 DEF Counted
<1>8. ASSUME MarkInvalidMessageDelivery(p) \/ AddPenalty(p) PROVE Goal
  <2> DEFINE u == [stats[p] EXCEPT !.invalid = AtMost(MaxPenalty, @ + 1)]
             v == [stats[p] EXCEPT !.behaviour = AtMost(MaxPenalty, @ + 1)]
  <2>1. Good(u) /\ u.inMesh = stats[p].inMesh /\ Good(v) /\ v.inMesh = stats[p].inMesh
    BY <1>1, PenaltyStats
  <2>2. UNCHANGED mesh /\ (Counted(p, u) \/ (p \in known /\ stats' = [stats EXCEPT ![p] = v]))
    BY <1>1, <1>8 DEF MarkInvalidMessageDelivery, AddPenalty
  <2> HIDE DEF u, v, Good, Goal
  <2> QED BY <1>6, <2>1, <2>2 DEF Counted
<1>9. UNCHANGED <<conns, known, peerIPs, params>>
  BY DEF Graft, Prune, MarkFirstMessageDelivery, MarkDuplicateMessageDelivery,
         MarkInvalidMessageDelivery, AddPenalty
<1> QED BY <1>4, <1>5, <1>7, <1>8, <1>9

\* Steps that count
LEMMA SOnward ==
    ASSUME SInv, UNCHANGED <<conns, known, peerIPs>>, stats' \in [Peers -> PeerStatistics],
           params'.scored \in BOOLEAN /\ params'.first \in Nat /\ params'.mesh \in Nat,
           \A q \in Peers : /\ Onward(stats[q], stats'[q])
                            /\ q \notin known => stats'[q].inMesh = stats[q].inMesh
                            /\ stats'[q].inMesh => q \in mesh' /\ params'.scored
    PROVE  SInv'
<1>1. STyped'
  BY DEF SInv, STyped
<1>2. \A q \in Peers : stats'[q].connected = stats[q].connected /\ stats'[q].ips = stats[q].ips
  BY DEF Onward
<1>3. Forgotten'
  BY <1>2 DEF SInv, Forgotten
<1>4. Meshed'
  BY DEF Meshed
<1>5. Dormant'
  BY DEF SInv, Dormant, Onward
<1>6. IPsConsistent'
  <2>1. known \subseteq Peers
    BY DEF SInv, STyped
  <2>2. ASSUME NEW ip \in IPs PROVE peerIPs'[ip] = {p \in known' : stats'[p].ips[ip] > 0}
    <3>1. peerIPs[ip] = {p \in known : stats[p].ips[ip] > 0}
      BY DEF SInv, IPsConsistent
    <3>2. \A p \in known : stats'[p].ips = stats[p].ips
      BY <1>2, <2>1
    <3> QED BY <3>1, <3>2
  <2> QED BY <2>2 DEF IPsConsistent
<1> QED BY <1>1, <1>3, <1>4, <1>5, <1>6 DEF SInv

\* Lowering the caps and the passage of time
LEMMA CapSteps ==
    ASSUME SInv, NEW a \in FirstCaps, NEW b \in MeshCaps, SetTopicScoreParams(a, b)
    PROVE  /\ UNCHANGED <<conns, known, peerIPs>> /\ stats' \in [Peers -> PeerStatistics]
           /\ \A q \in Peers : /\ Onward(stats[q], stats'[q])
                               /\ stats'[q].inMesh = stats[q].inMesh
<1>1. a \in Nat /\ b \in Nat /\ stats \in [Peers -> PeerStatistics]
  BY ScoreNumbers DEF SInv, STyped
<1>2. ASSUME NEW st \in PeerStatistics
      PROVE  /\ Recapped(st, a, b) \in PeerStatistics /\ Onward(st, Recapped(st, a, b))
             /\ Recapped(st, a, b).inMesh = st.inMesh
  <2>1. st.failure \in Nat /\ st.invalid \in Nat /\ st.behaviour \in Nat
    BY ScoreNumbers DEF PeerStatistics, Penalties
  <2> DEFINE u == Recapped(st, a, b)
  <2>2. /\ u \in PeerStatistics
        /\ u.ips = st.ips /\ u.inMesh = st.inMesh /\ u.connected = st.connected
        /\ u.active = st.active /\ u.failure = st.failure /\ u.invalid = st.invalid
        /\ u.behaviour = st.behaviour
    BY <1>1, RecappedStats
  <2> HIDE DEF u
  <2>3. Onward(st, u)
    BY <2>1, <2>2 DEF Onward
  <2> QED BY <2>2, <2>3 DEF u
<1>3. UNCHANGED <<conns, known, peerIPs>>
      /\ (stats' = stats \/ stats' = [p \in Peers |-> IF p \in known THEN Recapped(stats[p], a, b) ELSE stats[p]])
  BY DEF SetTopicScoreParams
<1>4. \A q \in Peers : Onward(stats[q], stats[q])
  BY <1>1, OnwardSame
<1> HIDE DEF Recapped
<1>5. CASE stats' = stats
  BY <1>1, <1>3, <1>4, <1>5
<1>6. CASE stats' = [p \in Peers |-> IF p \in known THEN Recapped(stats[p], a, b) ELSE stats[p]]
  <2>1. stats' \in [Peers -> PeerStatistics]
    BY <1>1, <1>2, <1>6
  <2>2. \A q \in Peers : stats'[q] = Recapped(stats[q], a, b) \/ stats'[q] = stats[q]
    BY <1>6
  <2> QED BY <1>1, <1>2, <1>3, <1>4, <2>1, <2>2
<1> QED BY <1>3, <1>5, <1>6

LEMMA TickSteps ==
    ASSUME SInv, ScoreTick
    PROVE  /\ UNCHANGED <<conns, known, peerIPs, mesh, params>>
           /\ stats' \in [Peers -> PeerStatistics]
           /\ \A q \in Peers : /\ Onward(stats[q], stats'[q])
                               /\ stats'[q].inMesh = stats[q].inMesh
<1>1. stats \in [Peers -> PeerStatistics]
  BY DEF SInv, STyped
<1>2. ASSUME NEW st \in PeerStatistics, NEW x \in Nat, NEW y \in Nat
      PROVE  LET u == [st EXCEPT !.age = x, !.away = y] IN
                u \in PeerStatistics /\ Onward(st, u) /\ u.inMesh = st.inMesh
  <2> DEFINE u == [st EXCEPT !.age = x, !.away = y]
  <2>1. st.failure \in Nat /\ st.invalid \in Nat /\ st.behaviour \in Nat
    BY ScoreNumbers DEF PeerStatistics, Penalties
  <2>2. u \in PeerStatistics
    BY DEF PeerStatistics
  <2>3. u.connected = st.connected /\ u.ips = st.ips /\ u.inMesh = st.inMesh /\ u.active = st.active
    BY DEF PeerStatistics
  <2>4. u.failure = st.failure /\ u.invalid = st.invalid /\ u.behaviour = st.behaviour
    BY DEF PeerStatistics
  <2> HIDE DEF u
  <2>5. Onward(st, u)
    BY <2>1, <2>3, <2>4 DEF Onward
  <2> QED BY <2>2, <2>3, <2>5 DEF u
<1> DEFINE X(p) == IF stats[p].inMesh THEN AtMost(MeshMessageDeliveriesActivation + 1, stats[p].age + 1)
                   ELSE stats[p].age
           Y(p) == IF p \in known /\ ~ stats[p].connected THEN AtMost(RetainScore + 1, stats[p].away + 1)
                   ELSE stats[p].away
<1>3. stats' = [p \in Peers |-> [stats[p] EXCEPT !.age = X(p), !.away = Y(p)]]
  BY DEF ScoreTick
<1>4. ASSUME NEW p \in Peers PROVE X(p) \in Nat /\ Y(p) \in Nat
  <2>1. stats[p].age \in Nat /\ stats[p].away \in Nat
    BY <1>1 DEF PeerStatistics
  <2> QED BY <2>1, ScoreNumbers DEF AtMost
<1> HIDE DEF X, Y
<1>5. ASSUME NEW p \in Peers
      PROVE  stats'[p] \in PeerStatistics /\ Onward(stats[p], stats'[p]) /\ stats'[p].inMesh = stats[p].inMesh
  <2>1. stats'[p] = [stats[p] EXCEPT !.age = X(p), !.away = Y(p)]
    BY <1>3
  <2>2. stats[p] \in PeerStatistics /\ X(p) \in Nat /\ Y(p) \in Nat
    BY <1>1, <1>4
  <2> DEFINE u == [stats[p] EXCEPT !.age = X(p), !.away = Y(p)]
  <2>3. u \in PeerStatistics /\ Onward(stats[p], u) /\ u.inMesh = stats[p].inMesh
    BY <1>2, <2>2
  <2> HIDE DEF u
  <2> QED BY <2>1, <2>3 DEF u
<1>6. stats' \in [Peers -> PeerStatistics]
  <2>1. stats' = [p \in Peers |-> stats'[p]]
    BY <1>3
  <2> QED BY <1>5, <2>1
<1> QED BY <1>5, <1>6 DEF ScoreTick

\* The connections that the host sees
LEMMA ConnSteps ==
    ASSUME SInv, NEW p \in Peers, NEW ip \in IPs, Connect(p, ip) \/ Disconnect(p, ip)
    PROVE  SInv'
<1>1. conns \in [Peers -> [IPs -> Nat]]
  BY DEF SInv, STyped
<1>2. PICK n \in Nat : conns' = [conns EXCEPT ![p] = [conns[p] EXCEPT ![ip] = n]]
  <2>1. conns[p][ip] \in Nat
    BY <1>1
  <2>2. CASE Connect(p, ip)
    <3>1. conns[p][ip] + 1 \in Nat
      BY <2>1
    <3> QED BY <1>1, <2>2, <3>1 DEF Connect
  <2>3. CASE Disconnect(p, ip)
    <3>1. conns[p][ip] - 1 \in Nat
      BY <2>1, <2>3 DEF Disconnect
    <3> QED BY <1>1, <2>3, <3>1 DEF Disconnect
  <2> QED BY <2>2, <2>3
<1>3. conns' \in [Peers -> [IPs -> Nat]]
  BY <1>1, <1>2
<1>4. UNCHANGED <<mesh, known, stats, peerIPs, params>>
  BY DEF Connect, Disconnect
<1> QED BY <1>3, <1>4 DEF SInv, STyped, Forgotten, Meshed, Dormant, IPsConsistent

\* OnNewOutboundStream: the addresses of the connections replace those on record.
LEMMA NewStreamSteps ==
    ASSUME SInv, NEW p \in Peers, OnNewOutboundStream(p)
    PROVE  /\ SInv'
           /\ stats'[p].failure = stats[p].failure /\ stats'[p].invalid = stats[p].invalid
           /\ stats'[p].behaviour = stats[p].behaviour
           /\ \A q \in Peers : q # p => stats'[q] = stats[q]
<1> DEFINE u == [stats[p] EXCEPT !.connected = TRUE, !.away = 0, !.ips = conns[p]]
<1>1. /\ stats \in [Peers -> PeerStatistics] /\ stats[p] \in PeerStatistics
      /\ conns[p] \in [IPs -> Nat] /\ stats[p].ips \in [IPs -> Nat]
  BY DEF SInv, STyped, PeerStatistics
<1>2. stats' = [stats EXCEPT ![p] = u] /\ known' = known \cup {p}
      /\ peerIPs' = SetIPs(p, conns[p], stats[p].ips) /\ UNCHANGED <<conns, mesh, params>>
  BY <1>1 DEF OnNewOutboundStream
<1>3. u \in PeerStatistics
  BY <1>1 DEF PeerStatistics
<1>4. u.connected = TRUE /\ u.ips = conns[p] /\ u.inMesh = stats[p].inMesh
  BY <1>1 DEF PeerStatistics
<1>5. u.failure = stats[p].failure /\ u.invalid = stats[p].invalid /\ u.behaviour = stats[p].behaviour
  BY <1>1 DEF PeerStatistics
<1> HIDE DEF u
<1>6. /\ stats' \in [Peers -> PeerStatistics] /\ stats'[p] = u
      /\ \A q \in Peers : q # p => stats'[q] = stats[q]
  BY <1>1, <1>2, <1>3
<1>7. STyped' /\ Forgotten' /\ Meshed' /\ Dormant'
  <2>1. STyped'
    BY <1>2, <1>6 DEF SInv, STyped
  <2>2. Forgotten'
    BY <1>2, <1>6 DEF SInv, Forgotten
  <2>3. Meshed'
    BY <1>2, <1>4, <1>6 DEF SInv, Meshed
  <2>4. Dormant'
    BY <1>4, <1>6 DEF SInv, Dormant
  <2> QED BY <2>1, <2>2, <2>3, <2>4
<1>8. ASSUME NEW ip \in IPs PROVE peerIPs'[ip] = {q \in known' : stats'[q].ips[ip] > 0}
  <2>1. peerIPs[ip] = {q \in known : stats[q].ips[ip] > 0} /\ known \subseteq Peers
    BY DEF SInv, IPsConsistent, STyped
  <2>2. p \notin known => stats[p].ips[ip] = 0
    BY DEF SInv, Forgotten, NoIPs
  <2>3. conns[p][ip] \in Nat /\ stats[p].ips[ip] \in Nat
    BY <1>1
  <2>4. peerIPs'[ip] = IF conns[p][ip] > 0 /\ stats[p].ips[ip] = 0 THEN peerIPs[ip] \cup {p}
                       ELSE IF conns[p][ip] = 0 /\ stats[p].ips[ip] > 0 THEN peerIPs[ip] \ {p}
                       ELSE peerIPs[ip]
    BY <1>2 DEF SetIPs
  <2>5. stats'[p].ips[ip] = conns[p][ip]
    BY <1>4, <1>6
  <2>6. ASSUME NEW q PROVE q \in peerIPs'[ip] <=> q \in known' /\ stats'[q].ips[ip] > 0
    <3>1. CASE q = p
      BY <1>2, <2>1, <2>2, <2>3, <2>4, <2>5, <3>1
    <3>2. CASE q # p
      <4>1. q \in peerIPs'[ip] <=> q \in peerIPs[ip]
        BY <2>4, <3>2
      <4>2. q \in known' <=> q \in known
        BY <1>2, <3>2
      <4>3. q \in known => stats'[q] = stats[q]
        BY <1>6, <2>1, <3>2
      <4> QED BY <2>1, <4>1, <4>2, <4>3
    <3> QED BY <3>1, <3>2
  <2> QED BY <2>6
<1> QED BY <1>5, <1>6, <1>7, <1>8 DEF SInv, IPsConsistent

\* The tracker after the peers S are dropped
LEMMA Dropped ==
    ASSUME SInv, NEW S \in SUBSET known, known' = known \ S, peerIPs' = RemoveIPs(S),
           \A q \in known \ S : stats'[q].ips = stats[q].ips
    PROVE  IPsConsistent'
<1> SUFFICES ASSUME NEW ip \in IPs PROVE peerIPs'[ip] = {q \in known' : stats'[q].ips[ip] > 0}
  BY DEF IPsConsistent
<1>1. peerIPs[ip] = {q \in known : stats[q].ips[ip] > 0}
  BY DEF SInv, IPsConsistent
<1>2. peerIPs'[ip] = peerIPs[ip] \ {q \in S : stats[q].ips[ip] > 0}
  BY DEF RemoveIPs
<1> QED BY <1>1, <1>2

LEMMA NoStatsTyped == NoStats \in PeerStatistics /\ NoStats.ips = NoIPs /\ NoStats.inMesh = FALSE
<1>1. NoIPs \in [IPs -> Nat]
  BY DEF NoIPs
<1> HIDE DEF NoIPs
<1>2. NoStats \in PeerStatistics
  BY <1>1, ScoreNumbers DEF NoStats, PeerStatistics, Penalties
<1>3. NoStats.ips = NoIPs /\ NoStats.inMesh = FALSE
  BY DEF NoStats
<1> QED BY <1>2, <1>3

\* OnClosedOutboundStream: the record is dropped, or retained without the mesh.
LEMMA ClosedStreamSteps ==
    ASSUME SInv, NEW p \in Peers, OnClosedOutboundStream(p)
    PROVE  /\ SInv' /\ \A q \in Peers : q # p => stats'[q] = stats[q] /\ (q \in known => q \in known')
           /\ p \in known => Score(p) > 0 \/ (p \in known' /\ stats'[p] = Retained(stats[p]))
<1>1. stats \in [Peers -> PeerStatistics] /\ stats[p] \in PeerStatistics /\ known \subseteq Peers
  BY DEF SInv, STyped
<1>2. UNCHANGED <<conns, params>> /\ mesh' = mesh \ {p}
  BY DEF OnClosedOutboundStream
<1> HIDE DEF Score
<1>3. ASSUME NEW u \in PeerStatistics, stats' = [stats EXCEPT ![p] = u], ~ u.inMesh,
             known' \subseteq known, p \notin known' => u.ips = NoIPs,
             \A q \in Peers : q # p /\ q \in known => q \in known', IPsConsistent'
      PROVE  SInv' /\ stats'[p] = u /\ \A q \in Peers : q # p => stats'[q] = stats[q]
  <2>1. /\ stats' \in [Peers -> PeerStatistics] /\ stats'[p] = u
        /\ \A q \in Peers : q # p => stats'[q] = stats[q]
    BY <1>1, <1>3
  <2>2. STyped'
    BY <1>1, <1>2, <1>3, <2>1 DEF SInv, STyped
  <2>3. Forgotten'
    BY <1>3, <2>1 DEF SInv, Forgotten
  <2>4. Meshed'
    BY <1>2, <1>3, <2>1 DEF SInv, Meshed
  <2>5. Dormant'
    BY <1>3, <2>1 DEF SInv, Dormant
  <2> QED BY <1>3, <2>1, <2>2, <2>3, <2>4, <2>5 DEF SInv
<1>4. CASE p \notin known
  <2>1. UNCHANGED <<known, stats, peerIPs>>
    BY <1>4 DEF OnClosedOutboundStream
  <2>2. ~ stats[p].inMesh
    BY <1>4 DEF SInv, Forgotten
  <2>3. IPsConsistent'
    BY <2>1 DEF SInv, IPsConsistent
  <2>4. STyped' /\ Forgotten' /\ Dormant'
    BY <1>2, <2>1 DEF SInv, STyped, Forgotten, Dormant
  <2>5. Meshed'
    BY <1>2, <2>1, <2>2 DEF SInv, Meshed
  <2> QED BY <1>4, <2>1, <2>3, <2>4, <2>5 DEF SInv
<1>5. CASE p \in known /\ Score(p) > 0
  <2>1. known' = known \ {p} /\ stats' = [stats EXCEPT ![p] = NoStats] /\ peerIPs' = RemoveIPs({p})
    BY <1>5 DEF OnClosedOutboundStream
  <2>2. \A q \in known \ {p} : stats'[q].ips = stats[q].ips
    BY <1>1, <2>1
  <2>3. IPsConsistent'
    BY <1>5, <2>1, <2>2, Dropped
  <2> HIDE DEF NoStats
  <2> QED BY <1>3, <1>5, <2>1, <2>3, NoStatsTyped
<1>6. CASE p \in known /\ ~ (Score(p) > 0)
  <2> DEFINE u == Retained(stats[p])
  <2>1. stats' = [stats EXCEPT ![p] = u] /\ UNCHANGED <<known, peerIPs>>
    BY <1>6 DEF OnClosedOutboundStream
  <2>2. u \in PeerStatistics /\ u.ips = stats[p].ips /\ ~ u.inMesh
    BY <1>1, RetainedStats
  <2> HIDE DEF u
  <2>3. \A q \in known : stats'[q].ips = stats[q].ips
    BY <1>1, <2>1, <2>2
  <2>4. IPsConsistent'
    BY <2>1, <2>3 DEF SInv, IPsConsistent
  <2>5. SInv' /\ stats'[p] = u /\ \A q \in Peers : q # p => stats'[q] = stats[q]
    BY <1>3, <1>6, <2>1, <2>2, <2>4
  <2> QED BY <1>6, <2>1, <2>5 DEF u
<1> QED BY <1>4, <1>5, <1>6

\* refreshIPs
LEMMA RefreshIPsSteps ==
    ASSUME SInv, RefreshIPs
    PROVE  /\ SInv' /\ UNCHANGED known
           /\ \A q \in Peers : /\ stats'[q].connected = stats[q].connected
                               /\ ~ stats[q].connected => stats'[q] = stats[q]
<1> DEFINE C == {p \in known : stats[p].connected}
           U(p) == [stats[p] EXCEPT !.ips = conns[p]]
<1>1. stats \in [Peers -> PeerStatistics] /\ known \subseteq Peers /\ conns \in [Peers -> [IPs -> Nat]]
  BY DEF SInv, STyped
<1>2. /\ stats' = [p \in Peers |-> IF p \in C THEN U(p) ELSE stats[p]]
      /\ peerIPs' = [ip \in IPs |-> {p \in Peers :
               IF p \in C /\ (conns[p][ip] > 0) # (stats[p].ips[ip] > 0)
               THEN conns[p][ip] > 0 ELSE p \in peerIPs[ip]}]
      /\ UNCHANGED <<conns, mesh, known, params>>
  BY DEF RefreshIPs
<1>3. ASSUME NEW p \in Peers
      PROVE  /\ U(p) \in PeerStatistics /\ U(p).connected = stats[p].connected /\ U(p).ips = conns[p]
             /\ U(p).inMesh = stats[p].inMesh /\ U(p).active = stats[p].active
  BY <1>1 DEF PeerStatistics
<1> HIDE DEF U
<1>4. stats' \in [Peers -> PeerStatistics]
  BY <1>1, <1>2, <1>3
<1>5. ASSUME NEW p \in Peers
      PROVE  /\ stats'[p].connected = stats[p].connected
             /\ stats'[p].inMesh = stats[p].inMesh /\ stats'[p].active = stats[p].active
             /\ p \notin C => stats'[p] = stats[p]
             /\ p \in C => stats'[p].ips = conns[p]
  BY <1>2, <1>3
<1>6. STyped' /\ Forgotten' /\ Meshed' /\ Dormant'
  <2>1. STyped'
    BY <1>2, <1>4 DEF SInv, STyped
  <2>2. Forgotten'
    BY <1>2, <1>5 DEF SInv, Forgotten
  <2>3. Meshed'
    BY <1>2, <1>5 DEF SInv, Meshed
  <2>4. Dormant'
    BY <1>5 DEF SInv, Dormant
  <2> QED BY <2>1, <2>2, <2>3, <2>4
<1>7. ASSUME NEW ip \in IPs PROVE peerIPs'[ip] = {q \in known' : stats'[q].ips[ip] > 0}
  <2>1. peerIPs[ip] = {q \in known : stats[q].ips[ip] > 0}
    BY DEF SInv, IPsConsistent
  <2>2. peerIPs'[ip] = {p \in Peers :
               IF p \in C /\ (conns[p][ip] > 0) # (stats[p].ips[ip] > 0)
               THEN conns[p][ip] > 0 ELSE p \in peerIPs[ip]}
    BY <1>2
  <2>3. ASSUME NEW q PROVE q \in peerIPs'[ip] <=> q \in known' /\ stats'[q].ips[ip] > 0
    <3>1. CASE q \in C
      <4>1. q \in Peers /\ q \in known /\ q \in known' /\ stats'[q].ips[ip] = conns[q][ip]
        BY <1>1, <1>2, <1>5, <3>1
      <4>2. q \in peerIPs[ip] <=> stats[q].ips[ip] > 0
        BY <2>1, <4>1
      <4>3. q \in peerIPs'[ip] <=> conns[q][ip] > 0
        <5>1. CASE (conns[q][ip] > 0) # (stats[q].ips[ip] > 0)
          BY <2>2, <3>1, <4>1, <5>1
        <5>2. CASE ~ ((conns[q][ip] > 0) # (stats[q].ips[ip] > 0))
          <6>1. q \in peerIPs'[ip] <=> q \in peerIPs[ip]
            BY <2>2, <4>1, <5>2
          <6> QED BY <4>2, <5>2, <6>1
        <5> QED BY <5>1, <5>2
      <4> QED BY <4>1, <4>3
    <3>2. CASE q \notin C
      <4>1. q \in peerIPs'[ip] <=> q \in Peers /\ q \in peerIPs[ip]
        BY <2>2, <3>2
      <4>2. q \in Peers => stats'[q] = stats[q]
        BY <1>5, <3>2
      <4> QED BY <1>1, <1>2, <2>1, <4>1, <4>2
    <3> QED BY <3>1, <3>2
  <2> QED BY <2>3
<1>8. \A q \in Peers : ~ stats[q].connected => q \notin C
  OBVIOUS
<1> QED BY <1>2, <1>5, <1>6, <1>7, <1>8 DEF SInv, IPsConsistent

\* refreshScores
LEMMA RefreshScoresSteps ==
    ASSUME SInv, RefreshScores
    PROVE  /\ SInv'
           /\ \A q \in known :
                 \/ stats[q].away > RetainScore
                 \/ q \in known' /\ stats[q].connected /\ stats'[q].connected
                 \/ q \in known' /\ stats'[q] = stats[q]
<1> DEFINE gone == {p \in known : ~ stats[p].connected /\ stats[p].away > RetainScore}
           R(p) == IF p \in gone THEN NoStats
                   ELSE IF p \in known /\ stats[p].connected THEN Decayed(stats[p]) ELSE stats[p]
<1>1. stats \in [Peers -> PeerStatistics] /\ known \subseteq Peers
  BY DEF SInv, STyped
<1>2. /\ known' = known \ gone /\ stats' = [p \in Peers |-> R(p)] /\ peerIPs' = RemoveIPs(gone)
      /\ UNCHANGED <<conns, mesh, params>>
  BY DEF RefreshScores
<1> HIDE DEF Decayed, NoStats
<1>3. ASSUME NEW p \in Peers
      PROVE  /\ R(p) \in PeerStatistics
             /\ R(p).inMesh => stats[p].inMesh
             /\ p \in gone => R(p).ips = NoIPs /\ ~ R(p).inMesh
             /\ p \notin gone => R(p).ips = stats[p].ips /\ R(p).connected = stats[p].connected
             /\ ~ stats[p].connected /\ p \notin gone => R(p) = stats[p]
             /\ p \notin known => R(p) = stats[p]
  <2>1. stats[p] \in PeerStatistics
    BY <1>1
  <2>2. CASE p \in gone
    BY <2>2, NoStatsTyped
  <2>3. CASE p \notin gone /\ p \in known /\ stats[p].connected
    <3>1. R(p) = Decayed(stats[p])
      BY <2>3
    <3> HIDE DEF R
    <3> QED BY <2>1, <2>3, <3>1, DecayedStats
  <2>4. CASE p \notin gone /\ ~ (p \in known /\ stats[p].connected)
    BY <2>1, <2>4
  <2> QED BY <2>2, <2>3, <2>4
<1>4. \A p \in Peers : stats'[p] = R(p)
  BY <1>2
<1> HIDE DEF R
<1>5. stats' \in [Peers -> PeerStatistics]
  BY <1>2, <1>3
<1>6. IPsConsistent'
  <2>1. \A q \in known \ gone : stats'[q].ips = stats[q].ips
    BY <1>1, <1>3, <1>4
  <2> QED BY <1>2, <2>1, Dropped
<1>7. STyped'
  BY <1>2, <1>5 DEF SInv, STyped
<1>8. Forgotten'
  BY <1>2, <1>3, <1>4 DEF SInv, Forgotten
<1>9. Meshed'
  BY <1>2, <1>3, <1>4 DEF SInv, Meshed
<1>10. Dormant'
  <2> SUFFICES ASSUME NEW p \in Peers, ~ stats'[p].connected PROVE ~ (stats'[p].inMesh /\ stats'[p].active)
    BY DEF Dormant
  <2>1. CASE p \in gone
    BY <1>3, <1>4, <2>1
  <2>2. CASE p \notin gone
    <3>1. ~ stats[p].connected
      BY <1>3, <1>4, <2>2
    <3>2. stats'[p] = stats[p]
      BY <1>3, <1>4, <2>2, <3>1
    <3> QED BY <3>1, <3>2 DEF SInv, Dormant
  <2> QED BY <2>1, <2>2
<1>11. ASSUME NEW q \in known
       PROVE  \/ stats[q].away > RetainScore
              \/ q \in known' /\ stats[q].connected /\ stats'[q].connected
              \/ q \in known' /\ stats'[q] = stats[q]
  <2>1. CASE q \in gone
    BY <2>1
  <2>2. CASE q \notin gone /\ stats[q].connected
    BY <1>1, <1>2, <1>3, <1>4, <2>2
  <2>3. CASE q \notin gone /\ ~ stats[q].connected
    BY <1>1, <1>2, <1>3, <1>4, <2>3
  <2> QED BY <2>1, <2>2, <2>3
<1> QED BY <1>6, <1>7, <1>8, <1>9, <1>10, <1>11 DEF SInv

LEMMA ScoreInitInv == ScoreInit => SInv
<1> SUFFICES ASSUME ScoreInit PROVE SInv
  OBVIOUS
<1>1. params.scored \in BOOLEAN /\ params.first \in Nat /\ params.mesh \in Nat
  <2>1. CASE params = NoParams
    BY <2>1 DEF NoParams
  <2>2. ASSUME NEW a \in FirstCaps, NEW b \in MeshCaps, params = Scored(a, b)
        PROVE  params.scored \in BOOLEAN /\ params.first \in Nat /\ params.mesh \in Nat
    BY <2>2, ScoreNumbers DEF Scored
  <2> QED BY <2>1, <2>2 DEF ScoreInit
<1>2. stats = [p \in Peers |-> NoStats] /\ known = {}
  BY DEF ScoreInit
<1>3. \A p \in Peers : stats[p] = NoStats
  BY <1>2
<1>4. NoIPs \in [IPs -> Nat]
  BY DEF NoIPs
<1> HIDE DEF NoStats
<1>5. STyped
  BY <1>1, <1>2, <1>4, NoStatsTyped DEF ScoreInit, STyped
<1>6. Forgotten /\ Meshed /\ Dormant
  BY <1>3, NoStatsTyped DEF Forgotten, Meshed, Dormant
<1>7. IPsConsistent
  BY DEF ScoreInit, IPsConsistent
<1> QED BY <1>5, <1>6, <1>7 DEF SInv

LEMMA ScoreStepInv == SInv /\ [ScoreNext]_scoreVars => SInv'
<1> SUFFICES ASSUME SInv, [ScoreNext]_scoreVars PROVE SInv'
  OBVIOUS
<1>1. CASE UNCHANGED scoreVars
  BY <1>1 DEF scoreVars, SInv, STyped, Forgotten, Meshed, Dormant, IPsConsistent
<1>2. ASSUME NEW p \in Busy,
             \/ Graft(p) \/ Prune(p)
             \/ MarkFirstMessageDelivery(p) \/ MarkDuplicateMessageDelivery(p)
             \/ MarkInvalidMessageDelivery(p) \/ AddPenalty(p)
      PROVE  SInv'
  <2>1. params.scored \in BOOLEAN /\ params.first \in Nat /\ params.mesh \in Nat
    BY DEF SInv, STyped
  <2> QED BY <1>2, <2>1, CounterSteps, SOnward
<1>3. ASSUME NEW a \in FirstCaps, NEW b \in MeshCaps, SetTopicScoreParams(a, b) PROVE SInv'
  <2>1. /\ UNCHANGED <<conns, known, peerIPs>> /\ stats' \in [Peers -> PeerStatistics]
        /\ \A q \in Peers : Onward(stats[q], stats'[q]) /\ stats'[q].inMesh = stats[q].inMesh
    BY <1>3, CapSteps
  <2>2. params' = Scored(a, b) /\ UNCHANGED mesh
    BY <1>3 DEF SetTopicScoreParams
  <2>3. params'.scored = TRUE /\ params'.first \in Nat /\ params'.mesh \in Nat
    BY <2>2, ScoreNumbers DEF Scored
  <2>4. \A q \in Peers : stats'[q].inMesh => q \in mesh'
    BY <2>1, <2>2 DEF SInv, Meshed
  <2> QED BY <2>1, <2>3, <2>4, SOnward
<1>4. ASSUME ScoreTick PROVE SInv'
  <2>1. /\ UNCHANGED <<conns, known, peerIPs, mesh, params>>
        /\ stats' \in [Peers -> PeerStatistics]
        /\ \A q \in Peers : Onward(stats[q], stats'[q]) /\ stats'[q].inMesh = stats[q].inMesh
    BY <1>4, TickSteps
  <2>2. params'.scored \in BOOLEAN /\ params'.first \in Nat /\ params'.mesh \in Nat
    BY <2>1 DEF SInv, STyped
  <2>3. \A q \in Peers : stats'[q].inMesh => q \in mesh' /\ params'.scored
    BY <2>1 DEF SInv, Meshed
  <2> QED BY <2>1, <2>2, <2>3, SOnward
<1> QED BY <1>1, <1>2, <1>3, <1>4, ConnSteps, NewStreamSteps, ClosedStreamSteps,
           RefreshIPsSteps, RefreshScoresSteps DEF ScoreNext

\* setIPs, removeIPs and refreshIPs keep the tracker of colocated addresses in step with
\* the records of the peers.
THEOREM IPsConsistentHolds == ScoreSpec => []IPsConsistent
<1>1. SInv => IPsConsistent
  BY DEF SInv
<1> QED BY <1>1, ScoreInitInv, ScoreStepInv, PTL DEF ScoreSpec

\* A record says that its peer is in the mesh only while the router has it there.
THEOREM MeshAgreesHolds == ScoreSpec => []MeshAgrees
<1>1. SInv => MeshAgrees
  BY DEF SInv, STyped, Meshed, MeshAgrees
<1> QED BY <1>1, ScoreInitInv, ScoreStepInv, PTL DEF ScoreSpec

-----------------------------------------------------------------------------
(* What is held against a peer.                                            *)

LEMMA HeldKept ==
    ASSUME NEW st \in PeerStatistics, NEW u \in PeerStatistics, u.failure >= st.failure,
           ~ (st.inMesh /\ st.active)
    PROVE  Held(u) >= Held(st)
<1>1. st.failure \in Nat /\ u.failure \in Nat /\ Deficit(u) \in Nat /\ MaxPenalty \in Nat
  BY DeficitNat, ScoreNumbers DEF PeerStatistics, Penalties
<1>2. Held(st) = AtMost(MaxPenalty, st.failure)
  BY <1>1 DEF Held
<1>3. PICK d \in Nat : Held(u) = AtMost(MaxPenalty, u.failure + d)
  BY <1>1 DEF Held
<1> QED BY <1>1, <1>2, <1>3 DEF AtMost

\* The deficit of a peer that leaves the mesh by going away is added to its failures.
LEMMA HeldRetained ==
    ASSUME NEW st \in PeerStatistics
    PROVE  Held(Retained(st)) >= Held(st)
<1> DEFINE u == Retained(st)
<1>1. /\ u.inMesh = FALSE
      /\ u.failure = IF params.scored /\ st.inMesh /\ st.active
                     THEN AtMost(MaxPenalty, st.failure + Deficit(st)) ELSE st.failure
  BY RetainedStats
<1> HIDE DEF u
<1>2. st.failure \in Nat /\ st.failure <= MaxPenalty /\ Deficit(st) \in Nat /\ MaxPenalty \in Nat
  BY DeficitNat, ScoreNumbers DEF PeerStatistics, Penalties
<1>3. u.failure \in Nat
  BY <1>1, <1>2 DEF AtMost
<1>4. Held(u) = AtMost(MaxPenalty, u.failure)
  BY <1>1, <1>3 DEF Held
<1>5. CASE params.scored /\ st.inMesh /\ st.active
  <2>1. Held(st) = AtMost(MaxPenalty, st.failure + Deficit(st))
    BY <1>5 DEF Held
  <2>2. u.failure = AtMost(MaxPenalty, st.failure + Deficit(st))
    BY <1>1, <1>5
  <2> QED BY <1>2, <1>4, <2>1, <2>2 DEF AtMost, u
<1>6. CASE ~ (params.scored /\ st.inMesh /\ st.active)
  <2>1. Held(st) = AtMost(MaxPenalty, st.failure)
    BY <1>2, <1>6 DEF Held
  <2>2. u.failure = st.failure
    BY <1>1, <1>6
  <2> QED BY <1>2, <1>4, <2>1, <2>2 DEF AtMost, u
<1> QED BY <1>5, <1>6

\* The action of NoWhitewash, for one peer
Kept(p) ==
    \/ stats[p].connected /\ stats'[p].connected
    \/ Score(p) > 0
    \/ stats[p].away > RetainScore
    \/ /\ p \in known'
       /\ Held(stats'[p]) >= Held(stats[p])
       /\ stats'[p].invalid >= stats[p].invalid
       /\ stats'[p].behaviour >= stats[p].behaviour

LEMMA KeptOnward ==
    ASSUME SInv, NEW p \in known, p \in known', stats'[p] \in PeerStatistics,
           Onward(stats[p], stats'[p])
    PROVE  Kept(p)
<1>1. stats[p] \in PeerStatistics /\ p \in Peers
  BY DEF SInv, STyped
<1>2. CASE stats[p].connected
  BY <1>2 DEF Kept, Onward
<1>3. CASE ~ stats[p].connected
  <2>1. ~ (stats[p].inMesh /\ stats[p].active)
    BY <1>1, <1>3 DEF SInv, Dormant
  <2>2. /\ stats'[p].failure >= stats[p].failure /\ stats'[p].invalid >= stats[p].invalid
        /\ stats'[p].behaviour >= stats[p].behaviour
    BY DEF Onward
  <2>3. Held(stats'[p]) >= Held(stats[p])
    BY <1>1, <2>1, <2>2, HeldKept
  <2> QED BY <2>2, <2>3 DEF Kept
<1> QED BY <1>2, <1>3

LEMMA KeptSame ==
    ASSUME SInv, NEW p \in known, p \in known', stats'[p] = stats[p]
    PROVE  Kept(p)
<1>1. stats[p] \in PeerStatistics
  BY DEF SInv, STyped
<1> QED BY <1>1, OnwardSame, KeptOnward

LEMMA KeptSteps == SInv /\ [ScoreNext]_scoreVars => \A p \in known : Kept(p)
<1> SUFFICES ASSUME SInv, [ScoreNext]_scoreVars, NEW p \in known PROVE Kept(p)
  OBVIOUS
<1> HIDE DEF Kept
<1>1. p \in Peers /\ stats[p] \in PeerStatistics
  BY DEF SInv, STyped
<1>2. CASE UNCHANGED <<known, stats>>
  BY <1>2, KeptSame
<1>3. ASSUME NEW b \in Busy,
             \/ Graft(b) \/ Prune(b)
             \/ MarkFirstMessageDelivery(b) \/ MarkDuplicateMessageDelivery(b)
             \/ MarkInvalidMessageDelivery(b) \/ AddPenalty(b)
      PROVE  Kept(p)
  <2>1. UNCHANGED known /\ stats' \in [Peers -> PeerStatistics] /\ Onward(stats[p], stats'[p])
    BY <1>1, <1>3, CounterSteps
  <2> QED BY <1>1, <2>1, KeptOnward
<1>4. ASSUME (\E a \in FirstCaps, b \in MeshCaps : SetTopicScoreParams(a, b)) \/ ScoreTick
      PROVE  Kept(p)
  <2>1. UNCHANGED known /\ stats' \in [Peers -> PeerStatistics] /\ Onward(stats[p], stats'[p])
    BY <1>1, <1>4, CapSteps, TickSteps
  <2> QED BY <1>1, <2>1, KeptOnward
<1>5. ASSUME NEW q \in Peers, NEW ip \in IPs, Connect(q, ip) \/ Disconnect(q, ip) PROVE Kept(p)
  BY <1>2, <1>5 DEF Connect, Disconnect
<1>6. ASSUME NEW q \in Peers, OnNewOutboundStream(q) PROVE Kept(p)
  <2>1. SInv' /\ p \in known'
    BY <1>6, NewStreamSteps DEF OnNewOutboundStream
  <2>2. stats'[p] \in PeerStatistics
    BY <1>1, <2>1 DEF SInv, STyped
  <2>3. CASE q # p
    <3>1. stats'[p] = stats[p]
      BY <1>1, <1>6, <2>3, NewStreamSteps
    <3> QED BY <2>1, <3>1, KeptSame
  <2>4. CASE q = p
    <3>1. /\ stats'[p].failure = stats[p].failure /\ stats'[p].invalid = stats[p].invalid
          /\ stats'[p].behaviour = stats[p].behaviour
      BY <1>6, <2>4, NewStreamSteps
    <3>2. stats[p].failure \in Nat /\ stats[p].invalid \in Nat /\ stats[p].behaviour \in Nat
      BY <1>1, ScoreNumbers DEF PeerStatistics, Penalties
    <3>3. stats'[p].connected
      <4>1. stats' = [stats EXCEPT ![p].connected = TRUE, ![p].away = 0, ![p].ips = conns[p]]
        BY <1>6, <2>4 DEF OnNewOutboundStream
      <4>2. stats \in [Peers -> PeerStatistics]
        BY DEF SInv, STyped
      <4>3. stats'[p] = [stats[p] EXCEPT !.connected = TRUE, !.away = 0, !.ips = conns[p]]
        BY <1>1, <4>1, <4>2
      <4>4. stats'[p].connected = TRUE
        BY <1>1, <4>3 DEF PeerStatistics
      <4> QED BY <4>4
    <3>4. CASE stats[p].connected
      BY <3>3, <3>4 DEF Kept
    <3>5. CASE ~ stats[p].connected
      <4>1. ~ (stats[p].inMesh /\ stats[p].active)
        BY <1>1, <3>5 DEF SInv, Dormant
      <4>2. Held(stats'[p]) >= Held(stats[p])
        BY <1>1, <2>2, <3>1, <3>2, <4>1, HeldKept
      <4> QED BY <2>1, <3>1, <3>2, <4>2 DEF Kept
    <3> QED BY <3>4, <3>5
  <2> QED BY <2>3, <2>4
<1>7. ASSUME NEW q \in Peers, OnClosedOutboundStream(q) PROVE Kept(p)
  <2>1. CASE q # p
    BY <1>1, <1>7, <2>1, ClosedStreamSteps, KeptSame
  <2>2. CASE q = p
    <3>1. Score(p) > 0 \/ (p \in known' /\ stats'[p] = Retained(stats[p]))
      BY <1>7, <2>2, ClosedStreamSteps
    <3>2. CASE p \in known' /\ stats'[p] = Retained(stats[p])
      <4>1. Held(stats'[p]) >= Held(stats[p])
        BY <1>1, <3>2, HeldRetained
      <4>2. stats'[p].invalid = stats[p].invalid /\ stats'[p].behaviour = stats[p].behaviour
        BY <1>1, <3>2, RetainedStats
      <4>3. stats[p].invalid \in Nat /\ stats[p].behaviour \in Nat
        BY <1>1, ScoreNumbers DEF PeerStatistics, Penalties
      <4> QED BY <3>2, <4>1, <4>2, <4>3 DEF Kept
    <3> QED BY <3>1, <3>2 DEF Kept
  <2> QED BY <2>1, <2>2
<1>8. ASSUME RefreshIPs PROVE Kept(p)
  <2>1. CASE stats[p].connected
    BY <1>1, <1>8, <2>1, RefreshIPsSteps DEF Kept
  <2>2. CASE ~ stats[p].connected
    BY <1>1, <1>8, <2>2, RefreshIPsSteps, KeptSame
  <2> QED BY <2>1, <2>2
<1>9. ASSUME RefreshScores PROVE Kept(p)
  <2>1. \/ stats[p].away > RetainScore
        \/ p \in known' /\ stats[p].connected /\ stats'[p].connected
        \/ p \in known' /\ stats'[p] = stats[p]
    BY <1>9, RefreshScoresSteps
  <2>2. CASE p \in known' /\ stats'[p] = stats[p]
    BY <2>2, KeptSame
  <2> QED BY <2>1, <2>2 DEF Kept
<1>10. UNCHANGED scoreVars => UNCHANGED <<known, stats>>
  BY DEF scoreVars
<1> QED BY <1>2, <1>3, <1>4, <1>5, <1>6, <1>7, <1>8, <1>9, <1>10 DEF ScoreNext

\* OnClosedOutboundStream retains what is held against a peer, and nothing that happens
\* while it is away, or when it comes back, lessens it before the retention period ends.
THEOREM NoWhitewashHolds == ScoreSpec => NoWhitewash
<1>1. SInv /\ [ScoreNext]_scoreVars =>
         [\A p \in known :
          \/ stats[p].connected /\ stats'[p].connected
          \/ Score(p) > 0
          \/ stats[p].away > RetainScore
          \/ /\ p \in known'
             /\ Held(stats'[p]) >= Held(stats[p])
             /\ stats'[p].invalid >= stats[p].invalid
             /\ stats'[p].behaviour >= stats[p].behaviour]_scoreVars
  BY KeptSteps DEF Kept
<1> QED BY <1>1, ScoreInitInv, ScoreStepInv, PTL DEF ScoreSpec, NoWhitewash

-----------------------------------------------------------------------------
(* The statistics objects of the gater.                                    *)

ObjectStates == [connected : Nat, left : Nat, total : Nat]

GTyped ==
    /\ open \in [GatedPeers -> Nat]
    /\ address \in [GatedPeers -> Addresses]
    /\ peerObj \in [GatedPeers -> Objects \cup {None}]
    /\ ipObj \in [Addresses -> Objects \cup {None}]
    /\ obj \in [Objects -> ObjectStates]

GInv == GTyped /\ StreamsBound

LEMMA GaterNumbers ==
    /\ RetainStats \in Nat /\ MaxEvents \in Nat
    /\ IsFiniteSet(GatedPeers) /\ IsFiniteSet(Addresses)
    /\ Cardinality(GatedPeers) \in Nat /\ Cardinality(Addresses) \in Nat
    /\ Objects \subseteq Nat \ {0} /\ None \notin Objects
    /\ IsFiniteSet(Objects) /\ Cardinality(Objects) = Cardinality(GatedPeers) + Cardinality(Addresses)
<1>1. /\ RetainStats \in Nat /\ MaxEvents \in Nat
      /\ IsFiniteSet(GatedPeers) /\ IsFiniteSet(Addresses)
  BY GaterAssumption
<1>2. Cardinality(GatedPeers) \in Nat /\ Cardinality(Addresses) \in Nat
  BY <1>1, FS_CardinalityType
<1>3. Objects = 1 .. Cardinality(GatedPeers) + Cardinality(Addresses)
  BY DEF Objects
<1>4. Objects \subseteq Nat \ {0} /\ None \notin Objects
  BY <1>2, <1>3 DEF None
<1> DEFINE n == Cardinality(GatedPeers) + Cardinality(Addresses)
<1>5. n \in Nat
  BY <1>2
<1> HIDE DEF n
<1>6. IsFiniteSet(1 .. n) /\ Cardinality(1 .. n) = n
  <2>1. IsFiniteSet(1 .. n) /\ Cardinality(1 .. n) = IF 1 > n THEN 0 ELSE n - 1 + 1
    BY <1>5, FS_Interval
  <2> QED BY <1>5, <2>1
<1> QED BY <1>1, <1>2, <1>3, <1>4, <1>6 DEF n

\* A function reaches no more values than it has arguments.
LEMMA Values ==
    ASSUME NEW S, IsFiniteSet(S), NEW f
    PROVE  IsFiniteSet({f[x] : x \in S}) /\ Cardinality({f[x] : x \in S}) <= Cardinality(S)
<1> DEFINE T == {f[x] : x \in S}
           g == [x \in S |-> f[x]]
<1>1. g \in Surjection(S, T)
  BY DEF Surjection
<1> HIDE DEF g, T
<1>2. IsFiniteSet(T) /\ Cardinality(T) <= Cardinality(S)
  BY <1>1, FS_Surjection
<1> QED BY <1>2 DEF T

LEMMA SmallestExists ==
    ASSUME NEW T \in SUBSET Nat, T # {}
    PROVE  Min(T) \in T
<1>1. PICK x \in T : \A y \in T : ~ (y < x)
  BY LeastNat
<1>2. \A y \in T : x <= y
  BY <1>1
<1> QED BY <1>2 DEF Min

\* There are objects enough: a peer without one finds one that is not in use.
LEMMA FreshObject ==
    ASSUME GTyped, NEW p \in GatedPeers, peerObj[p] = None
    PROVE  Min(Unused) \in Unused
<1> DEFINE P == {peerObj[q] : q \in GatedPeers \ {p}}
           A == {ipObj[a] : a \in Addresses}
           n == Cardinality(GatedPeers)
           k == Cardinality(Addresses)
<1>1. n \in Nat /\ k \in Nat /\ Cardinality(Objects) = n + k
  BY GaterNumbers
<1>2. IsFiniteSet(GatedPeers \ {p}) /\ Cardinality(GatedPeers \ {p}) = n - 1
  BY GaterNumbers, FS_RemoveElement
<1>3. IsFiniteSet(P) /\ Cardinality(P) <= n - 1
  BY <1>2, Values
<1>4. IsFiniteSet(A) /\ Cardinality(A) <= k
  BY GaterNumbers, Values
<1> HIDE DEF P, A, n, k
<1>5. IsFiniteSet(P \cup A) /\ Cardinality(P \cup A) < n + k
  <2>1. /\ IsFiniteSet(P \cup A)
        /\ Cardinality(P \cup A) = Cardinality(P) + Cardinality(A) - Cardinality(P \cap A)
    BY <1>3, <1>4, FS_Union
  <2>2. IsFiniteSet(P \cap A)
    BY <1>3, FS_Subset
  <2>3. Cardinality(P) \in Nat /\ Cardinality(A) \in Nat /\ Cardinality(P \cap A) \in Nat
    BY <1>3, <1>4, <2>2, FS_CardinalityType
  <2> QED BY <1>1, <1>3, <1>4, <2>1, <2>3
<1>6. Unused # {}
  <2> SUFFICES ASSUME Unused = {} PROVE FALSE
    OBVIOUS
  <2>1. Objects \subseteq P \cup A
    <3> SUFFICES ASSUME NEW o \in Objects PROVE o \in P \cup A
      OBVIOUS
    <3>1. (\E q \in GatedPeers : peerObj[q] = o) \/ (\E a \in Addresses : ipObj[a] = o)
      BY DEF Unused
    <3>2. o # None
      BY GaterNumbers
    <3> QED BY <3>1, <3>2 DEF P, A
  <2>2. Cardinality(Objects) <= Cardinality(P \cup A)
    BY <1>5, <2>1, FS_Subset
  <2>3. Cardinality(P \cup A) \in Nat
    BY <1>5, FS_CardinalityType
  <2> QED BY <1>1, <1>5, <2>2, <2>3
<1>7. Unused \in SUBSET Nat
  BY GaterNumbers DEF Unused
<1> QED BY <1>6, <1>7, SmallestExists

LEMMA PeerStatsTyped ==
    ASSUME GTyped, NEW p \in GatedPeers
    PROVE  PeerStats(p) \in Objects /\ (peerObj[p] # None => PeerStats(p) = peerObj[p])
<1>1. peerObj[p] \in Objects \cup {None} /\ ipObj[address[p]] \in Objects \cup {None}
  BY DEF GTyped
<1>2. peerObj[p] = None => Min(Unused) \in Objects
  BY FreshObject DEF Unused
<1> HIDE DEF Min
<1> QED BY <1>1, <1>2 DEF PeerStats

Streams(o) == Total(Share(o), GatedPeers)

LEMMA StreamsBoundIs == StreamsBound <=> \A o \in Objects : obj[o].connected <= Streams(o)
BY DEF StreamsBound, Streams, Total

LEMMA ShareTyped ==
    ASSUME GTyped, NEW o
    PROVE  Share(o) \in [GatedPeers -> Nat] /\ Streams(o) \in Nat
<1>1. Share(o) \in [GatedPeers -> Nat]
  BY DEF Share, GTyped
<1> QED BY <1>1, GaterNumbers, TotalNat DEF Streams

\* An object whose count is zero keeps its bound.
LEMMA ZeroBound ==
    ASSUME GTyped', NEW o \in Objects, obj'[o].connected = 0
    PROVE  obj'[o].connected <= Streams(o)'
<1>1. PICK f : f = Share(o)'
  OBVIOUS
<1>2. f \in [GatedPeers -> Nat]
  BY <1>1 DEF Share, GTyped
<1>3. Total(f, GatedPeers) \in Nat
  BY <1>2, GaterNumbers, TotalNat
<1>4. Streams(o)' = Total(f, GatedPeers)
  BY <1>1 DEF Streams
<1> QED BY <1>3, <1>4

\* A step that is about one peer changes the streams of an object by what it changes of
\* the share of that peer; the count may grow by as much.
LEMMA OneShare ==
    ASSUME GInv, GTyped', NEW p \in GatedPeers, NEW o \in Objects,
           \A q \in GatedPeers \ {p} : peerObj'[q] = peerObj[q] /\ open'[q] = open[q],
           NEW k \in Int, obj'[o].connected <= obj[o].connected + k,
           Share(o)'[p] >= Share(o)[p] + k
    PROVE  obj'[o].connected <= Streams(o)'
<1>1. PICK f : f = Share(o)
  OBVIOUS
<1>2. PICK h : h = Share(o)'
  OBVIOUS
<1>3. f \in [GatedPeers -> Nat] /\ Total(f, GatedPeers) \in Nat
  BY <1>1, ShareTyped DEF GInv, Streams
<1>4. h \in [GatedPeers -> Nat]
  BY <1>2 DEF Share, GTyped
<1>5. \A q \in GatedPeers \ {p} : h[q] = f[q]
  BY <1>1, <1>2 DEF Share
<1> DEFINE n == f[p] - h[p]
           d == [q \in GatedPeers |-> IF q = p THEN n ELSE 0]
<1>6. n \in Int /\ n <= - k
  <2>1. h[p] >= f[p] + k
    BY <1>1, <1>2
  <2>2. f[p] \in Nat /\ h[p] \in Nat
    BY <1>3, <1>4
  <2> QED BY <2>1, <2>2
<1>7. d \in [GatedPeers -> Int] /\ \A q \in GatedPeers : d[q] = IF q = p THEN n ELSE 0
  BY <1>6
<1>8. \A q \in GatedPeers : h[q] = f[q] - d[q]
  <2> SUFFICES ASSUME NEW q \in GatedPeers PROVE h[q] = f[q] - d[q]
    OBVIOUS
  <2>1. f[q] \in Nat /\ h[q] \in Nat
    BY <1>3, <1>4
  <2>2. CASE q = p
    BY <2>1, <2>2
  <2>3. CASE q # p
    BY <1>5, <2>1, <2>3
  <2> QED BY <2>2, <2>3
<1> HIDE DEF n, d
<1>9. Total(d, GatedPeers) = n
  BY <1>6, <1>7, GaterNumbers, TotalOfOne
<1>10. f \in [GatedPeers -> Int]
  BY <1>3
<1>11. Total(h, GatedPeers) = Total(f, GatedPeers) - Total(d, GatedPeers)
  BY <1>7, <1>8, <1>10, GaterNumbers, TotalDifference
<1>12. obj[o].connected <= Total(f, GatedPeers)
  BY <1>1, StreamsBoundIs DEF GInv, Streams
<1>13. obj[o].connected \in Nat /\ obj'[o].connected \in Nat
  BY DEF GInv, GTyped, ObjectStates
<1>14. PICK u : u = Total(f, GatedPeers)
  OBVIOUS
<1>15. obj'[o].connected <= u - n
  BY <1>3, <1>6, <1>12, <1>13, <1>14
<1>16. Streams(o)' = Total(h, GatedPeers)
  BY <1>2 DEF Streams
<1> QED BY <1>9, <1>11, <1>14, <1>15, <1>16

\* The bound, after a step
LEMMA BoundAfter ==
    ASSUME GTyped', \A o \in Objects : obj'[o].connected <= Streams(o)'
    PROVE  GInv'
<1>1. StreamsBound'
  BY DEF StreamsBound, Streams, Total
<1> QED BY <1>1 DEF GInv

\* getPeerStats, by what it leaves: p is bound to o, and no other peer is moved.
LEMMA Bound ==
    ASSUME GInv, NEW p \in GatedPeers, NEW st \in ObjectStates, Bind(p, st),
           open' \in [GatedPeers -> Nat], address' = address
    PROVE  /\ GTyped'
           /\ PeerStats(p) \in Objects
           /\ obj'[PeerStats(p)] = st
           /\ \A o \in Objects \ {PeerStats(p)} : obj'[o] = obj[o]
           /\ peerObj'[p] = PeerStats(p)
           /\ \A q \in GatedPeers \ {p} : peerObj'[q] = peerObj[q]
           /\ peerObj[p] # None => peerObj' = peerObj
<1>1. PICK x : x = PeerStats(p)
  OBVIOUS
<1>2. x \in Objects /\ (peerObj[p] # None => x = peerObj[p])
  BY <1>1, PeerStatsTyped DEF GInv
<1>3. /\ peerObj' = [peerObj EXCEPT ![p] = x]
      /\ ipObj' = IF peerObj[p] = None THEN [ipObj EXCEPT ![address[p]] = x] ELSE ipObj
      /\ obj' = [obj EXCEPT ![x] = st]
  BY <1>1 DEF Bind
<1>4. GTyped
  BY DEF GInv
<1>5. peerObj' \in [GatedPeers -> Objects \cup {None}]
  BY <1>2, <1>3, <1>4 DEF GTyped
<1>6. ipObj' \in [Addresses -> Objects \cup {None}]
  BY <1>2, <1>3, <1>4 DEF GTyped
<1>7. obj' \in [Objects -> ObjectStates]
  BY <1>2, <1>3, <1>4 DEF GTyped
<1>8. address' \in [GatedPeers -> Addresses]
  BY <1>4 DEF GTyped
<1>9. GTyped'
  BY <1>5, <1>6, <1>7, <1>8 DEF GTyped
<1>10. obj'[x] = st /\ \A o \in Objects \ {x} : obj'[o] = obj[o]
  BY <1>2, <1>3, <1>4 DEF GTyped
<1>11. /\ peerObj'[p] = x
       /\ \A q \in GatedPeers \ {p} : peerObj'[q] = peerObj[q]
  BY <1>3, <1>4 DEF GTyped
<1>12. peerObj[p] # None => peerObj' = peerObj
  BY <1>2, <1>3, <1>4 DEF GTyped
<1> QED BY <1>1, <1>2, <1>9, <1>10, <1>11, <1>12

LEMMA BoundCount ==
    ASSUME GInv, NEW p \in GatedPeers, NEW st \in ObjectStates, Bind(p, st),
           st.connected = obj[PeerStats(p)].connected, open' = open, address' = address
    PROVE  GInv'
<1>1. PICK x : x = PeerStats(p)
  OBVIOUS
<1>2. open \in [GatedPeers -> Nat] /\ peerObj \in [GatedPeers -> Objects \cup {None}]
      /\ obj \in [Objects -> ObjectStates]
  BY DEF GInv, GTyped
<1>3. /\ GTyped' /\ x \in Objects /\ obj'[x] = st
      /\ \A o \in Objects \ {x} : obj'[o] = obj[o]
      /\ \A q \in GatedPeers \ {p} : peerObj'[q] = peerObj[q]
      /\ peerObj[p] # None => peerObj' = peerObj
  BY <1>1, <1>2, Bound
<1>4. ASSUME NEW o \in Objects PROVE obj'[o].connected <= Streams(o)'
  <2>1. obj'[o].connected = obj[o].connected /\ obj[o].connected \in Nat
    BY <1>1, <1>2, <1>3 DEF ObjectStates
  <2>2. o # None
    BY GaterNumbers
  <2>3. Share(o)'[p] >= Share(o)[p] + 0
    <3>1. open[p] \in Nat /\ open'[p] = open[p]
      BY <1>2
    <3>2. peerObj[p] = o => peerObj'[p] = o
      BY <1>3, <2>2
    <3> QED BY <3>1, <3>2 DEF Share
  <2>4. obj'[o].connected <= obj[o].connected + 0
    BY <2>1
  <2> QED BY <1>3, <2>3, <2>4, OneShare
<1> QED BY <1>3, <1>4, BoundAfter

LEMMA NewStreamBound ==
    ASSUME GInv, NEW p \in GatedPeers, GaterNewOutboundStream(p)
    PROVE  GInv'
<1>1. PICK x : x = PeerStats(p)
  OBVIOUS
<1>2. /\ open \in [GatedPeers -> Nat] /\ peerObj \in [GatedPeers -> Objects \cup {None}]
      /\ obj \in [Objects -> ObjectStates] /\ GTyped
      /\ open' = [open EXCEPT ![p] = @ + 1] /\ address' = address
  BY DEF GInv, GTyped, GaterNewOutboundStream
<1>3. x \in Objects /\ (peerObj[p] # None => x = peerObj[p])
  BY <1>1, <1>2, PeerStatsTyped
<1>4. PICK st : st = [obj[x] EXCEPT !.connected = @ + 1]
  OBVIOUS
<1>5. obj[x] \in ObjectStates
  BY <1>2, <1>3
<1>6. st \in ObjectStates /\ st.connected = obj[x].connected + 1 /\ obj[x].connected \in Nat
  BY <1>4, <1>5 DEF ObjectStates
<1>7. Bind(p, st)
  BY <1>1, <1>4 DEF GaterNewOutboundStream
<1>8. open' \in [GatedPeers -> Nat] /\ open'[p] = open[p] + 1 /\ open[p] \in Nat
      /\ \A q \in GatedPeers \ {p} : open'[q] = open[q]
  BY <1>2
<1>9. /\ GTyped' /\ obj'[x] = st
      /\ \A o \in Objects \ {x} : obj'[o] = obj[o]
      /\ peerObj'[p] = x
      /\ \A q \in GatedPeers \ {p} : peerObj'[q] = peerObj[q]
  BY <1>1, <1>2, <1>6, <1>7, <1>8, Bound
<1>10. obj'[x].connected <= Streams(x)'
  <2>1. Share(x)'[p] >= Share(x)[p] + 1
    BY <1>8, <1>9 DEF Share
  <2>2. obj'[x].connected <= obj[x].connected + 1
    BY <1>6, <1>9
  <2> QED BY <1>3, <1>8, <1>9, <2>1, <2>2, OneShare
<1>11. ASSUME NEW o \in Objects \ {x} PROVE obj'[o].connected <= Streams(o)'
  <2>1. obj'[o] = obj[o] /\ obj[o].connected \in Nat
    BY <1>2, <1>9 DEF ObjectStates
  <2>2. obj'[o].connected <= obj[o].connected + 0
    BY <2>1
  <2>3. peerObj[p] # o /\ peerObj'[p] # o
    BY <1>3, <1>9, GaterNumbers
  <2>4. Share(o)'[p] >= Share(o)[p] + 0
    BY <2>3 DEF Share
  <2> QED BY <1>8, <1>9, <2>2, <2>4, OneShare
<1> QED BY <1>9, <1>10, <1>11, BoundAfter

LEMMA LiveTyped ==
    ASSUME NEW ob \in [Objects -> ObjectStates], NEW po, NEW io
    PROVE  /\ Live(ob, po, io) \in [Objects -> ObjectStates]
           /\ \A o \in Objects : \/ Live(ob, po, io)[o] = ob[o]
                                 \/ Live(ob, po, io)[o].connected = 0
<1>1. NewObj \in ObjectStates /\ NewObj.connected = 0
  BY DEF NewObj, ObjectStates
<1> HIDE DEF NewObj, ObjectStates
<1> QED BY <1>1 DEF Live

LEMMA LessNat == ASSUME NEW n \in Nat PROVE Less(n) \in Nat /\ (n > 0 => Less(n) = n - 1) /\ Less(n) <= n
BY DEF Less

\* removePeerStats, with or without taking back a count
LEMMA RemoveBound ==
    ASSUME GInv, NEW p \in GatedPeers, NEW outbound \in BOOLEAN, RemovePeerStats(p, outbound),
           open' = IF outbound THEN [open EXCEPT ![p] = Less(@)] ELSE open,
           address' = address, ipObj' = ipObj
    PROVE  GInv'
<1>1. /\ open \in [GatedPeers -> Nat] /\ peerObj \in [GatedPeers -> Objects \cup {None}]
      /\ obj \in [Objects -> ObjectStates] /\ GTyped
      /\ address \in [GatedPeers -> Addresses] /\ ipObj \in [Addresses -> Objects \cup {None}]
  BY DEF GInv, GTyped
<1>0. /\ open' \in [GatedPeers -> Nat] /\ open[p] \in Nat /\ open'[p] \in Nat
      /\ open'[p] >= open[p] - 1
      /\ ~ outbound => open'[p] = open[p]
      /\ \A q \in GatedPeers \ {p} : open'[q] = open[q]
  BY <1>1 DEF Less
<1>2. CASE peerObj[p] = None
  <2>1. peerObj' = peerObj /\ obj' = obj
    BY <1>2 DEF RemovePeerStats
  <2>2. GTyped'
    BY <1>0, <1>1, <2>1 DEF GTyped
  <2>3. ASSUME NEW o \in Objects PROVE obj'[o].connected <= Streams(o)'
    <3>1. o # None
      BY GaterNumbers
    <3>2. Share(o)'[p] >= Share(o)[p] + 0
      BY <1>2, <2>1, <3>1 DEF Share
    <3>3. obj[o].connected \in Nat
      BY <1>1 DEF ObjectStates
    <3>4. obj'[o].connected <= obj[o].connected + 0
      BY <2>1, <3>3
    <3> QED BY <1>0, <2>1, <2>2, <3>2, <3>4, OneShare
  <2> QED BY <2>2, <2>3, BoundAfter
<1>3. CASE peerObj[p] # None
  <2>1. PICK x : x = peerObj[p]
    OBVIOUS
  <2>2. PICK n : n = IF outbound THEN Less(obj[x].connected) ELSE obj[x].connected
    OBVIOUS
  <2>3. x \in Objects
    BY <1>1, <1>3, <2>1
  <2>4. obj[x].connected \in Nat /\ obj[x].left \in Nat /\ obj[x].total \in Nat
    BY <1>1, <2>3 DEF ObjectStates
  <2>5. n \in Nat /\ n <= obj[x].connected
    BY <2>2, <2>4, LessNat
  <2>6. PICK st : st = [connected |-> n, total |-> obj[x].total,
                        left |-> IF n = 0 THEN RetainStats + 1 ELSE obj[x].left]
    OBVIOUS
  <2>7. st \in ObjectStates /\ st.connected = n
    BY <2>4, <2>5, <2>6, GaterNumbers DEF ObjectStates
  <2>8. PICK ob : ob = [obj EXCEPT ![x] = st]
    OBVIOUS
  <2>9. ob \in [Objects -> ObjectStates] /\ ob[x] = st /\ \A o \in Objects \ {x} : ob[o] = obj[o]
    BY <1>1, <2>3, <2>7, <2>8
  <2>10. peerObj' = IF n = 0 THEN [peerObj EXCEPT ![p] = None] ELSE peerObj
    BY <1>3, <2>1, <2>2 DEF RemovePeerStats
  <2>11. obj' = Live(ob, peerObj', ipObj)
    <3>1. obj' = Live([obj EXCEPT ![x] = st], peerObj', ipObj)
      BY <1>1, <1>3, <2>1, <2>2, <2>3, <2>6 DEF RemovePeerStats
    <3> QED BY <2>8, <3>1
  <2>12. obj' \in [Objects -> ObjectStates]
         /\ \A o \in Objects : obj'[o] = ob[o] \/ obj'[o].connected = 0
    BY <2>9, <2>11, LiveTyped
  <2>13. peerObj' \in [GatedPeers -> Objects \cup {None}]
    BY <1>1, <2>10
  <2>14. GTyped'
    BY <1>0, <1>1, <2>12, <2>13 DEF GTyped
  <2>15. \A q \in GatedPeers \ {p} : peerObj'[q] = peerObj[q] /\ open'[q] = open[q]
    BY <1>0, <1>1, <2>10
  <2>16. ASSUME NEW o \in Objects \ {x}, obj'[o] = ob[o] PROVE obj'[o].connected <= Streams(o)'
    <3>1. peerObj[p] # o /\ peerObj'[p] # o
      BY <1>1, <2>1, <2>10, GaterNumbers
    <3>2. Share(o)'[p] >= Share(o)[p] + 0
      BY <3>1 DEF Share
    <3>3. obj[o].connected \in Nat
      BY <1>1 DEF ObjectStates
    <3>4. obj'[o].connected <= obj[o].connected + 0
      BY <2>9, <2>16, <3>3
    <3> QED BY <2>14, <2>15, <3>2, <3>4, OneShare
  <2>17. ASSUME obj'[x] = ob[x], n # 0 PROVE obj'[x].connected <= Streams(x)'
    <3>1. obj'[x].connected = n /\ peerObj'[p] = x
      BY <2>1, <2>7, <2>9, <2>10, <2>17
    <3>2. CASE ~ outbound
      <4>1. Share(x)'[p] >= Share(x)[p] + 0
        BY <1>0, <2>1, <3>1, <3>2 DEF Share
      <4>2. obj'[x].connected <= obj[x].connected + 0
        BY <2>4, <2>5, <3>1
      <4> QED BY <2>3, <2>14, <2>15, <4>1, <4>2, OneShare
    <3>3. CASE outbound
      <4>1. Share(x)'[p] >= Share(x)[p] + (-1)
        BY <1>0, <2>1, <3>1 DEF Share
      <4>2. n = obj[x].connected - 1
        BY <2>2, <2>4, <2>17, <3>3 DEF Less
      <4>3. obj'[x].connected <= obj[x].connected + (-1)
        BY <2>4, <3>1, <4>2
      <4>4. -1 \in Int
        OBVIOUS
      <4> QED BY <2>3, <2>14, <2>15, <4>1, <4>3, <4>4, OneShare
    <3> QED BY <3>2, <3>3
  <2>18. ASSUME NEW o \in Objects PROVE obj'[o].connected <= Streams(o)'
    <3>1. CASE obj'[o].connected = 0
      BY <2>14, <3>1, ZeroBound
    <3>2. CASE obj'[o] = ob[o] /\ o # x
      BY <2>16, <3>2
    <3>3. CASE obj'[o] = ob[o] /\ o = x /\ n # 0
      BY <2>17, <3>3
    <3>4. CASE obj'[o] = ob[o] /\ o = x /\ n = 0
      <4>1. obj'[o].connected = 0
        BY <2>7, <2>9, <3>4
      <4> QED BY <2>14, <4>1, ZeroBound
    <3> QED BY <2>12, <3>1, <3>2, <3>3, <3>4
  <2> QED BY <2>14, <2>18, BoundAfter
<1> QED BY <1>2, <1>3

\* Steps that move no peer and raise no count
LEMMA CountsKept ==
    ASSUME GInv, GTyped', open' = open, peerObj' = peerObj,
           \A o \in Objects : obj'[o].connected = obj[o].connected \/ obj'[o].connected = 0
    PROVE  GInv'
<1>1. ASSUME NEW o \in Objects PROVE obj'[o].connected <= Streams(o)'
  <2>1. CASE obj'[o].connected = 0
    BY <2>1, ZeroBound
  <2>2. CASE obj'[o].connected = obj[o].connected
    <3>1. Streams(o)' = Streams(o)
      BY DEF Streams, Share
    <3>2. obj[o].connected <= Streams(o)
      BY StreamsBoundIs DEF GInv
    <3> QED BY <2>2, <3>1, <3>2
  <2> QED BY <2>1, <2>2
<1> QED BY <1>1, BoundAfter

LEMMA DecayBound ==
    ASSUME GInv, DecayStats PROVE GInv'
<1> DEFINE recorded == {o \in Objects : \E a \in Addresses : ipObj[a] = o}
           gone == {o \in recorded : obj[o].connected = 0 /\ obj[o].left = 0}
           ob == [o \in Objects |-> IF o \in recorded /\ obj[o].connected > 0
                                    THEN [obj[o] EXCEPT !.total = @ \div 2] ELSE obj[o]]
<1>1. /\ open \in [GatedPeers -> Nat] /\ peerObj \in [GatedPeers -> Objects \cup {None}]
      /\ obj \in [Objects -> ObjectStates]
      /\ address \in [GatedPeers -> Addresses] /\ ipObj \in [Addresses -> Objects \cup {None}]
  BY DEF GInv, GTyped
<1>2. /\ ipObj' = [a \in Addresses |-> IF ipObj[a] \in gone THEN None ELSE ipObj[a]]
      /\ obj' = Live(ob, peerObj, ipObj')
      /\ open' = open /\ peerObj' = peerObj /\ address' = address
  BY DEF DecayStats
<1>3. ASSUME NEW s \in ObjectStates
      PROVE  /\ [s EXCEPT !.total = @ \div 2] \in ObjectStates
             /\ [s EXCEPT !.total = @ \div 2].connected = s.connected
  <2>1. s.total \div 2 \in Nat
    BY DEF ObjectStates
  <2> QED BY <2>1 DEF ObjectStates
<1>4. ob \in [Objects -> ObjectStates] /\ \A o \in Objects : ob[o].connected = obj[o].connected
  <2> HIDE DEF recorded, ObjectStates
  <2> QED BY <1>1, <1>3
<1> HIDE DEF ob
<1>5. obj' \in [Objects -> ObjectStates]
      /\ \A o \in Objects : obj'[o] = ob[o] \/ obj'[o].connected = 0
  BY <1>2, <1>4, LiveTyped
<1>6. ipObj' \in [Addresses -> Objects \cup {None}]
  BY <1>1, <1>2
<1>7. GTyped'
  BY <1>1, <1>2, <1>5, <1>6 DEF GTyped
<1>8. \A o \in Objects : obj'[o].connected = obj[o].connected \/ obj'[o].connected = 0
  BY <1>4, <1>5
<1> QED BY <1>2, <1>7, <1>8, CountsKept

LEMMA TickBound ==
    ASSUME GInv, GaterTick PROVE GInv'
<1>1. /\ obj \in [Objects -> ObjectStates] /\ GTyped
  BY DEF GInv, GTyped
<1>2. /\ obj' = [o \in Objects |-> [obj[o] EXCEPT !.left = Less(@)]]
      /\ open' = open /\ peerObj' = peerObj /\ address' = address /\ ipObj' = ipObj
  BY DEF GaterTick
<1>3. ASSUME NEW o \in Objects
      PROVE  obj'[o] \in ObjectStates /\ obj'[o].connected = obj[o].connected
  <2>1. Less(obj[o].left) \in Nat /\ obj[o] \in ObjectStates
    BY <1>1, LessNat DEF ObjectStates
  <2>2. obj'[o] = [obj[o] EXCEPT !.left = Less(obj[o].left)]
    BY <1>2
  <2> QED BY <2>1, <2>2 DEF ObjectStates
<1>4. obj' \in [Objects -> ObjectStates]
  BY <1>2, <1>3
<1>5. GTyped'
  BY <1>1, <1>2, <1>4 DEF GTyped
<1> QED BY <1>2, <1>3, <1>5, CountsKept

LEMMA GaterInitInv == GaterInit => GInv
<1> SUFFICES ASSUME GaterInit PROVE GInv
  OBVIOUS
<1>1. NewObj \in ObjectStates /\ NewObj.connected = 0
  BY DEF NewObj, ObjectStates
<1>2. GTyped
  BY <1>1 DEF GaterInit, GTyped, None
<1>3. ASSUME NEW o \in Objects PROVE obj[o].connected <= Streams(o)
  <2>1. obj[o].connected = 0
    BY <1>1 DEF GaterInit
  <2>2. Streams(o) \in Nat
    BY <1>2, ShareTyped
  <2> QED BY <2>1, <2>2
<1> QED BY <1>2, <1>3, StreamsBoundIs DEF GInv

LEMMA GaterStepInv == GInv /\ [GaterNext]_gaterVars => GInv'
<1> SUFFICES ASSUME GInv, [GaterNext]_gaterVars PROVE GInv'
  OBVIOUS
<1>1. /\ GTyped /\ open \in [GatedPeers -> Nat] /\ obj \in [Objects -> ObjectStates]
  BY DEF GInv, GTyped
<1>2. ASSUME NEW p \in GatedPeers, NEW a \in Addresses, Move(p, a) PROVE GInv'
  <2>1. address' \in [GatedPeers -> Addresses]
    BY <1>2 DEF Move, GInv, GTyped
  <2>2. open' = open /\ peerObj' = peerObj /\ ipObj' = ipObj /\ obj' = obj
    BY <1>2 DEF Move
  <2>3. GTyped'
    BY <1>1, <2>1, <2>2 DEF GTyped
  <2> QED BY <2>2, <2>3, CountsKept
<1>3. ASSUME NEW p \in GatedPeers, GaterNewOutboundStream(p) PROVE GInv'
  BY <1>3, NewStreamBound
<1>4. ASSUME NEW p \in GatedPeers, GaterClosedOutboundStream(p) PROVE GInv'
  <2>1. /\ RemovePeerStats(p, TRUE) /\ open' = [open EXCEPT ![p] = Less(@)]
        /\ address' = address /\ ipObj' = ipObj
    BY <1>4 DEF GaterClosedOutboundStream
  <2>2. open' = IF TRUE THEN [open EXCEPT ![p] = Less(@)] ELSE open
    BY <2>1
  <2> QED BY <2>1, <2>2, RemoveBound
<1>5. ASSUME NEW p \in GatedPeers, GaterClosedIncomingStream(p) PROVE GInv'
  <2>1. /\ RemovePeerStats(p, FALSE) /\ open' = open
        /\ address' = address /\ ipObj' = ipObj
    BY <1>5 DEF GaterClosedIncomingStream
  <2>2. open' = IF FALSE THEN [open EXCEPT ![p] = Less(@)] ELSE open
    BY <2>1
  <2> QED BY <2>1, <2>2, RemoveBound
<1>6. ASSUME NEW p \in GatedPeers, GaterCount(p) PROVE GInv'
  <2>1. PICK x : x = PeerStats(p)
    OBVIOUS
  <2>2. obj[x] \in ObjectStates
    BY <1>1, <2>1, PeerStatsTyped
  <2>3. UpTo(MaxEvents, obj[x].total + 1) \in Nat
    BY <2>2, GaterNumbers DEF UpTo, ObjectStates
  <2>4. PICK st : st = [obj[x] EXCEPT !.total = UpTo(MaxEvents, @ + 1)]
    OBVIOUS
  <2>5. st \in ObjectStates /\ st.connected = obj[x].connected
    BY <2>2, <2>3, <2>4 DEF ObjectStates
  <2>6. Bind(p, st) /\ open' = open /\ address' = address
    BY <1>6, <2>1, <2>4 DEF GaterCount
  <2> QED BY <2>1, <2>5, <2>6, BoundCount
<1>7. ASSUME NEW p \in GatedPeers, NEW low \in BOOLEAN, AcceptFrom(p, low) PROVE GInv'
  <2>1. PICK x : x = PeerStats(p)
    OBVIOUS
  <2>2. PICK st : st = obj[x]
    OBVIOUS
  <2>3. st \in ObjectStates /\ st.connected = obj[x].connected
    BY <1>1, <2>1, <2>2, PeerStatsTyped
  <2>4. Bind(p, st) /\ open' = open /\ address' = address
    BY <1>7, <2>1, <2>2 DEF AcceptFrom
  <2> QED BY <2>1, <2>3, <2>4, BoundCount
<1>8. ASSUME UNCHANGED <<open, address, peerObj, ipObj, obj>> PROVE GInv'
  <2>1. GTyped'
    BY <1>1, <1>8 DEF GTyped
  <2> QED BY <1>8, <2>1, CountsKept
<1>9. GaterValidate => UNCHANGED <<open, address, peerObj, ipObj, obj>>
  BY DEF GaterValidate
<1>10. GaterThrottle => UNCHANGED <<open, address, peerObj, ipObj, obj>>
  BY DEF GaterThrottle
<1>11. UNCHANGED gaterVars => UNCHANGED <<open, address, peerObj, ipObj, obj>>
  BY DEF gaterVars
<1> QED BY <1>2, <1>3, <1>4, <1>5, <1>6, <1>7, <1>8, <1>9, <1>10, <1>11, DecayBound, TickBound
        DEF GaterNext

\* An object of the gater never counts more than the streams announced, and not yet
\* reported closed, of the peers bound to it, although peers of one address share it,
\* peers are bound again by late messages (getPeerStats), OnNewOutboundStream may come
\* twice for a peer, and removePeerStats runs for both directions of a connection.
THEOREM StreamsBoundHolds == GaterSpec => []StreamsBound
<1>1. GInv => StreamsBound
  BY DEF GInv
<1> QED BY <1>1, GaterInitInv, GaterStepInv, PTL DEF GaterSpec
===============================================================================
