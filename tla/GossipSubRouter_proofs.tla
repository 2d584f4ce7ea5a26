----------------------- MODULE GossipSubRouter_proofs -----------------------
(***************************************************************************)
(* Proofs about GossipSubRouter, for all peers, topics and parameters that *)
(* GossipSubParams.validate accepts.                                       *)
(***************************************************************************)
EXTENDS GossipSubRouter, Inductions

-----------------------------------------------------------------------------
(* Peer selection.                                                         *)

\* getPeers only returns peers of the topic that speak gossipsub, satisfy the
\* caller's predicate and pass the peer filter.
LEMMA GetPeersSound ==
    ASSUME NEW t, NEW count, NEW ok, NEW g \in GetPeers(t, count, ok)
    PROVE  /\ g \subseteq ok
           /\ g \subseteq topics[t] \cap MeshPeers
           /\ \A p \in g : <<p, t>> \notin Rejected
BY DEF GetPeers, kSubset

\* Trimming a mesh never adds a peer to it.
LEMMA TrimmedSubset ==
    ASSUME NEW A, NEW K \in Trimmed(A)
    PROVE  K \subseteq A
<1>1. ASSUME NEW n, NEW B, NEW T, NEW F \in First(n, B, T)
      PROVE  F \subseteq B
  BY <1>1 DEF First, kSubset
<1>2. ASSUME NEW T, NEW S \in First(D, A, T), NEW R \in Selections(A, T, S)
      PROVE  R \subseteq A
  <2> DEFINE out   == S \cap outbound
             spare == (A \ S) \cap outbound
             n     == IF Cardinality(out) >= Dout THEN 0
                      ELSE Smaller(Dout - Cardinality(out), Cardinality(spare))
  <2>1. PICK r \in First(n, spare, T) \X First(D - Cardinality(out) - n, S \ outbound, T) :
          R = out \cup r[1] \cup r[2]
    BY <1>2 DEF Selections
  <2>2. r[1] \in First(n, spare, T) /\ r[2] \in First(D - Cardinality(out) - n, S \ outbound, T)
    OBVIOUS
  <2> HIDE DEF n
  <2>3. r[1] \subseteq spare /\ r[2] \subseteq S \ outbound
    BY <1>1, <2>2
  <2>4. S \subseteq A
    BY <1>1, <1>2
  <2> QED BY <2>1, <2>3, <2>4
<1>3. CASE Cardinality(A) < Dhi
  BY <1>3 DEF Trimmed
<1>4. CASE ~(Cardinality(A) < Dhi)
  <2>1. K \in UNION {UNION {Selections(A, T, S) : S \in First(D, A, T)} : T \in TopScored(A)}
    BY <1>4 DEF Trimmed
  <2>2. PICK T \in TopScored(A) : K \in UNION {Selections(A, T, S) : S \in First(D, A, T)}
    BY <2>1
  <2>3. PICK S \in First(D, A, T) : K \in Selections(A, T, S)
    BY <2>2
  <2> QED BY <1>2, <2>3
<1> QED BY <1>3, <1>4

\* The heartbeat's choices for one topic: what it refills with, what the trimming
\* leaves, and the outbound and opportunistic GRAFTs.
Chosen(t, backed, turn, o, g1, k, g2, g3) ==
    LET neg == {p \in mesh[t] : score[p] < 0}
        m0  == mesh[t] \ neg
    IN  /\ g1 \in Refill(t, m0, backed \cup neg)
        /\ k \in Trimmed(m0 \cup g1)
        /\ g2 \in OutboundGrafts(t, k, backed \cup mesh[t] \cup g1)
        /\ g3 \in OpportunisticGrafts(t, k \cup g2, backed \cup mesh[t] \cup g1, turn)
        /\ o = [mesh  |-> k \cup g2 \cup g3,
                graft |-> g1 \cup g2 \cup g3,
                prune |-> neg \cup ((m0 \cup g1) \ k)]

LEMMA MeshOutcomesParts ==
    ASSUME NEW t, NEW backed, NEW turn, NEW o \in MeshOutcomes(t, backed, turn)
    PROVE  \E g1, k, g2, g3 : Chosen(t, backed, turn, o, g1, k, g2, g3)
<1> DEFINE neg == {p \in mesh[t] : score[p] < 0}
           m0  == mesh[t] \ neg
           Rec(g1, k, g2, g3) == [mesh  |-> k \cup g2 \cup g3,
                                  graft |-> g1 \cup g2 \cup g3,
                                  prune |-> neg \cup ((m0 \cup g1) \ k)]
           G3(g1, k, g2) == OpportunisticGrafts(t, k \cup g2, backed \cup mesh[t] \cup g1, turn)
           G2(g1, k) == OutboundGrafts(t, k, backed \cup mesh[t] \cup g1)
           After2(g1, k, g2) == {Rec(g1, k, g2, g3) : g3 \in G3(g1, k, g2)}
           After1(g1, k) == UNION {After2(g1, k, g2) : g2 \in G2(g1, k)}
           After0(g1) == UNION {After1(g1, k) : k \in Trimmed(m0 \cup g1)}
<1>1. o \in UNION {After0(g1) : g1 \in Refill(t, m0, backed \cup neg)}
  BY DEF MeshOutcomes
<1>2. PICK g1 \in Refill(t, m0, backed \cup neg) : o \in After0(g1)
  <2> HIDE DEF After0
  <2> QED BY <1>1
<1>3. PICK k \in Trimmed(m0 \cup g1) : o \in After1(g1, k)
  <2> HIDE DEF After1
  <2> QED BY <1>2
<1>4a. PICK g2 \in G2(g1, k) : o \in After2(g1, k, g2)
  <2> HIDE DEF After2
  <2> QED BY <1>3
<1>4. PICK g3 \in G3(g1, k, g2) : o = Rec(g1, k, g2, g3)
  BY <1>4a
<1>5. Chosen(t, backed, turn, o, g1, k, g2, g3)
  BY <1>2, <1>3, <1>4a, <1>4 DEF Chosen
<1> QED BY <1>5

\* The heartbeat only grafts peers that are not backed off, are not direct, have no
\* negative score and pass the filter; it never keeps what it prunes; and what it
\* prunes was in the mesh or was grafted just before.
LEMMA MeshOutcomesSound ==
    ASSUME TypeOK, NEW t \in Topics, NEW backed, NEW turn, NEW o \in MeshOutcomes(t, backed, turn)
    PROVE  /\ o.mesh \subseteq Peers /\ o.graft \subseteq Peers /\ o.prune \subseteq Peers
           /\ o.mesh \cap o.prune = {}
           /\ \A p \in o.mesh \ mesh[t] :
                 p \notin backed /\ p \notin direct /\ score[p] >= 0 /\ <<p, t>> \notin Rejected
<1> DEFINE neg == {p \in mesh[t] : score[p] < 0}
           m0  == mesh[t] \ neg
           Ok(S) == \A p \in S : /\ p \in Peers \ direct /\ p \notin backed
                                 /\ score[p] >= 0 /\ <<p, t>> \notin Rejected
<1>1. PICK g1, k, g2, g3 : Chosen(t, backed, turn, o, g1, k, g2, g3)
  BY MeshOutcomesParts
<1>2. g1 \in Refill(t, m0, backed \cup neg) /\ k \in Trimmed(m0 \cup g1)
  BY <1>1 DEF Chosen
<1>3. g2 \in OutboundGrafts(t, k, backed \cup mesh[t] \cup g1)
  BY <1>1 DEF Chosen
<1>4. /\ g3 \in OpportunisticGrafts(t, k \cup g2, backed \cup mesh[t] \cup g1, turn)
      /\ o = [mesh  |-> k \cup g2 \cup g3,
              graft |-> g1 \cup g2 \cup g3,
              prune |-> neg \cup ((m0 \cup g1) \ k)]
  BY <1>1 DEF Chosen
<1>5. mesh[t] \subseteq Peers /\ \A p \in Peers : score[p] \in Int
  BY ScoreAssumption DEF TypeOK
<1>6. Ok(g1) /\ g1 \cap neg = {}
  <2>1. CASE g1 = {}
    BY <2>1
  <2>2. CASE g1 # {}
    <3>1. g1 \in GetPeers(t, D - Cardinality(m0), Graftable(m0, backed \cup neg))
      BY <1>2, <2>2 DEF Refill
    <3> QED BY <3>1, GetPeersSound DEF Graftable
  <2> QED BY <2>1, <2>2
<1>7. k \subseteq m0 \cup g1
  BY <1>2, TrimmedSubset
<1>8. Ok(g2) /\ g2 \cap (mesh[t] \cup g1) = {}
  <2>1. CASE g2 = {}
    BY <2>1
  <2>2. CASE g2 # {}
    <3> DEFINE n == Dout - Cardinality(k \cap outbound)
               C == Graftable(k, backed \cup mesh[t] \cup g1) \cap outbound
    <3>1. g2 \in GetPeers(t, n, C)
      BY <1>3, <2>2 DEF OutboundGrafts
    <3>2. g2 \subseteq C /\ \A p \in g2 : <<p, t>> \notin Rejected
      <4> HIDE DEF n, C
      <4> QED BY <3>1, GetPeersSound
    <3> QED BY <3>2 DEF Graftable
  <2> QED BY <2>1, <2>2
<1>9. Ok(g3) /\ g3 \cap (mesh[t] \cup g1) = {}
  <2>1. CASE g3 = {}
    BY <2>1
  <2>2. CASE g3 # {}
    <3> DEFINE M == k \cup g2
               backed2 == backed \cup mesh[t] \cup g1
               Better(x) == {p \in Peers \ (M \cup backed2 \cup direct) : score[p] > score[x]}
    <3>1. PICK x \in M : g3 \in GetPeers(t, OpportunisticGraftPeers, Better(x))
      BY <1>4, <2>2 DEF OpportunisticGrafts
    <3>2. g3 \subseteq Better(x) /\ \A p \in g3 : <<p, t>> \notin Rejected
      BY <3>1, GetPeersSound
    <3>3. x \in Peers /\ score[x] >= 0
      <4>1. \A p \in m0 : p \in Peers /\ score[p] >= 0
        BY <1>5
      <4> HIDE DEF m0
      <4> QED BY <1>6, <1>7, <1>8, <4>1
    <3> QED BY <1>5, <3>2, <3>3
  <2> QED BY <2>1, <2>2
<1>10. o.mesh = k \cup g2 \cup g3 /\ o.graft = g1 \cup g2 \cup g3
       /\ o.prune = neg \cup ((m0 \cup g1) \ k)
  BY <1>4
<1> QED
  <2>1. o.mesh \subseteq Peers /\ o.graft \subseteq Peers /\ o.prune \subseteq Peers
    BY <1>5, <1>6, <1>7, <1>8, <1>9, <1>10
  <2>2. o.mesh \cap o.prune = {}
    BY <1>6, <1>7, <1>8, <1>9, <1>10
  <2>3. ASSUME NEW p \in o.mesh \ mesh[t]
        PROVE  p \notin backed /\ p \notin direct /\ score[p] >= 0 /\ <<p, t>> \notin Rejected
    BY <1>6, <1>7, <1>8, <1>9, <1>10
  <2> QED BY <2>1, <2>2, <2>3

\* Join takes over fanout peers and grafts others, all of them eligible, as far as
\* the fanout passes the filter.
LEMMA JoinMeshesSound ==
    ASSUME TypeOK, NEW t \in Topics, NEW m \in JoinMeshes(t)
    PROVE  /\ m \subseteq Peers
           /\ \A p \in m : score[p] >= 0 /\ p \notin InBackoff(t)
           /\ \A p \in m \ fanout[t] : p \notin direct /\ <<p, t>> \notin Rejected
<1> DEFINE base == FanoutSurvivors(t)
           n    == D - Cardinality(base)
           C    == Graftable(base, InBackoff(t))
<1>1. base \subseteq fanout[t] /\ base \subseteq Peers
      /\ \A p \in base : score[p] >= 0 /\ p \notin InBackoff(t)
  BY DEF FanoutSurvivors, TypeOK
<1>2. CASE m = base
  BY <1>1, <1>2
<1>3. CASE m # base
  <2>1. PICK g \in GetPeers(t, n, C) : m = base \cup g
    BY <1>3 DEF JoinMeshes
  <2>2. g \subseteq C /\ \A p \in g : <<p, t>> \notin Rejected
    <3> HIDE DEF n, C
    <3> QED BY <2>1, GetPeersSound
  <2>3. \A p \in C : p \in Peers /\ p \notin direct /\ score[p] >= 0 /\ p \notin InBackoff(t)
    BY DEF Graftable
  <2> HIDE DEF base, C
  <2> QED BY <1>1, <2>1, <2>2, <2>3
<1> QED BY <1>2, <1>3

\* The heartbeat and publishing fill a fanout with peers that pass the filter and are
\* not direct.
LEMMA FanoutOutcomesSound ==
    ASSUME TypeOK, NEW t \in Topics, NEW f \in FanoutOutcomes(t) \cup FanoutForPublishing(t)
    PROVE  /\ f \subseteq Peers
           /\ \A p \in f \ fanout[t] : <<p, t>> \notin Rejected /\ p \notin direct
<1>1. CASE f \in FanoutOutcomes(t)
  <2> DEFINE kept == {p \in fanout[t] \cap topics[t] : score[p] >= PublishThreshold}
             more == {p \in Peers \ (kept \cup direct) : score[p] >= PublishThreshold}
             n    == D - Cardinality(kept)
  <2>1. /\ kept \subseteq Peers /\ more \subseteq Peers /\ kept \subseteq fanout[t]
        /\ more \cap direct = {}
    BY DEF TypeOK
  <2>2. CASE f = kept
    BY <2>1, <2>2
  <2>3. CASE f # kept
    <3>1. PICK g \in GetPeers(t, n, more) : f = kept \cup g
      BY <1>1, <2>3 DEF FanoutOutcomes
    <3> HIDE DEF n, more, kept
    <3>2. g \subseteq more /\ \A p \in g : <<p, t>> \notin Rejected
      BY <3>1, GetPeersSound
    <3> QED BY <2>1, <3>1, <3>2
  <2> QED BY <2>2, <2>3
<1>2. CASE f \in FanoutForPublishing(t)
  <2> DEFINE ok == {p \in Peers \ direct : score[p] >= PublishThreshold}
  <2>1. CASE f = fanout[t]
    BY <2>1 DEF TypeOK
  <2>2. CASE f # fanout[t]
    <3>1. f \in GetPeers(t, D, ok)
      BY <1>2, <2>2 DEF FanoutForPublishing
    <3>2. ok \subseteq Peers /\ ok \cap direct = {}
      OBVIOUS
    <3> HIDE DEF ok
    <3> QED BY <3>1, <3>2, GetPeersSound
  <2> QED BY <2>1, <2>2
<1> QED BY <1>1, <1>2

-----------------------------------------------------------------------------
(* Send queues.                                                            *)

LinkOK == {lk \in Link : Backlog(lk) <= QueueSize}

\* The writer goroutine leaves a well-formed queue that is no longer than before.
LEMMA WrittenSound ==
    ASSUME NEW lk \in Link, NEW k \in Nat
    PROVE  Written(lk, k) \in Link /\ Backlog(Written(lk, k)) <= Backlog(lk)
<1> DEFINE np == Smaller(k, Len(lk.priority))
           nn == Smaller(k - np, Len(lk.normal))
           s  == SubSeq(lk.priority, 1, np) \o SubSeq(lk.normal, 1, nn)
           N  == SubSeq(lk.normal, nn + 1, Len(lk.normal))
           P  == SubSeq(lk.priority, np + 1, Len(lk.priority))
           T  == [t \in Topics |-> LastWord(s, t, lk.told[t])]
<1>1. lk.normal \in Seq(Ctl) /\ lk.priority \in Seq(Ctl) /\ lk.control \in Ctl
      /\ lk.told \in [Topics -> {"none", "graft", "prune"}]
  BY DEF Link
<1>2. np \in 0 .. Len(lk.priority) /\ nn \in 0 .. Len(lk.normal)
  BY <1>1 DEF Smaller
<1>3. N \in Seq(Ctl) /\ Len(N) <= Len(lk.normal)
  <2> HIDE DEF nn
  <2> QED BY <1>1, <1>2
<1>4. P \in Seq(Ctl) /\ Len(P) <= Len(lk.priority)
  <2> HIDE DEF np
  <2> QED BY <1>1, <1>2
<1>5. T \in [Topics -> {"none", "graft", "prune"}]
  <2> HIDE DEF s
  <2> QED BY <1>1 DEF LastWord
<1>6. Written(lk, k) = [normal |-> N, priority |-> P, control |-> lk.control, told |-> T]
  BY DEF Written
<1> HIDE DEF N, P, T
<1> QED BY <1>1, <1>3, <1>4, <1>5, <1>6 DEF Link, Backlog

\* The parameters are numbers.
LEMMA ParamTypes ==
    /\ D \in Nat /\ Dlo \in Nat /\ Dhi \in Nat /\ QueueSize \in Nat /\ FanoutTTL \in Nat
    /\ BackoffSlack \in Nat /\ PruneBackoff \in Nat /\ UnsubscribeBackoff \in Nat
    /\ OpportunisticGraftTicks \in Nat \ {0} /\ ClearBackoffTicks \in Nat \ {0}
BY ParamAssumption

\* One more RPC in a queue that has room for it.
LEMMA AppendSound ==
    ASSUME NEW l \in LinkOK, Backlog(l) # QueueSize, NEW c \in Ctl
    PROVE  /\ [l EXCEPT !.priority = Append(@, c)] \in LinkOK
           /\ [l EXCEPT !.normal = Append(@, c)] \in LinkOK
<1> DEFINE lp == l.priority
           ln == l.normal
           P == Append(lp, c)
           N == Append(ln, c)
           x == [l EXCEPT !.priority = P]
           y == [l EXCEPT !.normal = N]
<1>1. l \in Link /\ lp \in Seq(Ctl) /\ ln \in Seq(Ctl)
  BY DEF LinkOK, Link
<1>2. QueueSize \in Nat /\ Backlog(l) <= QueueSize /\ Backlog(l) = Len(lp) + Len(ln)
  BY ParamTypes DEF LinkOK, Backlog
<1>3. x \in Link /\ Backlog(x) = Len(P) + Len(ln)
  <2>1. P \in Seq(Ctl)
    BY <1>1
  <2> HIDE DEF P
  <2> QED BY <1>1, <2>1 DEF Link, Backlog
<1>4. y \in Link /\ Backlog(y) = Len(lp) + Len(N)
  <2>1. N \in Seq(Ctl)
    BY <1>1
  <2> HIDE DEF N
  <2> QED BY <1>1, <2>1 DEF Link, Backlog
<1> HIDE DEF lp, ln, x, y
<1>5. Backlog(x) <= QueueSize /\ Backlog(y) <= QueueSize
  BY <1>1, <1>2, <1>3, <1>4
<1>6. x \in LinkOK /\ y \in LinkOK
  BY <1>3, <1>4, <1>5 DEF LinkOK
<1> QED BY <1>6 DEF x, y, lp, ln

\* So are all the queues that the writer can leave before the next push.
LEMMA WrittenOK ==
    ASSUME NEW lk \in LinkOK, NEW k \in Nat
    PROVE  Written(lk, k) \in LinkOK
<1>1. lk \in Link /\ Backlog(lk) \in Nat /\ Backlog(lk) <= QueueSize
  BY DEF LinkOK, Link, Backlog
<1>2. Written(lk, k) \in Link /\ Backlog(Written(lk, k)) <= Backlog(lk)
  BY <1>1, WrittenSound
<1>3. ASSUME NEW w \in Link PROVE Backlog(w) \in Nat
  BY DEF Link, Backlog
<1> QED BY <1>1, <1>2, <1>3, ParamTypes DEF LinkOK

LEMMA DrainedSound ==
    ASSUME NEW p, NEW lk \in LinkOK
    PROVE  Drained(p, lk) \subseteq LinkOK
<1>1. Backlog(lk) \in Nat
  BY DEF LinkOK, Link, Backlog
<1>2. \A k \in 0 .. (IF p \in peers THEN Backlog(lk) ELSE 0) : k \in Nat
  BY <1>1
<1> QED BY <1>2, WrittenOK DEF Drained

LEMMA PushControlSound ==
    ASSUME NEW lk \in LinkOK, NEW c \in Ctl
    PROVE  PushControl(lk, c) \in LinkOK
BY DEF PushControl, LinkOK, Link, Backlog

\* A push fits into the queue or is refused.
LEMMA DoSendRPCSound ==
    ASSUME NEW p, NEW lk \in LinkOK, NEW c \in Ctl, NEW urgent
    PROVE  DoSendRPC(p, lk, c, urgent) \subseteq LinkOK
<1> SUFFICES ASSUME NEW x \in DoSendRPC(p, lk, c, urgent) PROVE x \in LinkOK
  OBVIOUS
<1>1. PICK l \in Drained(p, lk) :
        x = IF Backlog(l) = QueueSize THEN PushControl(l, c)
            ELSE IF urgent THEN [l EXCEPT !.priority = Append(@, c)]
            ELSE [l EXCEPT !.normal = Append(@, c)]
  BY DEF DoSendRPC
<1>2. l \in LinkOK
  BY DrainedSound
<1>3. CASE Backlog(l) = QueueSize
  BY <1>1, <1>2, <1>3, PushControlSound
<1>4. CASE Backlog(l) # QueueSize
  BY <1>1, <1>2, <1>4, AppendSound
<1> QED BY <1>3, <1>4

\* sendRPC keeps the queue within its bound, whatever is pending for the peer.
LEMMA SendRPCSound ==
    ASSUME NEW p, NEW lk \in LinkOK, NEW out \in Ctl, NEW gossip, NEW urgent, NEW m
    PROVE  SendRPC(p, lk, out, gossip, urgent, m) \subseteq LinkOK
<1> DEFINE c   == Fresh(p, lk.control, m)
           lk0 == [lk EXCEPT !.control = NoCtl]
           lks == IF c # NoCtl \/ gossip THEN DoSendRPC(p, lk0, c, urgent) ELSE {lk0}
<1>1. c \in Ctl
  BY DEF LinkOK, Link, Ctl, Fresh
<1>2. lk0 \in LinkOK
  BY DEF LinkOK, Link, Ctl, NoCtl, Backlog
<1>3. lks \subseteq LinkOK
  <2> HIDE DEF c, lk0
  <2> QED BY <1>1, <1>2, DoSendRPCSound
<1>4. CASE p \notin hasQueue
  BY <1>4, PushControlSound DEF SendRPC
<1>5. CASE p \in hasQueue
  <2>1. SendRPC(p, lk, out, gossip, urgent, m) = UNION {DoSendRPC(p, l, out, urgent) : l \in lks}
    BY <1>5 DEF SendRPC
  <2> HIDE DEF lks
  <2> QED BY <1>3, <2>1, DoSendRPCSound
<1> QED BY <1>4, <1>5

LEMMA AnnounceSound ==
    ASSUME NEW p, NEW lk \in LinkOK
    PROVE  Announce(p, lk) \subseteq LinkOK
<1> SUFFICES ASSUME NEW x \in Announce(p, lk) PROVE x \in LinkOK
  OBVIOUS
<1>1. CASE p \notin hasQueue
  BY <1>1 DEF Announce
<1>2. CASE p \in hasQueue
  <2>1. PICK l \in Drained(p, lk) :
          x = IF Backlog(l) = QueueSize THEN l ELSE [l EXCEPT !.normal = Append(@, NoCtl)]
    BY <1>2 DEF Announce
  <2>2. l \in LinkOK /\ NoCtl \in Ctl
    BY DrainedSound DEF NoCtl, Ctl
  <2>3. CASE Backlog(l) = QueueSize
    BY <2>1, <2>2, <2>3
  <2>4. CASE Backlog(l) # QueueSize
    BY <2>1, <2>2, <2>4, AppendSound
  <2> QED BY <2>3, <2>4
<1> QED BY <1>1, <1>2

\* sendGraftPrune and flush.
LEMMA HeartbeatLinksSound ==
    ASSUME NEW p \in LaggingPeers, link[p] \in LinkOK, NEW out \in Ctl, NEW gossip, NEW m
    PROVE  HeartbeatLinks(p, out, gossip, m) \subseteq LinkOK
<1> DEFINE sent  == IF out # NoCtl THEN SendRPC(p, link[p], out, gossip, FALSE, m) ELSE {link[p]}
           flush == IF out = NoCtl /\ gossip
                    THEN UNION {SendRPC(p, l, NoCtl, FALSE, FALSE, m) : l \in sent} ELSE sent
<1>0. NoCtl \in Ctl
  BY DEF NoCtl, Ctl
<1>1. sent \subseteq LinkOK
  BY SendRPCSound
<1>2. flush \subseteq LinkOK
  <2> HIDE DEF sent
  <2>1. \A l \in sent : SendRPC(p, l, NoCtl, FALSE, FALSE, m) \subseteq LinkOK
    BY <1>0, <1>1, SendRPCSound
  <2> QED BY <1>1, <2>1
<1>3. ASSUME NEW l \in flush
      PROVE  (IF l.control = NoCtl THEN {l}
              ELSE SendRPC(p, [l EXCEPT !.control = NoCtl], l.control, FALSE, FALSE, m))
             \subseteq LinkOK
  <2> HIDE DEF flush
  <2>1. l \in LinkOK /\ l.control \in Ctl
    BY <1>2, <1>3 DEF LinkOK, Link
  <2>2. [l EXCEPT !.control = NoCtl] \in LinkOK
    BY <1>0, <2>1 DEF LinkOK, Link, Backlog
  <2> QED BY <2>1, <2>2, SendRPCSound
<1>4. HeartbeatLinks(p, out, gossip, m) =
        UNION {IF l.control = NoCtl THEN {l}
               ELSE SendRPC(p, [l EXCEPT !.control = NoCtl], l.control, FALSE, FALSE, m) :
                 l \in flush}
  BY DEF HeartbeatLinks
<1> HIDE DEF flush
<1> QED BY <1>3, <1>4

\* Picking one well-formed outcome for every lagging peer.
LEMMA LinkChoicesSound ==
    ASSUME NEW outcomes, NEW f \in LinkChoices(outcomes),
           \A p \in LaggingPeers : outcomes[p] \subseteq LinkOK
    PROVE  f \in [LaggingPeers -> LinkOK]
BY DEF LinkChoices

-----------------------------------------------------------------------------
(* Type correctness.                                                       *)

LEMMA LinkOKTypes ==
    \A f : f \in [LaggingPeers -> LinkOK]
             <=> /\ f \in [LaggingPeers -> Link]
                 /\ \A p \in LaggingPeers : Backlog(f[p]) <= QueueSize
BY DEF LinkOK

LEMMA EmptyLinkOK ==
    ASSUME NEW c \in Ctl
    PROVE  [EmptyLink EXCEPT !.control = c] \in LinkOK /\ EmptyLink \in LinkOK
<1> DEFINE told0 == [t \in Topics |-> "none"]
           e == [EmptyLink EXCEPT !.control = c]
<1>1. told0 \in [Topics -> {"none", "graft", "prune"}] /\ NoCtl \in Ctl /\ <<>> \in Seq(Ctl)
  BY DEF NoCtl, Ctl
<1>2. EmptyLink = [normal |-> <<>>, priority |-> <<>>, control |-> NoCtl, told |-> told0]
  BY DEF EmptyLink
<1>3. e = [normal |-> <<>>, priority |-> <<>>, control |-> c, told |-> told0]
  BY <1>2
<1> HIDE DEF told0, e
<1>4. EmptyLink \in Link /\ e \in Link
  BY <1>1, <1>2, <1>3 DEF Link
<1>5. EmptyLink.normal = <<>> /\ EmptyLink.priority = <<>> /\ e.normal = <<>> /\ e.priority = <<>>
  BY <1>2, <1>3
<1>6. Backlog(EmptyLink) = 0 /\ Backlog(e) = 0
  BY <1>5 DEF Backlog
<1>7. EmptyLink \in LinkOK /\ e \in LinkOK
  BY <1>4, <1>6, ParamTypes DEF LinkOK
<1> QED BY <1>7 DEF e

\* Backoffs stay in their range.
LEMMA BackoffTypes ==
    /\ Absent \in Int /\ Expired \in Int /\ MaxBackoff \in Nat
    /\ Absent < Expired /\ Expired < 0
    /\ PruneBackoff \in Absent .. MaxBackoff /\ UnsubscribeBackoff \in Absent .. MaxBackoff
    /\ PeerBackoffs \subseteq Absent .. MaxBackoff
<1>1. BackoffSlack \in Nat
  BY ParamTypes
<1>2. Absent \in Int /\ Expired \in Int /\ Absent < Expired /\ Expired < 0
  BY <1>1 DEF Absent, Expired
<1>3. MaxBackoff \in 0 .. MaxBackoff /\ PruneBackoff \in 0 .. MaxBackoff
      /\ UnsubscribeBackoff \in 0 .. MaxBackoff /\ PeerBackoffs \subseteq Expired .. MaxBackoff
  BY BackoffAssumption
<1> QED BY <1>2, <1>3

LEMMA AddBackoffTypes ==
    ASSUME NEW b \in [Peers -> Absent .. MaxBackoff], NEW S, NEW i \in Absent .. MaxBackoff
    PROVE  AddBackoff(b, S, i) \in [Peers -> Absent .. MaxBackoff]
BY BackoffTypes DEF AddBackoff, Larger

LEMMA TypeInit == Init => TypeOK
<1> SUFFICES ASSUME Init PROVE TypeOK
  OBVIOUS
<1>1. link \in [LaggingPeers -> LinkOK]
  <2>1. NoCtl \in Ctl
    BY DEF NoCtl, Ctl
  <2>2. EmptyLink \in LinkOK
    BY <2>1, EmptyLinkOK
  <2> QED BY <2>2 DEF Init
<1>2. backoff \in [Topics -> [Peers -> Absent .. MaxBackoff]]
  BY BackoffTypes DEF Init
<1>3. lastpub \in [Topics -> -1 .. FanoutTTL + 1]
  BY ParamTypes DEF Init
<1>4. ticks \in 0 .. TickPeriod - 1
  <2>1. TickPeriod \in Nat \ {0}
    BY ParamTypes, Z3 DEF TickPeriod
  <2> QED BY <2>1 DEF Init
<1>5. OutboundInit \subseteq Peers /\ DirectInit \subseteq Peers
  BY SetAssumption
<1>6. score \in [Peers -> Scores]
  BY ScoreAssumption DEF Init
<1> QED BY <1>1, <1>2, <1>3, <1>4, <1>5, <1>6, LinkOKTypes DEF Init, TypeOK

\* What TypeOK says of everything but the send queues.
StateOK ==
    /\ topics \in [Topics -> SUBSET Peers] /\ inbound \subseteq Peers
    /\ hasQueue \subseteq Peers /\ peers \subseteq Peers /\ outbound \subseteq Peers
    /\ direct \subseteq Peers
    /\ joined \subseteq Topics /\ mesh \in [Topics -> SUBSET Peers]
    /\ fanoutTopics \subseteq Topics /\ fanout \in [Topics -> SUBSET Peers]
    /\ lastpub \in [Topics -> -1 .. FanoutTTL + 1]
    /\ backoff \in [Topics -> [Peers -> Absent .. MaxBackoff]]
    /\ score \in [Peers -> Scores]
    /\ ticks \in 0 .. TickPeriod - 1

LinksOK == link \in [LaggingPeers -> LinkOK]

LEMMA TypeSplit == (TypeOK <=> StateOK /\ LinksOK) /\ (TypeOK' <=> StateOK' /\ LinksOK')
BY LinkOKTypes DEF TypeOK, StateOK, LinksOK

\* The handlers of local calls.
LEMMA LocalTypes == TypeOK /\ LocalNext => TypeOK'
<1> SUFFICES ASSUME TypeOK, LocalNext PROVE StateOK' /\ LinksOK'
  BY TypeSplit
<1>0. StateOK /\ LinksOK
  BY TypeSplit
<1>C. \A T \in SUBSET Topics : Graft(T) \in Ctl /\ Prune(T) \in Ctl /\ NoCtl \in Ctl
  BY DEF Graft, Prune, NoCtl, Ctl
<1>1. ASSUME NEW t \in Topics, JoinTopic(t) PROVE StateOK' /\ LinksOK'
  <2>1. PICK m \in JoinMeshes(t) : mesh' = [mesh EXCEPT ![t] = m]
    BY <1>1 DEF JoinTopic
  <2>2. m \subseteq Peers
    BY JoinMeshesSound
  <2>3. StateOK'
    BY <1>0, <1>1, <2>1, <2>2, ParamTypes
       DEF JoinTopic, StateOK, FanoutAfterJoin, subVars, peerVars
  <2> DEFINE Sent(p) == UNION {SendRPC(p, l, Graft({t}), FALSE, FALSE, mesh') :
                                 l \in Announce(p, link[p])}
             out == [p \in LaggingPeers |->
                       IF p \notin mesh'[t] THEN Announce(p, link[p]) ELSE Sent(p)]
  <2>4. \A p \in LaggingPeers : out[p] \subseteq LinkOK
    <3>1. ASSUME NEW p \in LaggingPeers
          PROVE  Announce(p, link[p]) \subseteq LinkOK /\ Sent(p) \subseteq LinkOK
      <4>1. link[p] \in LinkOK /\ Graft({t}) \in Ctl
        BY <1>0, <1>C DEF LinksOK
      <4>2. Announce(p, link[p]) \subseteq LinkOK
        BY <4>1, AnnounceSound
      <4>3. ASSUME NEW l \in Announce(p, link[p])
            PROVE  SendRPC(p, l, Graft({t}), FALSE, FALSE, mesh') \subseteq LinkOK
        BY <4>1, <4>2, SendRPCSound
      <4> QED BY <4>2, <4>3
    <3> HIDE DEF Sent
    <3> QED BY <3>1
  <2>5. link' \in LinkChoices(out)
    BY <1>1 DEF JoinTopic
  <2>6. LinksOK'
    <3> HIDE DEF out
    <3> QED BY <2>4, <2>5, LinkChoicesSound DEF LinksOK
  <2> QED BY <2>3, <2>6
<1>2. ASSUME NEW t \in Topics, LeaveTopic(t) PROVE StateOK' /\ LinksOK'
  <2>1. LeaveBackoff(t) \in [Peers -> Absent .. MaxBackoff]
    BY <1>0, AddBackoffTypes, BackoffTypes DEF LeaveBackoff, StateOK
  <2>3. StateOK'
    BY <1>0, <1>2, <2>1 DEF LeaveTopic, StateOK, subVars, peerVars, fanVars
  <2> DEFINE Sent(p) == UNION {SendRPC(p, l, Prune({t}), FALSE, FALSE, mesh') :
                                 l \in Announce(p, link[p])}
             out == [p \in LaggingPeers |->
                       IF p \notin mesh[t] THEN Announce(p, link[p]) ELSE Sent(p)]
  <2>4. \A p \in LaggingPeers : out[p] \subseteq LinkOK
    <3>1. ASSUME NEW p \in LaggingPeers
          PROVE  Announce(p, link[p]) \subseteq LinkOK /\ Sent(p) \subseteq LinkOK
      <4>1. link[p] \in LinkOK /\ Prune({t}) \in Ctl
        BY <1>0, <1>C DEF LinksOK
      <4>2. Announce(p, link[p]) \subseteq LinkOK
        BY <4>1, AnnounceSound
      <4>3. ASSUME NEW l \in Announce(p, link[p])
            PROVE  SendRPC(p, l, Prune({t}), FALSE, FALSE, mesh') \subseteq LinkOK
        BY <4>1, <4>2, SendRPCSound
      <4> QED BY <4>2, <4>3
    <3> HIDE DEF Sent
    <3> QED BY <3>1
  <2>5. link' \in LinkChoices(out)
    BY <1>2 DEF LeaveTopic
  <2>6. LinksOK'
    <3> HIDE DEF out
    <3> QED BY <2>4, <2>5, LinkChoicesSound DEF LinksOK
  <2> QED BY <2>3, <2>6
<1>3. ASSUME NEW t \in Topics, NEW local \in BOOLEAN, NEW skip, Publish(t, local, skip)
      PROVE  StateOK' /\ LinksOK'
  <2> DEFINE meshed == t \in joined \/ (FloodPublish /\ local)
  <2>1. PICK gmap \in IF meshed THEN {mesh[t]} ELSE FanoutForPublishing(t) :
          /\ IF meshed THEN UNCHANGED fanVars
             ELSE /\ fanoutTopics' = IF gmap = {} THEN fanoutTopics ELSE fanoutTopics \cup {t}
                  /\ fanout' = [fanout EXCEPT ![t] = gmap]
                  /\ lastpub' = [lastpub EXCEPT ![t] = 0]
          /\ link' \in LinkChoices([p \in LaggingPeers |->
                IF p \in ToSend(t, local, gmap) \ skip
                THEN SendRPC(p, link[p], NoCtl, FALSE, FALSE, mesh) ELSE {link[p]}])
    BY <1>3 DEF Publish
  <2>2. StateOK'
    <3>1. meshed \/ gmap \subseteq Peers
      BY <2>1, FanoutOutcomesSound
    <3> HIDE DEF meshed
    <3> QED BY <1>0, <1>3, <2>1, <3>1, ParamTypes
         DEF Publish, StateOK, subVars, peerVars, meshVars, fanVars
  <2>3. ASSUME NEW p \in LaggingPeers
        PROVE  SendRPC(p, link[p], NoCtl, FALSE, FALSE, mesh) \subseteq LinkOK
               /\ {link[p]} \subseteq LinkOK
    <3>1. link[p] \in LinkOK /\ NoCtl \in Ctl
      BY <1>0, <1>C DEF LinksOK
    <3> QED BY <3>1, SendRPCSound
  <2>4. LinksOK'
    <3> DEFINE out == [p \in LaggingPeers |->
                IF p \in ToSend(t, local, gmap) \ skip
                THEN SendRPC(p, link[p], NoCtl, FALSE, FALSE, mesh) ELSE {link[p]}]
    <3>1. \A p \in LaggingPeers : out[p] \subseteq LinkOK
      BY <2>3
    <3>2. link' \in LinkChoices(out)
      BY <2>1
    <3> HIDE DEF out
    <3> QED BY <3>1, <3>2, LinkChoicesSound DEF LinksOK
  <2> QED BY <2>2, <2>4
<1>4. ASSUME NEW t \in Topics, NEW skip, Preprocess(t, skip) PROVE StateOK' /\ LinksOK'
  <2>1. StateOK'
    BY <1>0, <1>4 DEF Preprocess, StateOK, subVars, peerVars, meshVars, fanVars
  <2>2. ASSUME NEW p \in LaggingPeers
        PROVE  SendRPC(p, link[p], NoCtl, FALSE, TRUE, mesh) \subseteq LinkOK
               /\ {link[p]} \subseteq LinkOK
    <3>1. link[p] \in LinkOK /\ NoCtl \in Ctl
      BY <1>0, <1>C DEF LinksOK
    <3> QED BY <3>1, SendRPCSound
  <2>3. LinksOK'
    <3> DEFINE out == [p \in LaggingPeers |->
                IF p \in (mesh[t] \cap MeshPeers) \ skip
                THEN SendRPC(p, link[p], NoCtl, FALSE, TRUE, mesh) ELSE {link[p]}]
    <3>1. \A p \in LaggingPeers : out[p] \subseteq LinkOK
      BY <2>2
    <3>2. link' \in LinkChoices(out)
      BY <1>4 DEF Preprocess
    <3> HIDE DEF out
    <3> QED BY <3>1, <3>2, LinkChoicesSound DEF LinksOK
  <2> QED BY <2>1, <2>3
<1>5. ASSUME NEW p \in DirectCandidates, AddDirectPeer(p) \/ RemoveDirectPeer(p)
      PROVE  StateOK' /\ LinksOK'
  BY <1>0, <1>5, SetAssumption
     DEF AddDirectPeer, RemoveDirectPeer, StateOK, LinksOK, subVars, peerVars, meshVars, fanVars
<1>6. ASSUME NEW p \in LaggingPeers, WriteRPC(p) PROVE StateOK' /\ LinksOK'
  <2>1. StateOK'
    BY <1>0, <1>6 DEF WriteRPC, StateOK, subVars, peerVars, meshVars, fanVars
  <2>2. Written(link[p], 1) \in LinkOK
    <3>1. link[p] \in LinkOK
      BY <1>0 DEF LinksOK
    <3> QED BY <3>1, WrittenOK
  <2>3. LinksOK'
    BY <1>0, <1>6, <2>2 DEF WriteRPC, LinksOK
  <2> QED BY <2>1, <2>3
<1> QED BY <1>1, <1>2, <1>3, <1>4, <1>5, <1>6 DEF LocalNext

\* The handlers of what peers send, and changes of score.
LEMMA RemoteTypes == TypeOK /\ RemoteNext => TypeOK'
<1> SUFFICES ASSUME TypeOK, RemoteNext PROVE StateOK' /\ LinksOK'
  BY TypeSplit
<1>0. StateOK /\ LinksOK
  BY TypeSplit
<1>1. ASSUME NEW p \in Peers, NEW t \in Topics, NEW sub \in BOOLEAN, HandleSubscription(p, t, sub)
      PROVE  StateOK' /\ LinksOK'
  BY <1>0, <1>1 DEF HandleSubscription, StateOK, LinksOK, peerVars, meshVars, fanVars
<1>2. ASSUME NEW p \in Peers, NEW graft \in SUBSET Topics, NEW prune \in SUBSET Topics,
             NEW interval \in PeerBackoffs \cup {PruneBackoff}, NEW reply,
             HandleControl(p, graft, prune, interval, reply)
      PROVE  StateOK' /\ LinksOK'
  <2> DEFINE refused == GraftRefused(p, graft)
             pruned  == prune \cap joined
             known   == GraftKnown(p, graft)
             b1(t)   == AddBackoff(backoff[t], IF t \in refused /\ p \notin direct
                                               THEN {p} ELSE {}, PruneBackoff)
             b2(t)   == AddBackoff(b1(t), IF t \in pruned THEN {p} ELSE {}, interval)
  <2>1. mesh' \in [Topics -> SUBSET Peers]
    <3>1. mesh' = [t \in Topics |-> IF t \in pruned THEN mesh[t] \ {p}
                                    ELSE IF t \in known \ refused THEN mesh[t] \cup {p}
                                    ELSE mesh[t]]
      BY <1>2 DEF HandleControl
    <3> HIDE DEF refused, pruned, known
    <3> QED BY <1>0, <3>1 DEF StateOK
  <2>2. backoff' \in [Topics -> [Peers -> Absent .. MaxBackoff]]
    <3>1. backoff' = [t \in Topics |-> b2(t)]
      BY <1>2 DEF HandleControl
    <3>2. ASSUME NEW t \in Topics PROVE b2(t) \in [Peers -> Absent .. MaxBackoff]
      <4>1. b1(t) \in [Peers -> Absent .. MaxBackoff]
        BY <1>0, AddBackoffTypes, BackoffTypes DEF StateOK
      <4>2. interval \in Absent .. MaxBackoff
        BY BackoffTypes
      <4> HIDE DEF b1
      <4> QED BY <4>1, <4>2, AddBackoffTypes
    <3> HIDE DEF b2
    <3> QED BY <3>1, <3>2
  <2>3. StateOK'
    BY <1>0, <1>2, <2>1, <2>2 DEF HandleControl, StateOK, subVars, peerVars, fanVars
  <2> DEFINE out == [q \in LaggingPeers |->
                       IF q = p /\ (refused # {} \/ reply)
                       THEN SendRPC(p, link[p], Prune(refused), FALSE, FALSE, mesh')
                       ELSE {link[q]}]
  <2>4. link' \in LinkChoices(out)
    BY <1>2 DEF HandleControl
  <2>5. ASSUME NEW q \in LaggingPeers PROVE out[q] \subseteq LinkOK
    <3>1. CASE q = p
      <4>1. link[p] \in LinkOK
        BY <1>0, <3>1 DEF LinksOK
      <4>2. Prune(refused) \in Ctl
        BY DEF Prune, Ctl, GraftRefused, GraftKnown
      <4> HIDE DEF refused
      <4>3. SendRPC(p, link[p], Prune(refused), FALSE, FALSE, mesh') \subseteq LinkOK
        BY <4>1, <4>2, SendRPCSound
      <4> QED BY <3>1, <4>1, <4>3
    <3>2. CASE q # p
      BY <1>0, <3>2 DEF LinksOK
    <3> QED BY <3>1, <3>2
  <2>6. LinksOK'
    <3> HIDE DEF out
    <3> QED BY <2>4, <2>5, LinkChoicesSound DEF LinksOK
  <2> QED BY <2>3, <2>6
<1>3. ASSUME NEW p \in Peers, NEW sc \in Scores, ScoreChange(p, sc) PROVE StateOK' /\ LinksOK'
  BY <1>0, <1>3 DEF ScoreChange, StateOK, LinksOK, subVars, peerVars, meshVars, fanVars
<1> QED BY <1>1, <1>2, <1>3 DEF RemoteNext

\* The streams of the peers.
LEMMA StreamTypes == TypeOK /\ StreamNext => TypeOK'
<1> SUFFICES ASSUME TypeOK, StreamNext PROVE StateOK' /\ LinksOK'
  BY TypeSplit
<1>0. StateOK /\ LinksOK /\ ChurnPeers \subseteq Peers
  BY TypeSplit, SetAssumption
<1>1. PICK p \in ChurnPeers :
        \/ NewPeer(p)
        \/ \E dialled \in BOOLEAN : NewOutboundStream(p, dialled)
        \/ NewPeerError(p)
        \/ \E respawn \in BOOLEAN : DeadPeer(p, respawn)
        \/ NewIncomingStream(p)
        \/ ClosedIncomingStream(p)
  BY DEF StreamNext
<1>2. p \in Peers
  BY <1>0
<1>3. CASE NewPeer(p)
  BY <1>0, <1>2, <1>3 DEF NewPeer, StateOK, LinksOK, subVars, meshVars, fanVars
<1>4. ASSUME NEW dialled \in BOOLEAN, NewOutboundStream(p, dialled) PROVE StateOK' /\ LinksOK'
  BY <1>0, <1>2, <1>4 DEF NewOutboundStream, StateOK, LinksOK, subVars, meshVars, fanVars
<1>5. CASE NewPeerError(p)
  <2>1. StateOK'
    BY <1>0, <1>5 DEF NewPeerError, StateOK, subVars, meshVars, fanVars
  <2>2. LinksOK'
    <3>1. CASE p \in LaggingPeers
      <4> DEFINE e == [EmptyLink EXCEPT !.control = link[p].control]
      <4>1. link[p].control \in Ctl
        BY <1>0, <3>1 DEF LinksOK, LinkOK, Link
      <4>2. e \in LinkOK
        BY <4>1, EmptyLinkOK
      <4>3. link' = [link EXCEPT ![p] = e]
        BY <1>5, <3>1 DEF NewPeerError, WithLink
      <4> HIDE DEF e
      <4> QED BY <1>0, <3>1, <4>2, <4>3 DEF LinksOK
    <3>2. CASE p \notin LaggingPeers
      BY <1>0, <1>5, <3>2 DEF NewPeerError, LinksOK
    <3> QED BY <3>1, <3>2
  <2> QED BY <2>1, <2>2
<1>6. ASSUME NEW respawn \in BOOLEAN, DeadPeer(p, respawn) PROVE StateOK' /\ LinksOK'
  <2>1. StateOK'
    BY <1>0, <1>2, <1>6 DEF DeadPeer, StateOK
  <2>2. LinksOK'
    <3>1. NoCtl \in Ctl
      BY DEF NoCtl, Ctl
    <3>2. EmptyLink \in LinkOK
      BY <3>1, EmptyLinkOK
    <3> QED BY <1>0, <1>6, <3>2 DEF DeadPeer, WithLink, LinksOK
  <2> QED BY <2>1, <2>2
<1>7. CASE NewIncomingStream(p)
  BY <1>0, <1>2, <1>7 DEF NewIncomingStream, StateOK, LinksOK, peerVars, meshVars, fanVars
<1>8. CASE ClosedIncomingStream(p)
  BY <1>0, <1>2, <1>8 DEF ClosedIncomingStream, StateOK, LinksOK, peerVars, meshVars, fanVars
<1> QED BY <1>1, <1>3, <1>4, <1>5, <1>6, <1>7, <1>8

\* The clock.
LEMMA TickTypes == TypeOK /\ Tick => TypeOK'
<1> SUFFICES ASSUME TypeOK, Tick PROVE StateOK' /\ LinksOK'
  BY TypeSplit
<1>0. StateOK /\ LinksOK
  BY TypeSplit
<1>1. backoff' \in [Topics -> [Peers -> Absent .. MaxBackoff]]
  <2>1. ASSUME NEW t \in Topics, NEW p \in Peers
        PROVE  (IF backoff[t][p] = Absent THEN Absent
                ELSE Larger(backoff[t][p] - 1, Expired)) \in Absent .. MaxBackoff
    <3>1. backoff[t][p] \in Absent .. MaxBackoff
      BY <1>0 DEF StateOK
    <3> QED BY <3>1, BackoffTypes DEF Larger
  <2> QED BY <2>1 DEF Tick
<1>2. lastpub' \in [Topics -> -1 .. FanoutTTL + 1]
  BY <1>0, ParamTypes DEF Tick, StateOK
<1>3. StateOK'
  BY <1>0, <1>1, <1>2 DEF Tick, StateOK, subVars, peerVars, meshVars
<1> QED BY <1>0, <1>3 DEF Tick, LinksOK

\* clearBackoff keeps an entry or erases one that has expired.
LEMMA ClearBackoffSound ==
    ASSUME TypeOK, NEW tick, NEW t \in Topics
    PROVE  /\ ClearBackoff(tick)[t] \in [Peers -> Absent .. MaxBackoff]
           /\ \A p \in Peers : \/ ClearBackoff(tick)[t][p] = backoff[t][p]
                               \/ ClearBackoff(tick)[t][p] = Absent /\ backoff[t][p] < 0
<1>1. backoff[t] \in [Peers -> Absent .. MaxBackoff] /\ Absent \in Absent .. MaxBackoff
  BY BackoffTypes DEF TypeOK
<1>2. CASE tick % ClearBackoffTicks # 0
  BY <1>1, <1>2 DEF ClearBackoff
<1>3. CASE tick % ClearBackoffTicks = 0
  <2>1. ClearBackoff(tick)[t] = [p \in Peers |-> IF backoff[t][p] < -BackoffSlack THEN Absent
                                                 ELSE backoff[t][p]]
    BY <1>3 DEF ClearBackoff
  <2>2. \A p \in Peers : backoff[t][p] \in Int
    BY <1>1, BackoffTypes
  <2> QED BY <1>1, <2>1, <2>2, ParamTypes
<1> QED BY <1>2, <1>3

\* What the heartbeat does to the meshes and the backoffs.
LEMMA HeartbeatMesh ==
    ASSUME TypeOK, Heartbeat
    PROVE  /\ mesh' \in [Topics -> SUBSET Peers]
           /\ backoff' \in [Topics -> [Peers -> Absent .. MaxBackoff]]
           /\ LinksOK'
           /\ \A t \in Topics : t \notin joined => mesh'[t] = {}
           /\ \A t \in Topics : \A p \in mesh'[t] :
                 backoff'[t][p] = backoff[t][p] \/ backoff'[t][p] = Absent
           /\ \A t \in Topics : \A p \in mesh'[t] \ mesh[t] :
                 /\ backoff'[t][p] = Absent
                 /\ backoff[t][p] < 0
                 /\ score[p] >= 0
                 /\ p \notin direct
                 /\ <<p, t>> \notin Rejected
<1> DEFINE tick  == (ticks + 1) % TickPeriod
           b     == ClearBackoff(tick)
           turn  == tick % OpportunisticGraftTicks = 0
           Bk(t) == {p \in Peers : b[t][p] # Absent}
           mo    == [t \in joined |-> MeshOutcomes(t, Bk(t), turn)]
           alive == {t \in Topics : lastpub[t] <= FanoutTTL}
           fts   == fanoutTopics \cap alive
<1>0. StateOK /\ LinksOK
  BY TypeSplit
<1>1. PICK o \in [joined -> UNION {mo[t] : t \in joined}] :
        /\ \A t \in joined : o[t] \in mo[t]
        /\ mesh' = [t \in Topics |-> IF t \in joined THEN o[t].mesh ELSE {}]
        /\ backoff' = [t \in Topics |->
             IF t \in joined THEN AddBackoff(b[t], o[t].prune, PruneBackoff) ELSE b[t]]
        /\ \E gossip \in SUBSET (GossipTargets(mesh', fts, fanout') \cap LaggingPeers) :
             link' \in LinkChoices([p \in LaggingPeers |->
               HeartbeatLinks(p, [graft |-> {t \in joined : p \in o[t].graft},
                                  prune |-> {t \in joined : p \in o[t].prune}],
                              p \in gossip, mesh')])
  BY DEF Heartbeat
<1>2. ASSUME NEW t \in joined
      PROVE  /\ o[t].mesh \subseteq Peers /\ o[t].graft \subseteq Peers /\ o[t].prune \subseteq Peers
             /\ o[t].mesh \cap o[t].prune = {}
             /\ \A p \in o[t].mesh \ mesh[t] :
                  p \notin Bk(t) /\ p \notin direct /\ score[p] >= 0 /\ <<p, t>> \notin Rejected
  <2>1. t \in Topics
    BY <1>0 DEF StateOK
  <2>2. o[t] \in MeshOutcomes(t, Bk(t), turn)
    BY <1>1
  <2> HIDE DEF Bk, turn
  <2> QED BY <2>1, <2>2, MeshOutcomesSound
<1>3. \A t \in Topics :
        /\ b[t] \in [Peers -> Absent .. MaxBackoff]
        /\ \A p \in Peers : b[t][p] = backoff[t][p] \/ (b[t][p] = Absent /\ backoff[t][p] < 0)
  <2> HIDE DEF tick
  <2> QED BY ClearBackoffSound
<1> HIDE DEF tick, b, turn, fts
<1>4. mesh' \in [Topics -> SUBSET Peers]
  BY <1>1, <1>2
<1>5. backoff' \in [Topics -> [Peers -> Absent .. MaxBackoff]]
  BY <1>1, <1>3, AddBackoffTypes, BackoffTypes
<1>6. ASSUME NEW t \in joined, NEW p \in o[t].mesh
      PROVE  backoff'[t][p] = b[t][p] /\ p \in Peers /\ t \in Topics
  <2>1. p \in Peers /\ p \notin o[t].prune /\ t \in Topics
    BY <1>0, <1>2 DEF StateOK
  <2> QED BY <1>1, <2>1 DEF AddBackoff
<1>7. \A t \in Topics : t \notin joined => mesh'[t] = {}
  BY <1>1
<1>8. \A t \in Topics : \A p \in mesh'[t] : t \in joined /\ p \in o[t].mesh
  BY <1>1
<1>9. ASSUME NEW t \in Topics, NEW p \in mesh'[t]
      PROVE  backoff'[t][p] = backoff[t][p] \/ backoff'[t][p] = Absent
  BY <1>3, <1>6, <1>8
<1>10. ASSUME NEW t \in Topics, NEW p \in mesh'[t] \ mesh[t]
       PROVE  /\ backoff'[t][p] = Absent /\ backoff[t][p] < 0
              /\ score[p] >= 0 /\ p \notin direct /\ <<p, t>> \notin Rejected
  <2>1. t \in joined /\ p \in o[t].mesh /\ p \in Peers
    BY <1>6, <1>8
  <2>2. p \notin Bk(t) /\ p \notin direct /\ score[p] >= 0 /\ <<p, t>> \notin Rejected
    BY <1>2, <2>1
  <2>3. b[t][p] = Absent
    BY <2>1, <2>2
  <2>4. backoff'[t][p] = Absent
    BY <1>6, <2>1, <2>3
  <2>5. backoff[t][p] < 0
    BY <1>3, <2>1, <2>3, BackoffTypes
  <2> QED BY <2>2, <2>4, <2>5
<1>11. LinksOK'
  <2>1. PICK gossip : link' \in LinkChoices([p \in LaggingPeers |->
               HeartbeatLinks(p, [graft |-> {t \in joined : p \in o[t].graft},
                                  prune |-> {t \in joined : p \in o[t].prune}],
                              p \in gossip, mesh')])
    BY <1>1
  <2> DEFINE Msg(p) == [graft |-> {t \in joined : p \in o[t].graft},
                        prune |-> {t \in joined : p \in o[t].prune}]
             out == [p \in LaggingPeers |-> HeartbeatLinks(p, Msg(p), p \in gossip, mesh')]
  <2>2. link' \in LinkChoices(out)
    BY <2>1
  <2>3. ASSUME NEW p \in LaggingPeers PROVE out[p] \subseteq LinkOK
    <3>1. Msg(p) \in Ctl
      BY <1>0 DEF Ctl, StateOK
    <3>2. link[p] \in LinkOK
      BY <1>0 DEF LinksOK
    <3> HIDE DEF Msg
    <3>3. HeartbeatLinks(p, Msg(p), p \in gossip, mesh') \subseteq LinkOK
      BY <3>1, <3>2, HeartbeatLinksSound
    <3> QED BY <3>3
  <2> HIDE DEF out
  <2> QED BY <2>2, <2>3, LinkChoicesSound DEF LinksOK
<1> QED BY <1>4, <1>5, <1>7, <1>9, <1>10, <1>11

LEMMA HeartbeatTypes == TypeOK /\ Heartbeat => TypeOK'
<1> SUFFICES ASSUME TypeOK, Heartbeat PROVE StateOK' /\ LinksOK'
  BY TypeSplit
<1>0. StateOK
  BY TypeSplit
<1>1. ticks' \in 0 .. TickPeriod - 1
  <2>1. TickPeriod \in Nat \ {0}
    BY ParamTypes, Z3 DEF TickPeriod
  <2>2. ticks \in Int /\ ticks' = (ticks + 1) % TickPeriod
    BY <1>0, <2>1 DEF Heartbeat, StateOK
  <2> QED BY <2>1, <2>2, Z3
<1>2. fanoutTopics' \subseteq Topics /\ lastpub' \in [Topics -> -1 .. FanoutTTL + 1]
  BY <1>0, ParamTypes DEF Heartbeat, StateOK
<1>3. fanout' \in [Topics -> SUBSET Peers]
  <2> DEFINE fts == fanoutTopics \cap {t \in Topics : lastpub[t] <= FanoutTTL}
             fo  == [t \in fts |-> FanoutOutcomes(t)]
  <2>1. PICK f \in [fts -> UNION {fo[t] : t \in fts}] :
          /\ \A t \in fts : f[t] \in fo[t]
          /\ fanout' = [t \in Topics |-> IF t \in fts THEN f[t] ELSE {}]
    BY DEF Heartbeat
  <2>2. ASSUME NEW t \in fts PROVE f[t] \subseteq Peers
    <3>1. f[t] \in FanoutOutcomes(t) /\ t \in Topics
      BY <2>1
    <3> QED BY <3>1, FanoutOutcomesSound
  <2> HIDE DEF fts
  <2> QED BY <2>1, <2>2
<1>4. StateOK'
  BY <1>0, <1>1, <1>2, <1>3, HeartbeatMesh DEF Heartbeat, StateOK, subVars, peerVars
<1> QED BY <1>4, HeartbeatMesh

LEMMA TypeStep == TypeOK /\ [Next]_vars => TypeOK'
<1>1. TypeOK /\ UNCHANGED vars => TypeOK'
  BY DEF TypeOK, vars
<1> QED BY <1>1, LocalTypes, RemoteTypes, StreamTypes, HeartbeatTypes, TickTypes DEF Next

\* The router's state stays well typed and the send queues within their bound, for
\* any number of peers and topics and every order of the events of processLoop.
THEOREM TypeCorrect == Spec => []TypeOK
BY TypeInit, TypeStep, PTL DEF Spec

-----------------------------------------------------------------------------
(* Backoffs.                                                               *)

LEMMA BackoffInit == Init => BackoffRespected
BY DEF Init, BackoffRespected

\* An accepted GRAFT comes from a peer without backoff, a PRUNE removes the peer it
\* backs off, and a refused GRAFT backs off a peer that is not in the mesh.
LEMMA BackoffControl ==
    ASSUME TypeOK, BackoffRespected,
           NEW p \in Peers, NEW graft \in SUBSET Topics, NEW prune \in SUBSET Topics,
           NEW interval, NEW reply, HandleControl(p, graft, prune, interval, reply)
    PROVE  BackoffRespected'
<1> SUFFICES ASSUME NEW t \in Topics, NEW q \in mesh'[t] PROVE ~(backoff'[t][q] > 0)
  BY DEF BackoffRespected, Active
<1> DEFINE refused == GraftRefused(p, graft)
           pruned  == prune \cap joined
           known   == GraftKnown(p, graft)
<1>1. mesh'[t] = IF t \in pruned THEN mesh[t] \ {p}
                 ELSE IF t \in known \ refused THEN mesh[t] \cup {p} ELSE mesh[t]
  BY DEF HandleControl
<1>2. backoff'[t] = AddBackoff(AddBackoff(backoff[t], IF t \in refused /\ p \notin direct
                                                       THEN {p} ELSE {}, PruneBackoff),
                               IF t \in pruned THEN {p} ELSE {}, interval)
  BY DEF HandleControl
<1>3. q \in Peers
  <2> HIDE DEF refused, pruned, known
  <2> QED BY <1>1 DEF TypeOK
<1>4. t \in refused => t \in known /\ p \notin mesh[t]
  BY DEF GraftRefused, GraftKnown
<1>5. t \in known \ refused => ~(backoff[t][p] > 0)
  BY DEF GraftRefused, Active
<1> HIDE DEF refused, pruned, known
<1>6. CASE q # p
  <2>1. q \in mesh[t]
    BY <1>1, <1>6
  <2>2. backoff'[t][q] = backoff[t][q]
    BY <1>2, <1>3, <1>6 DEF AddBackoff
  <2> QED BY <2>1, <2>2 DEF BackoffRespected, Active
<1>7. CASE q = p
  <2>1. t \notin pruned /\ t \notin refused
    BY <1>1, <1>4, <1>7
  <2>2. backoff'[t][q] = backoff[t][q]
    BY <1>2, <1>3, <2>1 DEF AddBackoff
  <2>3. q \in mesh[t] \/ t \in known \ refused
    BY <1>1, <1>7, <2>1
  <2> QED BY <1>5, <1>7, <2>2, <2>3 DEF BackoffRespected, Active
<1> QED BY <1>6, <1>7

LEMMA BackoffStep == TypeOK /\ BackoffRespected /\ [Next]_vars => BackoffRespected'
<1> SUFFICES ASSUME TypeOK, BackoffRespected, [Next]_vars PROVE BackoffRespected'
  OBVIOUS
<1>0. \A t \in Topics : \A p \in mesh[t] : ~(backoff[t][p] > 0)
  BY DEF BackoffRespected, Active
<1>1. ASSUME NEW t \in Topics, JoinTopic(t) PROVE BackoffRespected'
  <2>1. PICK m \in JoinMeshes(t) : mesh' = [mesh EXCEPT ![t] = m]
    BY <1>1 DEF JoinTopic
  <2>2. \A p \in m : p \in Peers /\ ~(backoff[t][p] > 0)
    BY JoinMeshesSound, BackoffTypes DEF InBackoff
  <2>3. backoff' = backoff
    BY <1>1 DEF JoinTopic
  <2> QED BY <1>0, <2>1, <2>2, <2>3 DEF BackoffRespected, Active, TypeOK
<1>2. ASSUME NEW t \in Topics, LeaveTopic(t) PROVE BackoffRespected'
  BY <1>0, <1>2 DEF LeaveTopic, BackoffRespected, Active, TypeOK
<1>3. CASE UNCHANGED <<mesh, backoff>>
  BY <1>0, <1>3 DEF BackoffRespected, Active
<1>4. ASSUME NEW p \in ChurnPeers, NEW respawn \in BOOLEAN, DeadPeer(p, respawn)
      PROVE  BackoffRespected'
  BY <1>0, <1>4 DEF DeadPeer, BackoffRespected, Active, TypeOK
<1>5. CASE Heartbeat
  <2>1. \A t \in Topics : \A p \in mesh'[t] : p \in mesh[t] \/ backoff'[t][p] = Absent
    BY <1>5, HeartbeatMesh
  <2>2. \A t \in Topics : \A p \in mesh'[t] :
          backoff'[t][p] = backoff[t][p] \/ backoff'[t][p] = Absent
    BY <1>5, HeartbeatMesh
  <2> QED BY <1>0, <2>1, <2>2, BackoffTypes DEF BackoffRespected, Active
<1>6. CASE Tick
  <2>1. ASSUME NEW t \in Topics, NEW p \in mesh[t] PROVE ~(backoff'[t][p] > 0)
    <3>1. p \in Peers /\ backoff[t][p] \in Absent .. MaxBackoff /\ ~(backoff[t][p] > 0)
      BY <1>0 DEF TypeOK
    <3>2. backoff'[t][p] = IF backoff[t][p] = Absent THEN Absent
                           ELSE Larger(backoff[t][p] - 1, Expired)
      BY <1>6, <3>1 DEF Tick
    <3> QED BY <3>1, <3>2, BackoffTypes DEF Larger
  <2> QED BY <1>6, <2>1 DEF Tick, BackoffRespected, Active, meshVars
<1>7. LocalNext => BackoffRespected'
  <2>1. ASSUME NEW t \in Topics, NEW local \in BOOLEAN, NEW skip, Publish(t, local, skip)
        PROVE  UNCHANGED <<mesh, backoff>>
    BY <2>1 DEF Publish, meshVars
  <2>2. ASSUME NEW t \in Topics, NEW skip, Preprocess(t, skip) PROVE UNCHANGED <<mesh, backoff>>
    BY <2>2 DEF Preprocess, meshVars
  <2>3. ASSUME NEW p, AddDirectPeer(p) \/ RemoveDirectPeer(p) \/ WriteRPC(p)
        PROVE  UNCHANGED <<mesh, backoff>>
    BY <2>3 DEF AddDirectPeer, RemoveDirectPeer, WriteRPC, meshVars
  <2> QED BY <1>1, <1>2, <1>3, <2>1, <2>2, <2>3 DEF LocalNext
<1>8. RemoteNext => BackoffRespected'
  <2>1. ASSUME NEW p, NEW t, NEW sub, HandleSubscription(p, t, sub)
        PROVE  UNCHANGED <<mesh, backoff>>
    BY <2>1 DEF HandleSubscription, meshVars
  <2>2. ASSUME NEW p, NEW sc, ScoreChange(p, sc) PROVE UNCHANGED <<mesh, backoff>>
    BY <2>2 DEF ScoreChange, meshVars
  <2> QED BY <1>3, <2>1, <2>2, BackoffControl DEF RemoteNext
<1>9. StreamNext => BackoffRespected'
  <2>1. ASSUME NEW p, NEW dialled,
               \/ NewPeer(p) \/ NewOutboundStream(p, dialled) \/ NewPeerError(p)
               \/ NewIncomingStream(p) \/ ClosedIncomingStream(p)
        PROVE  UNCHANGED <<mesh, backoff>>
    BY <2>1 DEF NewPeer, NewOutboundStream, NewPeerError, NewIncomingStream,
                ClosedIncomingStream, meshVars
  <2> QED BY <1>3, <1>4, <2>1 DEF StreamNext
<1>10. CASE UNCHANGED vars
  BY <1>3, <1>10 DEF vars
<1> QED BY <1>5, <1>6, <1>7, <1>8, <1>9, <1>10 DEF Next

\* A peer that is being backed off is in no mesh, whoever asked for the backoff and
\* however GRAFTs, PRUNEs, heartbeats, Join and Leave interleave.
THEOREM BackoffSafe == Spec => []BackoffRespected
<1>1. TypeOK /\ BackoffRespected /\ [Next]_vars => (TypeOK /\ BackoffRespected)'
  BY TypeStep, BackoffStep
<1> QED BY <1>1, TypeInit, BackoffInit, PTL DEF Spec

-----------------------------------------------------------------------------
(* Fanouts.                                                                *)

\* Publishing without a subscription starts or keeps a fanout; its members pass the
\* filter, and its clock is set.
LEMMA FanoutPublish ==
    ASSUME TypeOK, FanoutExclusive, FanoutFiltered,
           NEW t \in Topics, NEW local \in BOOLEAN, NEW skip, Publish(t, local, skip)
    PROVE  FanoutExclusive' /\ FanoutFiltered'
<1> DEFINE meshed == t \in joined \/ (FloodPublish /\ local)
<1>0. joined' = joined /\ mesh' = mesh
  BY DEF Publish, meshVars
<1>1. CASE meshed
  <2>1. UNCHANGED fanVars
    BY <1>1 DEF Publish
  <2> QED BY <1>0, <2>1 DEF FanoutExclusive, FanoutFiltered, fanVars
<1>2. CASE ~ meshed
  <2>1. PICK gmap \in FanoutForPublishing(t) :
          /\ fanoutTopics' = IF gmap = {} THEN fanoutTopics ELSE fanoutTopics \cup {t}
          /\ fanout' = [fanout EXCEPT ![t] = gmap]
          /\ lastpub' = [lastpub EXCEPT ![t] = 0]
    BY <1>2 DEF Publish
  <2>2. \A p \in gmap : <<p, t>> \notin Rejected
    BY FanoutOutcomesSound DEF FanoutFiltered
  <2>3. FanoutFiltered'
    BY <2>1, <2>2 DEF FanoutFiltered, TypeOK
  <2>4. FanoutExclusive'
    BY <1>0, <1>2, <2>1 DEF FanoutExclusive, TypeOK
  <2> QED BY <2>3, <2>4
<1> QED BY <1>1, <1>2

\* The heartbeat drops a fanout together with its clock, and refills the others
\* under the filter.
LEMMA FanoutHeartbeat ==
    ASSUME TypeOK, FanoutExclusive, FanoutFiltered, Heartbeat
    PROVE  FanoutExclusive' /\ FanoutFiltered'
<1> DEFINE alive == {t \in Topics : lastpub[t] <= FanoutTTL}
           fts   == fanoutTopics \cap alive
           fo    == [t \in fts |-> FanoutOutcomes(t)]
<1>1. PICK f \in [fts -> UNION {fo[t] : t \in fts}] :
        /\ \A t \in fts : f[t] \in fo[t]
        /\ fanout' = [t \in Topics |-> IF t \in fts THEN f[t] ELSE {}]
  BY DEF Heartbeat
<1>2. /\ fanoutTopics' = fts /\ joined' = joined
      /\ lastpub' = [t \in Topics |-> IF t \in alive THEN lastpub[t] ELSE -1]
  BY DEF Heartbeat
<1>3. ASSUME NEW t \in fts PROVE \A p \in f[t] : <<p, t>> \notin Rejected
  <2>1. t \in Topics /\ f[t] \in FanoutOutcomes(t)
    BY <1>1
  <2> QED BY <2>1, FanoutOutcomesSound DEF FanoutFiltered
<1>4. FanoutFiltered'
  <2> HIDE DEF fts
  <2> QED BY <1>1, <1>3 DEF FanoutFiltered
<1>5. \A t \in Topics : t \notin joined' => mesh'[t] = {}
  BY <1>2, HeartbeatMesh
<1>6. \A t \in Topics : t \notin fanoutTopics' => fanout'[t] = {}
  BY <1>1, <1>2
<1>7. \A t \in fanoutTopics' : t \notin joined' /\ lastpub'[t] # -1
  BY <1>2 DEF FanoutExclusive
<1> QED BY <1>4, <1>5, <1>6, <1>7 DEF FanoutExclusive

LEMMA FanoutStep ==
    TypeOK /\ FanoutExclusive /\ FanoutFiltered /\ [Next]_vars
      => FanoutExclusive' /\ FanoutFiltered'
<1> SUFFICES ASSUME TypeOK, FanoutExclusive, FanoutFiltered, [Next]_vars
             PROVE  FanoutExclusive' /\ FanoutFiltered'
  OBVIOUS
<1>1. ASSUME NEW t \in Topics, JoinTopic(t) PROVE FanoutExclusive' /\ FanoutFiltered'
  <2>1. PICK m : mesh' = [mesh EXCEPT ![t] = m]
    BY <1>1 DEF JoinTopic
  <2>2. /\ joined' = joined \cup {t} /\ fanoutTopics' = fanoutTopics \ {t}
        /\ fanout' = [fanout EXCEPT ![t] = {}]
        /\ lastpub' = IF t \in fanoutTopics THEN [lastpub EXCEPT ![t] = -1] ELSE lastpub
    BY <1>1 DEF JoinTopic, FanoutAfterJoin
  <2>3. FanoutFiltered'
    BY <2>2 DEF FanoutFiltered, TypeOK
  <2>4. FanoutExclusive'
    BY <2>1, <2>2 DEF FanoutExclusive, TypeOK
  <2> QED BY <2>3, <2>4
<1>2. ASSUME NEW t \in Topics, LeaveTopic(t) PROVE FanoutExclusive' /\ FanoutFiltered'
  BY <1>2 DEF LeaveTopic, FanoutExclusive, FanoutFiltered, TypeOK, fanVars
<1>3. CASE UNCHANGED <<meshVars, fanVars>>
  BY <1>3 DEF FanoutExclusive, FanoutFiltered, meshVars, fanVars
<1>4. ASSUME NEW p \in ChurnPeers, NEW respawn \in BOOLEAN, DeadPeer(p, respawn)
      PROVE  FanoutExclusive' /\ FanoutFiltered'
  BY <1>4 DEF DeadPeer, FanoutExclusive, FanoutFiltered, TypeOK
<1>5. ASSUME NEW p \in Peers, NEW graft, NEW prune, NEW interval, NEW reply,
             HandleControl(p, graft, prune, interval, reply)
      PROVE  FanoutExclusive' /\ FanoutFiltered'
  <2>1. UNCHANGED <<joined, fanVars>>
    BY <1>5 DEF HandleControl
  <2>2. \A t \in Topics : t \notin joined => mesh'[t] = mesh[t]
    BY <1>5 DEF HandleControl, GraftKnown
  <2> QED BY <2>1, <2>2 DEF FanoutExclusive, FanoutFiltered, fanVars
<1>6. CASE Tick
  <2>1. ASSUME NEW t \in Topics, lastpub[t] # -1 PROVE lastpub'[t] # -1
    <3>1. lastpub[t] \in -1 .. FanoutTTL + 1
      BY DEF TypeOK
    <3>2. lastpub'[t] = IF lastpub[t] \in 0 .. FanoutTTL THEN lastpub[t] + 1 ELSE lastpub[t]
      BY <1>6 DEF Tick
    <3> QED BY <2>1, <3>1, <3>2, ParamTypes
  <2>2. UNCHANGED <<joined, mesh, fanoutTopics, fanout>>
    BY <1>6 DEF Tick, meshVars
  <2> QED BY <2>1, <2>2 DEF FanoutExclusive, FanoutFiltered, TypeOK
<1>7. LocalNext => FanoutExclusive' /\ FanoutFiltered'
  <2>1. ASSUME NEW t \in Topics, NEW skip, Preprocess(t, skip)
        PROVE  UNCHANGED <<meshVars, fanVars>>
    BY <2>1 DEF Preprocess
  <2>2. ASSUME NEW p, AddDirectPeer(p) \/ RemoveDirectPeer(p) \/ WriteRPC(p)
        PROVE  UNCHANGED <<meshVars, fanVars>>
    BY <2>2 DEF AddDirectPeer, RemoveDirectPeer, WriteRPC
  <2> QED BY <1>1, <1>2, <1>3, <2>1, <2>2, FanoutPublish DEF LocalNext
<1>8. RemoteNext => FanoutExclusive' /\ FanoutFiltered'
  <2>1. ASSUME NEW p, NEW t, NEW sub, HandleSubscription(p, t, sub)
        PROVE  UNCHANGED <<meshVars, fanVars>>
    BY <2>1 DEF HandleSubscription
  <2>2. ASSUME NEW p, NEW sc, ScoreChange(p, sc) PROVE UNCHANGED <<meshVars, fanVars>>
    BY <2>2 DEF ScoreChange
  <2> QED BY <1>3, <1>5, <2>1, <2>2 DEF RemoteNext
<1>9. StreamNext => FanoutExclusive' /\ FanoutFiltered'
  <2>1. ASSUME NEW p, NEW dialled,
               \/ NewPeer(p) \/ NewOutboundStream(p, dialled) \/ NewPeerError(p)
               \/ NewIncomingStream(p) \/ ClosedIncomingStream(p)
        PROVE  UNCHANGED <<meshVars, fanVars>>
    BY <2>1 DEF NewPeer, NewOutboundStream, NewPeerError, NewIncomingStream,
                ClosedIncomingStream
  <2> QED BY <1>3, <1>4, <2>1 DEF StreamNext
<1>10. CASE UNCHANGED vars
  BY <1>3, <1>10 DEF vars, meshVars, fanVars
<1> QED BY <1>6, <1>7, <1>8, <1>9, <1>10, FanoutHeartbeat DEF Next

LEMMA FanoutInvariant == Spec => [](TypeOK /\ FanoutExclusive /\ FanoutFiltered)
<1>1. Init => FanoutExclusive /\ FanoutFiltered
  BY DEF Init, FanoutExclusive, FanoutFiltered
<1>2. TypeOK /\ FanoutExclusive /\ FanoutFiltered /\ [Next]_vars
        => (TypeOK /\ FanoutExclusive /\ FanoutFiltered)'
  BY TypeStep, FanoutStep
<1> QED BY <1>1, <1>2, TypeInit, PTL DEF Spec

\* A topic has a mesh or a fanout, never both, and every fanout is on the clock that
\* will expire it.
THEOREM FanoutSafe == Spec => []FanoutExclusive
BY FanoutInvariant, PTL

\* No fanout ever holds a peer that the peer filter refuses.
THEOREM FilterSafe == Spec => []FanoutFiltered
BY FanoutInvariant, PTL

-----------------------------------------------------------------------------
(* Who enters a mesh.                                                      *)

LEMMA GraftStep ==
    ASSUME TypeOK, FanoutFiltered, [Next]_vars, NEW t \in Topics, NEW p \in Peers, Enters(p, t)
    PROVE  score[p] >= 0 /\ ~ Active(t, p) /\ <<p, t>> \notin Rejected
<1> DEFINE Good == score[p] >= 0 /\ ~ Active(t, p) /\ <<p, t>> \notin Rejected
<1>0. p \in mesh'[t] /\ p \notin mesh[t]
  BY DEF Enters
<1>1. ASSUME NEW u \in Topics, JoinTopic(u) PROVE Good
  <2>1. PICK m \in JoinMeshes(u) : mesh' = [mesh EXCEPT ![u] = m]
    BY <1>1 DEF JoinTopic
  <2>2. t = u /\ p \in m
    BY <1>0, <2>1 DEF TypeOK
  <2>3. score[p] >= 0 /\ p \notin InBackoff(t) /\ (p \in fanout[t] \/ <<p, t>> \notin Rejected)
    BY <2>1, <2>2, JoinMeshesSound
  <2> QED BY <2>3, BackoffTypes DEF InBackoff, Active, FanoutFiltered
<1>2. ASSUME NEW u \in Topics, LeaveTopic(u) PROVE FALSE
  BY <1>0, <1>2 DEF LeaveTopic, TypeOK
<1>3. CASE UNCHANGED mesh
  BY <1>0, <1>3
<1>4. ASSUME NEW q, NEW respawn, DeadPeer(q, respawn) PROVE FALSE
  BY <1>0, <1>4 DEF DeadPeer
<1>5. ASSUME NEW q \in Peers, NEW graft, NEW prune, NEW interval, NEW reply,
             HandleControl(q, graft, prune, interval, reply)
      PROVE  Good
  <2>1. q = p /\ t \in GraftKnown(p, graft) \ GraftRefused(p, graft)
    BY <1>0, <1>5 DEF HandleControl
  <2>2. score[p] \in Int
    BY ScoreAssumption DEF TypeOK
  <2> QED BY <2>1, <2>2 DEF GraftKnown, GraftRefused
<1>6. CASE Heartbeat
  <2>1. backoff[t][p] < 0 /\ score[p] >= 0 /\ <<p, t>> \notin Rejected
    BY <1>0, <1>6, HeartbeatMesh
  <2>2. backoff[t][p] \in Int
    BY BackoffTypes DEF TypeOK
  <2> QED BY <2>1, <2>2 DEF Active
<1>7. LocalNext => Good
  <2>1. ASSUME NEW u, NEW local, NEW skip, Publish(u, local, skip) \/ Preprocess(u, skip)
        PROVE  UNCHANGED mesh
    BY <2>1 DEF Publish, Preprocess, meshVars
  <2>2. ASSUME NEW q, AddDirectPeer(q) \/ RemoveDirectPeer(q) \/ WriteRPC(q)
        PROVE  UNCHANGED mesh
    BY <2>2 DEF AddDirectPeer, RemoveDirectPeer, WriteRPC, meshVars
  <2> QED BY <1>1, <1>2, <1>3, <2>1, <2>2 DEF LocalNext
<1>8. RemoteNext => Good
  <2>1. ASSUME NEW q, NEW u, NEW sub, HandleSubscription(q, u, sub) PROVE UNCHANGED mesh
    BY <2>1 DEF HandleSubscription, meshVars
  <2>2. ASSUME NEW q, NEW sc, ScoreChange(q, sc) PROVE UNCHANGED mesh
    BY <2>2 DEF ScoreChange, meshVars
  <2> QED BY <1>3, <1>5, <2>1, <2>2 DEF RemoteNext
<1>9. StreamNext => Good
  <2>1. ASSUME NEW q, NEW dialled,
               \/ NewPeer(q) \/ NewOutboundStream(q, dialled) \/ NewPeerError(q)
               \/ NewIncomingStream(q) \/ ClosedIncomingStream(q)
        PROVE  UNCHANGED mesh
    BY <2>1 DEF NewPeer, NewOutboundStream, NewPeerError, NewIncomingStream,
                ClosedIncomingStream, meshVars
  <2> QED BY <1>3, <1>4, <2>1 DEF StreamNext
<1>10. CASE Tick
  BY <1>3, <1>10 DEF Tick, meshVars
<1>11. CASE UNCHANGED vars
  BY <1>3, <1>11 DEF vars
<1> QED BY <1>6, <1>7, <1>8, <1>9, <1>10, <1>11 DEF Next

\* No step, be it a heartbeat, Join or a remote GRAFT, brings a peer into a mesh that
\* has a negative score, is being backed off or is refused by the peer filter.
THEOREM GraftSafe == Spec => GraftEligible
<1>1. TypeOK /\ FanoutFiltered /\ [Next]_vars
        => [\A t \in Topics, p \in Peers :
              Enters(p, t) => score[p] >= 0 /\ ~ Active(t, p) /\ <<p, t>> \notin Rejected]_vars
  BY GraftStep
<1> QED BY <1>1, FanoutInvariant, PTL DEF Spec, GraftEligible

-----------------------------------------------------------------------------
(* Direct peers.                                                           *)

\* A fanout, which Join turns into a mesh, has no direct peers.
FanoutApart == \A t \in Topics : fanout[t] \cap direct = {}

LEMMA ApartStep ==
    ASSUME DirectCandidates = {}, TypeOK, FanoutApart, [Next]_vars
    PROVE  FanoutApart' /\ direct' = direct
<1>1. CASE UNCHANGED fanout
  <2>1. direct' = direct
    <3>1. LocalNext => direct' = direct
      BY DEF LocalNext, JoinTopic, LeaveTopic, Publish, Preprocess, WriteRPC
    <3>2. RemoteNext => direct' = direct
      BY DEF RemoteNext, HandleSubscription, HandleControl, ScoreChange
    <3>3. StreamNext => direct' = direct
      BY DEF StreamNext, NewPeer, NewOutboundStream, NewPeerError, DeadPeer, NewIncomingStream,
             ClosedIncomingStream
    <3>4. Heartbeat \/ Tick \/ UNCHANGED vars => direct' = direct
      BY DEF Heartbeat, Tick, vars
    <3> QED BY <3>1, <3>2, <3>3, <3>4 DEF Next
  <2> QED BY <1>1, <2>1 DEF FanoutApart
<1>2. ASSUME NEW u \in Topics, JoinTopic(u) PROVE FanoutApart' /\ direct' = direct
  <2>1. fanout' = [fanout EXCEPT ![u] = {}] /\ direct' = direct
    BY <1>2 DEF JoinTopic
  <2> QED BY <2>1 DEF FanoutApart, TypeOK
<1>3. ASSUME NEW u \in Topics, NEW local \in BOOLEAN, NEW skip, Publish(u, local, skip), ~ UNCHANGED fanout
      PROVE  FanoutApart' /\ direct' = direct
  <2>1. direct' = direct
    BY <1>3 DEF Publish
  <2>2. PICK gmap \in FanoutForPublishing(u) : fanout' = [fanout EXCEPT ![u] = gmap]
    BY <1>3 DEF Publish, fanVars
  <2>3. gmap \cap direct = {}
    BY FanoutOutcomesSound DEF FanoutApart
  <2> QED BY <2>1, <2>2, <2>3 DEF FanoutApart, TypeOK
<1>4. ASSUME NEW q, NEW respawn, DeadPeer(q, respawn) PROVE FanoutApart' /\ direct' = direct
  <2>1. direct' = direct /\ fanout' = [t \in Topics |-> fanout[t] \ {q}]
    BY <1>4 DEF DeadPeer
  <2> QED BY <2>1 DEF FanoutApart
<1>5. CASE Heartbeat
  <2> DEFINE alive == {t \in Topics : lastpub[t] <= FanoutTTL}
             fts   == fanoutTopics \cap alive
             fo    == [t \in fts |-> FanoutOutcomes(t)]
  <2>1. PICK f \in [fts -> UNION {fo[t] : t \in fts}] :
          /\ \A t \in fts : f[t] \in fo[t]
          /\ fanout' = [t \in Topics |-> IF t \in fts THEN f[t] ELSE {}]
    BY <1>5 DEF Heartbeat
  <2>2. direct' = direct
    BY <1>5 DEF Heartbeat
  <2>3. ASSUME NEW t \in fts PROVE f[t] \cap direct = {}
    <3>1. t \in Topics /\ f[t] \in FanoutOutcomes(t)
      BY <2>1
    <3> QED BY <3>1, FanoutOutcomesSound DEF FanoutApart
  <2> HIDE DEF fts
  <2> QED BY <2>1, <2>2, <2>3 DEF FanoutApart
<1>6. ASSUME NEW u \in Topics, NEW skip, LeaveTopic(u) \/ Preprocess(u, skip) PROVE UNCHANGED fanout
  BY <1>6 DEF LeaveTopic, Preprocess, fanVars
<1>7. ASSUME NEW q, AddDirectPeer(q) \/ RemoveDirectPeer(q) \/ WriteRPC(q) PROVE UNCHANGED fanout
  BY <1>7 DEF AddDirectPeer, RemoveDirectPeer, WriteRPC, fanVars
<1>8. RemoteNext => UNCHANGED fanout
  BY DEF RemoteNext, HandleSubscription, HandleControl, ScoreChange, fanVars
<1>9. ASSUME NEW q, NEW dialled,
             \/ NewPeer(q) \/ NewOutboundStream(q, dialled) \/ NewPeerError(q)
             \/ NewIncomingStream(q) \/ ClosedIncomingStream(q)
      PROVE  UNCHANGED fanout
  BY <1>9 DEF NewPeer, NewOutboundStream, NewPeerError, NewIncomingStream,
              ClosedIncomingStream, fanVars
<1>10. Tick \/ UNCHANGED vars => UNCHANGED fanout
  BY DEF Tick, vars
<1>11. LocalNext => FanoutApart' /\ direct' = direct
  BY <1>1, <1>2, <1>3, <1>6, <1>7 DEF LocalNext
<1>12. StreamNext => FanoutApart' /\ direct' = direct
  BY <1>1, <1>4, <1>9 DEF StreamNext
<1> QED BY <1>1, <1>5, <1>8, <1>10, <1>11, <1>12 DEF Next

LEMMA DirectStep ==
    ASSUME TypeOK, FanoutApart, [Next]_vars, NEW t \in Topics, NEW p \in Peers, Enters(p, t)
    PROVE  p \notin direct
<1>0. p \in mesh'[t] /\ p \notin mesh[t]
  BY DEF Enters
<1>1. ASSUME NEW u \in Topics, JoinTopic(u) PROVE p \notin direct
  <2>1. PICK m \in JoinMeshes(u) : mesh' = [mesh EXCEPT ![u] = m]
    BY <1>1 DEF JoinTopic
  <2>2. t = u /\ p \in m
    BY <1>0, <2>1 DEF TypeOK
  <2> QED BY <2>1, <2>2, JoinMeshesSound DEF FanoutApart
<1>2. ASSUME NEW u \in Topics, LeaveTopic(u) PROVE FALSE
  BY <1>0, <1>2 DEF LeaveTopic, TypeOK
<1>3. CASE UNCHANGED mesh
  BY <1>0, <1>3
<1>4. ASSUME NEW q, NEW respawn, DeadPeer(q, respawn) PROVE FALSE
  BY <1>0, <1>4 DEF DeadPeer
<1>5. ASSUME NEW q \in Peers, NEW graft, NEW prune, NEW interval, NEW reply,
             HandleControl(q, graft, prune, interval, reply)
      PROVE  p \notin direct
  <2>1. q = p /\ t \in GraftKnown(p, graft) \ GraftRefused(p, graft)
    BY <1>0, <1>5 DEF HandleControl
  <2> QED BY <2>1 DEF GraftKnown, GraftRefused
<1>6. CASE Heartbeat
  BY <1>0, <1>6, HeartbeatMesh
<1>7. LocalNext => p \notin direct
  <2>1. ASSUME NEW u, NEW local, NEW skip, Publish(u, local, skip) \/ Preprocess(u, skip)
        PROVE  UNCHANGED mesh
    BY <2>1 DEF Publish, Preprocess, meshVars
  <2>2. ASSUME NEW q, AddDirectPeer(q) \/ RemoveDirectPeer(q) \/ WriteRPC(q)
        PROVE  UNCHANGED mesh
    BY <2>2 DEF AddDirectPeer, RemoveDirectPeer, WriteRPC, meshVars
  <2> QED BY <1>1, <1>2, <1>3, <2>1, <2>2 DEF LocalNext
<1>8. RemoteNext => p \notin direct
  <2>1. ASSUME NEW q, NEW u, NEW sub, HandleSubscription(q, u, sub) PROVE UNCHANGED mesh
    BY <2>1 DEF HandleSubscription, meshVars
  <2>2. ASSUME NEW q, NEW sc, ScoreChange(q, sc) PROVE UNCHANGED mesh
    BY <2>2 DEF ScoreChange, meshVars
  <2> QED BY <1>3, <1>5, <2>1, <2>2 DEF RemoteNext
<1>9. StreamNext => p \notin direct
  <2>1. ASSUME NEW q, NEW dialled,
               \/ NewPeer(q) \/ NewOutboundStream(q, dialled) \/ NewPeerError(q)
               \/ NewIncomingStream(q) \/ ClosedIncomingStream(q)
        PROVE  UNCHANGED mesh
    BY <2>1 DEF NewPeer, NewOutboundStream, NewPeerError, NewIncomingStream,
                ClosedIncomingStream, meshVars
  <2> QED BY <1>3, <1>4, <2>1 DEF StreamNext
<1>10. CASE Tick \/ UNCHANGED vars
  BY <1>3, <1>10 DEF Tick, meshVars, vars
<1> QED BY <1>6, <1>7, <1>8, <1>9, <1>10 DEF Next

\* As long as the application does not call AddDirectPeer, no step brings a direct peer
\* into a mesh: getFanoutPeersForPublishing and the heartbeat keep them out of the
\* fanout that Join takes over, handleGraft refuses their GRAFTs.
THEOREM DirectSafe == DirectCandidates = {} => (Spec => NoDirectGraft)
<1> SUFFICES ASSUME DirectCandidates = {} PROVE Spec => NoDirectGraft
  OBVIOUS
<1>1. Init => TypeOK /\ FanoutApart
  BY TypeInit DEF Init, FanoutApart
<1>2. TypeOK /\ FanoutApart /\ [Next]_vars => (TypeOK /\ FanoutApart)'
  BY TypeStep, ApartStep
<1>3. TypeOK /\ FanoutApart /\ [Next]_vars =>
        [\A t \in Topics, p \in Peers : Enters(p, t) => p \notin direct]_vars
  BY DirectStep
<1> QED BY <1>1, <1>2, <1>3, PTL DEF Spec, NoDirectGraft

-----------------------------------------------------------------------------
(* Trimming.                                                               *)

LEMMA FinitePeers ==
    ASSUME NEW A \in SUBSET Peers PROVE IsFiniteSet(A) /\ Cardinality(A) \in Nat
BY SetAssumption, FS_Subset, FS_CardinalityType

LEMMA SmallerCard ==
    ASSUME NEW A \in SUBSET Peers, NEW B \in SUBSET A
    PROVE  /\ Cardinality(A) \in Nat /\ Cardinality(B) \in Nat
           /\ Cardinality(B) <= Cardinality(A) /\ (Cardinality(A) = Cardinality(B) => A = B)
<1>1. IsFiniteSet(A) /\ IsFiniteSet(B)
  BY FinitePeers
<1> QED BY <1>1, FS_Subset, FS_CardinalityType

LEMMA MeshNumbers ==
    /\ D \in Nat /\ Dlo \in Nat /\ Dhi \in Nat /\ Dscore \in Nat /\ Dout \in Nat
    /\ Dlo <= D /\ D <= Dhi /\ OpportunisticGraftPeers \in Nat
BY ParamAssumption

\* What the trimming of A chooses: the best T, the first D of the shuffled list, and
\* how many outbound peers replace others.
LEMMA TrimmedParts ==
    ASSUME NEW A \in SUBSET Peers, Cardinality(A) >= Dhi, NEW K \in Trimmed(A)
    PROVE  \E T \in TopScored(A) : \E S \in First(D, A, T) :
             \E n \in Nat, r1 \in SUBSET (A \cap outbound), r2 \in SUBSET (S \ outbound) :
                /\ K = (S \cap outbound) \cup r1 \cup r2
                /\ n = 0 \/ Cardinality(S \cap outbound) + n <= Dout
                /\ r2 \in First(D - Cardinality(S \cap outbound) - n, S \ outbound, T)
<1>1. Cardinality(A) \in Nat
  BY FinitePeers
<1>2. K \in UNION {UNION {Selections(A, T, S) : S \in First(D, A, T)} : T \in TopScored(A)}
  BY <1>1, MeshNumbers DEF Trimmed
<1>3. PICK T \in TopScored(A) : K \in UNION {Selections(A, T, S) : S \in First(D, A, T)}
  BY <1>2
<1>4. PICK S \in First(D, A, T) : K \in Selections(A, T, S)
  BY <1>3
<1> DEFINE out   == S \cap outbound
           spare == (A \ S) \cap outbound
           n     == IF Cardinality(out) >= Dout THEN 0
                    ELSE Smaller(Dout - Cardinality(out), Cardinality(spare))
<1>5. PICK r \in First(n, spare, T) \X First(D - Cardinality(out) - n, S \ outbound, T) :
        K = out \cup r[1] \cup r[2]
  BY <1>4 DEF Selections
<1>6. r[1] \in First(n, spare, T) /\ r[2] \in First(D - Cardinality(out) - n, S \ outbound, T)
  OBVIOUS
<1>7. S \subseteq A
  BY DEF First, kSubset
<1>8. Cardinality(out) \in Nat /\ Cardinality(spare) \in Nat
  BY <1>7, FinitePeers
<1>9. n \in Nat /\ (n = 0 \/ Cardinality(out) + n <= Dout)
  <2>1. CASE Cardinality(out) >= Dout
    BY <2>1
  <2>2. CASE ~ (Cardinality(out) >= Dout)
    <3> DEFINE a == Cardinality(out)
               b == Cardinality(spare)
    <3>1. n = Smaller(Dout - a, b) /\ a \in Nat /\ b \in Nat /\ a < Dout
      BY <1>8, <2>2, MeshNumbers
    <3> HIDE DEF n, a, b
    <3>2. n \in Nat /\ a + n <= Dout
      BY <3>1, MeshNumbers DEF Smaller
    <3> QED BY <3>2 DEF a
  <2> QED BY <2>1, <2>2
<1> HIDE DEF n
<1>10. r[1] \subseteq spare /\ r[2] \subseteq S \ outbound
  BY <1>6 DEF First, kSubset
<1>11. r[1] \in SUBSET (A \cap outbound) /\ r[2] \in SUBSET (S \ outbound)
  BY <1>10
<1> QED BY <1>5, <1>6, <1>9, <1>11

\* The best Dscore survive if the places reserved for outbound peers are not theirs.
LEMMA TrimKeepsTop ==
    ASSUME Dscore + Dout <= D, NEW A \in SUBSET Peers, Cardinality(A) >= Dhi, NEW K \in Trimmed(A)
    PROVE  \E T \in TopScored(A) : T \subseteq K
<1>1. PICK T \in TopScored(A) : \E S \in First(D, A, T) :
             \E n \in Nat, r1 \in SUBSET (A \cap outbound), r2 \in SUBSET (S \ outbound) :
                /\ K = (S \cap outbound) \cup r1 \cup r2
                /\ n = 0 \/ Cardinality(S \cap outbound) + n <= Dout
                /\ r2 \in First(D - Cardinality(S \cap outbound) - n, S \ outbound, T)
  BY TrimmedParts
<1>2. PICK S \in First(D, A, T) :
             \E n \in Nat, r1 \in SUBSET (A \cap outbound), r2 \in SUBSET (S \ outbound) :
                /\ K = (S \cap outbound) \cup r1 \cup r2
                /\ n = 0 \/ Cardinality(S \cap outbound) + n <= Dout
                /\ r2 \in First(D - Cardinality(S \cap outbound) - n, S \ outbound, T)
  BY <1>1
<1>3. PICK n \in Nat, r1 \in SUBSET (A \cap outbound), r2 \in SUBSET (S \ outbound) :
                /\ K = (S \cap outbound) \cup r1 \cup r2
                /\ n = 0 \/ Cardinality(S \cap outbound) + n <= Dout
                /\ r2 \in First(D - Cardinality(S \cap outbound) - n, S \ outbound, T)
  BY <1>2
<1> DEFINE a == Cardinality(S \cap outbound)
<1>4. T \subseteq A /\ Cardinality(T) = Dscore /\ S \subseteq A /\ Cardinality(S) = D
  BY DEF TopScored, First, kSubset
<1>5. Cardinality(r2) = D - a - n
  BY <1>3 DEF First, kSubset
<1>6. a \in Nat /\ Cardinality(S \ outbound) = D - a
  <2>1. IsFiniteSet(S)
    BY <1>4, FinitePeers
  <2>2. Cardinality(S \ outbound) = Cardinality(S) - Cardinality(S \cap outbound)
    BY <2>1, FS_Difference
  <2> QED BY <1>4, <2>2, FinitePeers
<1>7. T \subseteq S
  <2> SUFFICES ASSUME NEW y \in T, y \notin S PROVE FALSE
    OBVIOUS
  <2>1. \A x \in S : ~ MustPrecede(T, y, x)
    BY <1>4 DEF First
  <2>2. S \subseteq T
    BY <2>1 DEF MustPrecede
  <2>3. T \in SUBSET Peers /\ S \in SUBSET T
    BY <1>4, <2>2
  <2>4. D <= Dscore /\ (Dscore = D => T = S)
    BY <1>4, <2>3, SmallerCard
  <2> QED BY <2>4, MeshNumbers
<1>8. T \ outbound \subseteq r2
  <2> SUFFICES ASSUME NEW y \in T \ outbound, y \notin r2 PROVE FALSE
    OBVIOUS
  <2>1. y \in S \ outbound
    BY <1>7
  <2>2. \A x \in r2 : ~ MustPrecede(T, y, x)
    BY <1>3, <2>1 DEF First
  <2>3. r2 \subseteq T
    BY <2>2 DEF MustPrecede
  <2>4. CASE n = 0
    <3>1. S \ outbound \in SUBSET Peers /\ r2 \in SUBSET (S \ outbound)
      BY <1>4
    <3>2. Cardinality(r2) = Cardinality(S \ outbound)
      BY <1>5, <1>6, <2>4, MeshNumbers
    <3>3. r2 = S \ outbound
      BY <3>1, <3>2, SmallerCard
    <3> QED BY <2>1, <3>3
  <2>5. CASE a + n <= Dout
    <3>1. T \in SUBSET Peers /\ r2 \in SUBSET T
      BY <1>4, <2>3
    <3>2. Cardinality(r2) <= Dscore /\ (Cardinality(r2) = Dscore => r2 = T)
      BY <1>4, <3>1, SmallerCard
    <3> HIDE DEF a
    <3>3. D - a - n >= Dscore
      BY <1>3, <1>6, <2>5, MeshNumbers
    <3>4. Cardinality(r2) = Dscore
      BY <1>3, <1>5, <1>6, <3>2, <3>3, MeshNumbers
    <3> QED BY <3>2, <3>4
  <2> QED BY <1>3, <2>4, <2>5
<1>9. T \subseteq K
  BY <1>3, <1>7, <1>8
<1> QED BY <1>9

\* With parameters that reserve no more than D - Dscore places for outbound peers, as
\* the default ones do, the trimming of an oversubscribed mesh in the heartbeat keeps
\* Dscore peers that score no worse than any that is pruned.
THEOREM TrimSafe == Dscore + Dout <= D => (Spec => []TrimKeepsBest)
<1> SUFFICES ASSUME Dscore + Dout <= D PROVE Spec => []TrimKeepsBest
  OBVIOUS
<1>1. TypeOK => TrimKeepsBest
  <2> SUFFICES ASSUME TypeOK, NEW t \in Topics, Cardinality(mesh[t]) >= Dhi,
                      NEW K \in Trimmed(mesh[t]), NEW x \in mesh[t] \ K
               PROVE  Cardinality({p \in K : score[p] >= score[x]}) >= Smaller(Dscore, D)
    BY DEF TrimKeepsBest
  <2> DEFINE A == mesh[t]
             G == {p \in K : score[p] >= score[x]}
  <2>1. A \in SUBSET Peers /\ K \subseteq A
    BY TrimmedSubset DEF TypeOK
  <2>2. PICK T \in TopScored(A) : T \subseteq K
    BY <2>1, TrimKeepsTop
  <2>3. Cardinality(T) = Dscore /\ \A p \in T, q \in A \ T : score[p] >= score[q]
    BY DEF TopScored, kSubset
  <2>4. T \in SUBSET G /\ G \in SUBSET Peers
    BY <2>1, <2>2, <2>3
  <2> HIDE DEF G
  <2>5. Cardinality(G) \in Nat /\ Dscore <= Cardinality(G)
    BY <2>3, <2>4, SmallerCard
  <2>6. Smaller(Dscore, D) \in Nat /\ Smaller(Dscore, D) <= Dscore
    BY MeshNumbers DEF Smaller
  <2>7. Cardinality(G) >= Smaller(Dscore, D)
    BY <2>5, <2>6, MeshNumbers
  <2> QED BY <2>7 DEF G
<1> QED BY <1>1, TypeCorrect, PTL

-----------------------------------------------------------------------------
(* How many of a mesh dialled us.                                          *)

\* A peer of a mesh does not turn from one that we dialled into one that dialled us.
\* When streams come and go, a late newPeerStream of an earlier attempt may do that.
SteadyDirection == [][\A t \in Topics : mesh'[t] \cap outbound \subseteq outbound']_vars

\* A fanout has no more than D peers.
FanoutBound == \A t \in Topics : Cardinality(fanout[t]) <= D

LEMMA GetPeersBound ==
    ASSUME TypeOK, NEW t \in Topics, NEW count \in Nat \ {0}, NEW ok, NEW g \in GetPeers(t, count, ok)
    PROVE  g \subseteq Peers /\ Cardinality(g) <= count
<1> DEFINE c == {p \in topics[t] \cap MeshPeers \cap ok : <<p, t>> \notin Rejected}
<1>1. c \in SUBSET Peers
  BY DEF TypeOK
<1>2. Cardinality(c) \in Nat
  BY <1>1, FinitePeers
<1>3. g \in IF count > 0 /\ Cardinality(c) > count THEN kSubset(count, c) ELSE {c}
  BY DEF GetPeers
<1> HIDE DEF c
<1>4. CASE Cardinality(c) > count
  BY <1>1, <1>3, <1>4 DEF kSubset
<1>5. CASE ~ (Cardinality(c) > count)
  BY <1>1, <1>2, <1>3, <1>5
<1> QED BY <1>4, <1>5

LEMMA UnionBound ==
    ASSUME NEW A \in SUBSET Peers, NEW B \in SUBSET Peers, NEW m \in Int, NEW n \in Int,
           Cardinality(A) <= m, Cardinality(B) <= n
    PROVE  Cardinality(A \cup B) <= m + n
<1>1. IsFiniteSet(A) /\ IsFiniteSet(B) /\ IsFiniteSet(A \cap B)
  BY FinitePeers
<1>2. Cardinality(A \cup B) = Cardinality(A) + Cardinality(B) - Cardinality(A \cap B)
  BY <1>1, FS_Union
<1>3. Cardinality(A) \in Nat /\ Cardinality(B) \in Nat /\ Cardinality(A \cap B) \in Nat
  BY <1>1, FS_CardinalityType
<1> QED BY <1>2, <1>3

\* The heartbeat and publishing keep a fanout within D.
LEMMA FanoutOutcomesBound ==
    ASSUME D > 0, TypeOK, NEW t \in Topics, Cardinality(fanout[t]) <= D,
           NEW f \in FanoutOutcomes(t) \cup FanoutForPublishing(t)
    PROVE  Cardinality(f) <= D
<1>0. D \in Nat \ {0}
  BY MeshNumbers
<1>1. CASE f \in FanoutOutcomes(t)
  <2> DEFINE kept == {p \in fanout[t] \cap topics[t] : score[p] >= PublishThreshold}
             more == {p \in Peers \ (kept \cup direct) : score[p] >= PublishThreshold}
             n    == D - Cardinality(kept)
  <2>1. fanout[t] \in SUBSET Peers /\ kept \in SUBSET fanout[t] /\ kept \in SUBSET Peers
    BY DEF TypeOK
  <2>2. Cardinality(kept) \in Nat /\ Cardinality(fanout[t]) \in Nat
        /\ Cardinality(kept) <= Cardinality(fanout[t])
    BY <2>1, SmallerCard
  <2>3. Cardinality(kept) <= D
    BY <1>0, <2>2
  <2>4. f \in IF Cardinality(kept) >= D THEN {kept} ELSE {kept \cup g : g \in GetPeers(t, n, more)}
    BY <1>1 DEF FanoutOutcomes
  <2> HIDE DEF more, kept
  <2>5. CASE Cardinality(kept) >= D
    BY <2>3, <2>4, <2>5
  <2>6. CASE ~ (Cardinality(kept) >= D)
    <3>1. PICK g \in GetPeers(t, n, more) : f = kept \cup g
      BY <2>4, <2>6
    <3>2. n \in Nat \ {0} /\ Cardinality(kept) + n = D
      BY <1>0, <2>2, <2>6
    <3> HIDE DEF n
    <3>3. g \in SUBSET Peers /\ Cardinality(g) <= n
      BY <3>1, <3>2, GetPeersBound
    <3>4. Cardinality(kept) \in Int /\ n \in Int /\ Cardinality(kept) <= Cardinality(kept)
      BY <2>2, <3>2
    <3>5. Cardinality(kept \cup g) <= Cardinality(kept) + n
      BY <2>1, <3>3, <3>4, UnionBound
    <3> QED BY <3>1, <3>2, <3>5
  <2> QED BY <2>5, <2>6
<1>2. CASE f \in FanoutForPublishing(t)
  <2> DEFINE ok == {p \in Peers \ direct : score[p] >= PublishThreshold}
  <2>1. CASE f # fanout[t]
    <3>1. f \in GetPeers(t, D, ok)
      BY <1>2, <2>1 DEF FanoutForPublishing
    <3> HIDE DEF ok
    <3> QED BY <1>0, <3>1, GetPeersBound
  <2> QED BY <2>1
<1> QED BY <1>1, <1>2

LEMMA JoinBound ==
    ASSUME D > 0, TypeOK, FanoutExclusive, NEW t \in Topics, Cardinality(fanout[t]) <= D,
           NEW m \in JoinMeshes(t)
    PROVE  m \in SUBSET Peers /\ Cardinality(m) <= D
<1> DEFINE base == FanoutSurvivors(t)
           n    == D - Cardinality(base)
           C    == Graftable(base, InBackoff(t))
<1>0. D \in Nat \ {0}
  BY MeshNumbers
<1>1. fanout[t] \in SUBSET Peers /\ base \in SUBSET fanout[t] /\ base \in SUBSET Peers
  BY DEF FanoutSurvivors, TypeOK
<1>2. Cardinality(base) \in Nat /\ Cardinality(base) <= D
  BY <1>0, <1>1, SmallerCard
<1>3. m \in IF t \in fanoutTopics /\ Cardinality(base) >= D THEN {base}
            ELSE {base \cup g : g \in GetPeers(t, n, C)}
  BY DEF JoinMeshes
<1>4. base \subseteq fanout[t]
  BY <1>1
<1> HIDE DEF base, C
<1>5. CASE m = base
  BY <1>1, <1>2, <1>5
<1>6. CASE m # base
  <2>1. PICK g \in GetPeers(t, n, C) : m = base \cup g
    BY <1>3, <1>6
  <2>2. n \in Nat /\ Cardinality(base) + n = D
    BY <1>0, <1>2
  <2>3. CASE n # 0
    <3> HIDE DEF n
    <3>1. g \in SUBSET Peers /\ Cardinality(g) <= n
      BY <2>1, <2>2, <2>3, GetPeersBound
    <3>2. Cardinality(base) \in Int /\ n \in Int /\ Cardinality(base) <= Cardinality(base)
      BY <1>2, <2>2
    <3>3. Cardinality(base \cup g) <= Cardinality(base) + n
      BY <1>1, <3>1, <3>2, UnionBound
    <3> QED BY <1>1, <2>1, <2>2, <3>1, <3>3
  <2>4. CASE n = 0
    <3>1. Cardinality(base) = D
      BY <1>0, <1>2, <2>4
    <3>2. t \notin fanoutTopics
      BY <1>0, <1>2, <1>3, <1>6, <3>1
    <3>3. base = {}
      BY <1>4, <3>2 DEF FanoutExclusive
    <3> QED BY <1>0, <3>1, <3>3, FS_EmptySet
  <2> QED BY <2>3, <2>4
<1> QED BY <1>5, <1>6

LEMMA BoundNumbers ==
    /\ DialledUsBound \in Int
    /\ D <= DialledUsBound /\ Dhi <= DialledUsBound
    /\ Larger(D, Dhi - 1) \in Int /\ D <= Larger(D, Dhi - 1) /\ Dhi - 1 <= Larger(D, Dhi - 1)
    /\ Larger(D, Dhi - 1) <= DialledUsBound
    /\ OpportunisticGraftThreshold > 0 => Larger(D, Dhi - 1) + OpportunisticGraftPeers <= DialledUsBound
<1>1. OpportunisticGraftThreshold \in Int
  BY ScoreAssumption
<1>2. Larger(D, Dhi - 1) \in Int /\ D <= Larger(D, Dhi - 1) /\ Dhi - 1 <= Larger(D, Dhi - 1)
  BY MeshNumbers DEF Larger
<1> DEFINE a == Larger(D, Dhi - 1)
           b == IF OpportunisticGraftThreshold > 0 THEN OpportunisticGraftPeers ELSE 0
<1>3. b \in Nat /\ (OpportunisticGraftThreshold > 0 => b = OpportunisticGraftPeers)
  BY MeshNumbers
<1>4. DialledUsBound = Larger(Dhi, a + b)
  BY DEF DialledUsBound
<1> HIDE DEF a, b
<1>5. /\ Larger(Dhi, a + b) \in Int /\ Dhi <= Larger(Dhi, a + b) /\ a <= Larger(Dhi, a + b)
      /\ a + b <= Larger(Dhi, a + b)
  BY <1>2, <1>3, MeshNumbers DEF Larger, a
<1>6. D <= DialledUsBound
  BY <1>2, <1>4, <1>5, MeshNumbers DEF a
<1> QED BY <1>2, <1>3, <1>4, <1>5, <1>6 DEF a

\* What the trimming leaves of peers that dialled us
LEMMA TrimmedBound ==
    ASSUME TypeOK, NEW A \in SUBSET Peers, NEW K \in Trimmed(A)
    PROVE  K \in SUBSET Peers /\ Cardinality(K \ outbound) <= Larger(D, Dhi - 1)
<1>1. K \in SUBSET Peers /\ Cardinality(A) \in Nat
  BY TrimmedSubset, FinitePeers
<1>2. CASE Cardinality(A) < Dhi
  <2>1. K = A
    BY <1>2 DEF Trimmed
  <2>2. Cardinality(K \ outbound) \in Nat /\ Cardinality(K \ outbound) <= Cardinality(A)
    BY <2>1, SmallerCard
  <2> QED BY <1>1, <1>2, <2>2, MeshNumbers, BoundNumbers
<1>3. CASE ~ (Cardinality(A) < Dhi)
  <2>1. Cardinality(A) >= Dhi
    BY <1>1, <1>3, MeshNumbers
  <2>2. PICK T \in TopScored(A) : \E S \in First(D, A, T) :
             \E n \in Nat, r1 \in SUBSET (A \cap outbound), r2 \in SUBSET (S \ outbound) :
                /\ K = (S \cap outbound) \cup r1 \cup r2
                /\ n = 0 \/ Cardinality(S \cap outbound) + n <= Dout
                /\ r2 \in First(D - Cardinality(S \cap outbound) - n, S \ outbound, T)
    BY <2>1, TrimmedParts
  <2>3. PICK S \in First(D, A, T) :
             \E r1 \in SUBSET (A \cap outbound), r2 \in SUBSET (S \ outbound) :
                K = (S \cap outbound) \cup r1 \cup r2
    BY <2>2
  <2>4. S \in SUBSET Peers /\ Cardinality(S) = D
    BY DEF First, kSubset
  <2>5. K \ outbound \in SUBSET S
    BY <2>3
  <2>6. Cardinality(K \ outbound) \in Nat /\ Cardinality(K \ outbound) <= D
    BY <2>4, <2>5, SmallerCard
  <2> QED BY <1>1, <2>6, MeshNumbers, BoundNumbers
<1> QED BY <1>2, <1>3

\* A heartbeat leaves no more peers that dialled us than the bound, whatever it found.
LEMMA MeshOutcomesBound ==
    ASSUME OpportunisticGraftPeers > 0, TypeOK, NEW t \in Topics, NEW backed, NEW turn,
           NEW o \in MeshOutcomes(t, backed, turn)
    PROVE  o.mesh \in SUBSET Peers /\ Cardinality(o.mesh \ outbound) <= DialledUsBound
<1> DEFINE neg == {p \in mesh[t] : score[p] < 0}
           m0  == mesh[t] \ neg
<1>1. PICK g1, k, g2, g3 : Chosen(t, backed, turn, o, g1, k, g2, g3)
  BY MeshOutcomesParts
<1>2. /\ g1 \in Refill(t, m0, backed \cup neg) /\ k \in Trimmed(m0 \cup g1)
      /\ g2 \in OutboundGrafts(t, k, backed \cup mesh[t] \cup g1)
      /\ g3 \in OpportunisticGrafts(t, k \cup g2, backed \cup mesh[t] \cup g1, turn)
      /\ o.mesh = k \cup g2 \cup g3
  BY <1>1 DEF Chosen
<1>3. mesh[t] \subseteq Peers /\ \A p \in Peers : score[p] \in Int
  BY ScoreAssumption DEF TypeOK
<1>4. \A p \in m0 : p \in Peers /\ score[p] >= 0
  BY <1>3
<1>5. \A p \in g1 : p \in Peers /\ score[p] >= 0
  <2>1. CASE g1 # {}
    <3>1. g1 \in GetPeers(t, D - Cardinality(m0), Graftable(m0, backed \cup neg))
      BY <1>2, <2>1 DEF Refill
    <3> QED BY <3>1, GetPeersSound DEF Graftable
  <2> QED BY <2>1
<1> HIDE DEF m0
<1>6. m0 \cup g1 \in SUBSET Peers
  BY <1>4, <1>5
<1>7. k \in SUBSET Peers /\ k \subseteq m0 \cup g1 /\ Cardinality(k \ outbound) <= Larger(D, Dhi - 1)
  BY <1>2, <1>6, TrimmedBound, TrimmedSubset
<1>8. g2 \subseteq outbound /\ \A p \in g2 : p \in Peers /\ score[p] >= 0
  <2>1. CASE g2 # {}
    <3> DEFINE n == Dout - Cardinality(k \cap outbound)
               C == Graftable(k, backed \cup mesh[t] \cup g1) \cap outbound
    <3>1. g2 \in GetPeers(t, n, C)
      BY <1>2, <2>1 DEF OutboundGrafts
    <3>2. g2 \subseteq C
      <4> HIDE DEF n, C
      <4> QED BY <3>1, GetPeersSound
    <3> QED BY <3>2 DEF Graftable
  <2> QED BY <2>1
<1>9. \A x \in k \cup g2 : x \in Peers /\ score[x] >= 0
  BY <1>4, <1>5, <1>7, <1>8
<1>10. CASE g3 = {}
  <2>1. o.mesh \in SUBSET Peers /\ o.mesh \ outbound = k \ outbound
    BY <1>2, <1>7, <1>8, <1>10
  <2> DEFINE kd == Cardinality(k \ outbound)
  <2>2. kd \in Nat
    BY <1>7, FinitePeers
  <2>3. Cardinality(o.mesh \ outbound) = kd
    BY <2>1
  <2>4. kd <= Larger(D, Dhi - 1)
    BY <1>7
  <2> HIDE DEF kd
  <2>5. kd <= DialledUsBound
    BY <2>2, <2>4, BoundNumbers
  <2> QED BY <2>1, <2>3, <2>5
<1>11. CASE g3 # {}
  <2> DEFINE M == k \cup g2
             backed2 == backed \cup mesh[t] \cup g1
             Better(x) == {p \in Peers \ (M \cup backed2 \cup direct) : score[p] > score[x]}
  <2>1. PICK x \in M : /\ score[x] < OpportunisticGraftThreshold
                       /\ g3 \in GetPeers(t, OpportunisticGraftPeers, Better(x))
    BY <1>2, <1>11 DEF OpportunisticGrafts
  <2>2. OpportunisticGraftThreshold > 0
    BY <1>3, <1>9, <2>1, ScoreAssumption
  <2>3. g3 \in SUBSET Peers /\ Cardinality(g3) <= OpportunisticGraftPeers
    <3> HIDE DEF Better
    <3>1. OpportunisticGraftPeers \in Nat \ {0}
      BY MeshNumbers
    <3> QED BY <2>1, <3>1, GetPeersBound
  <2> HIDE DEF M
  <2>4. o.mesh \in SUBSET Peers /\ o.mesh \ outbound \in SUBSET ((k \ outbound) \cup g3)
    BY <1>2, <1>7, <1>8, <2>3
  <2>5. (k \ outbound) \in SUBSET Peers /\ OpportunisticGraftPeers \in Int
    BY <1>7, MeshNumbers
  <2>6. Cardinality((k \ outbound) \cup g3) <= Larger(D, Dhi - 1) + OpportunisticGraftPeers
    BY <1>7, <2>3, <2>5, BoundNumbers, UnionBound
  <2>7. (k \ outbound) \cup g3 \in SUBSET Peers
    BY <2>3, <2>5
  <2>8. /\ Cardinality(o.mesh \ outbound) \in Nat /\ Cardinality((k \ outbound) \cup g3) \in Nat
        /\ Cardinality(o.mesh \ outbound) <= Cardinality((k \ outbound) \cup g3)
    BY <2>4, <2>7, SmallerCard
  <2> QED BY <2>2, <2>4, <2>5, <2>6, <2>8, BoundNumbers
<1> QED BY <1>10, <1>11

LEMMA FanoutBoundStep ==
    ASSUME D > 0, TypeOK, TypeOK', FanoutBound, [Next]_vars
    PROVE  FanoutBound'
<1>0. D \in Nat \ {0} /\ \A t \in Topics : fanout[t] \in SUBSET Peers
  BY MeshNumbers DEF TypeOK
<1>1. CASE UNCHANGED fanout
  BY <1>1 DEF FanoutBound
<1>2. ASSUME NEW u \in Topics, NEW f, fanout' = [fanout EXCEPT ![u] = f], Cardinality(f) <= D
      PROVE  FanoutBound'
  BY <1>2 DEF FanoutBound, TypeOK
<1>3. ASSUME NEW u \in Topics, JoinTopic(u) PROVE FanoutBound'
  <2>1. fanout' = [fanout EXCEPT ![u] = {}]
    BY <1>3 DEF JoinTopic
  <2>2. Cardinality({}) <= D
    BY <1>0, FS_EmptySet
  <2> QED BY <1>2, <2>1, <2>2
<1>4. ASSUME NEW u \in Topics, NEW local \in BOOLEAN, NEW skip, Publish(u, local, skip), ~ UNCHANGED fanout
      PROVE  FanoutBound'
  <2>1. PICK gmap \in FanoutForPublishing(u) : fanout' = [fanout EXCEPT ![u] = gmap]
    BY <1>4 DEF Publish, fanVars
  <2>2. Cardinality(gmap) <= D
    BY FanoutOutcomesBound DEF FanoutBound
  <2> QED BY <1>2, <2>1, <2>2
<1>5. ASSUME NEW q, NEW respawn, DeadPeer(q, respawn) PROVE FanoutBound'
  <2>1. fanout' = [t \in Topics |-> fanout[t] \ {q}]
    BY <1>5 DEF DeadPeer
  <2>2. ASSUME NEW t \in Topics PROVE Cardinality(fanout[t] \ {q}) <= D
    <3>1. fanout[t] \ {q} \in SUBSET fanout[t]
      OBVIOUS
    <3>2. /\ Cardinality(fanout[t] \ {q}) \in Nat /\ Cardinality(fanout[t]) \in Nat
          /\ Cardinality(fanout[t] \ {q}) <= Cardinality(fanout[t])
      BY <1>0, <3>1, SmallerCard
    <3>3. Cardinality(fanout[t]) <= D
      BY DEF FanoutBound
    <3> QED BY <1>0, <3>2, <3>3
  <2> QED BY <2>1, <2>2 DEF FanoutBound
<1>6. CASE Heartbeat
  <2> DEFINE alive == {t \in Topics : lastpub[t] <= FanoutTTL}
             fts   == fanoutTopics \cap alive
             fo    == [t \in fts |-> FanoutOutcomes(t)]
  <2>1. PICK f \in [fts -> UNION {fo[t] : t \in fts}] :
          /\ \A t \in fts : f[t] \in fo[t]
          /\ fanout' = [t \in Topics |-> IF t \in fts THEN f[t] ELSE {}]
    BY <1>6 DEF Heartbeat
  <2>2. ASSUME NEW t \in fts PROVE Cardinality(f[t]) <= D
    <3>1. t \in Topics /\ f[t] \in FanoutOutcomes(t)
      BY <2>1
    <3> QED BY <3>1, FanoutOutcomesBound DEF FanoutBound
  <2>3. Cardinality({}) <= D
    BY <1>0, FS_EmptySet
  <2> HIDE DEF fts
  <2> QED BY <2>1, <2>2, <2>3 DEF FanoutBound
<1>7. ASSUME NEW u \in Topics, NEW skip, LeaveTopic(u) \/ Preprocess(u, skip) PROVE UNCHANGED fanout
  BY <1>7 DEF LeaveTopic, Preprocess, fanVars
<1>8. ASSUME NEW q, AddDirectPeer(q) \/ RemoveDirectPeer(q) \/ WriteRPC(q) PROVE UNCHANGED fanout
  BY <1>8 DEF AddDirectPeer, RemoveDirectPeer, WriteRPC, fanVars
<1>9. RemoteNext => UNCHANGED fanout
  BY DEF RemoteNext, HandleSubscription, HandleControl, ScoreChange, fanVars
<1>10. ASSUME NEW q, NEW dialled,
              \/ NewPeer(q) \/ NewOutboundStream(q, dialled) \/ NewPeerError(q)
              \/ NewIncomingStream(q) \/ ClosedIncomingStream(q)
       PROVE  UNCHANGED fanout
  BY <1>10 DEF NewPeer, NewOutboundStream, NewPeerError, NewIncomingStream,
               ClosedIncomingStream, fanVars
<1>11. Tick \/ UNCHANGED vars => UNCHANGED fanout
  BY DEF Tick, vars
<1>12. LocalNext => FanoutBound'
  BY <1>1, <1>3, <1>4, <1>7, <1>8 DEF LocalNext
<1>13. StreamNext => FanoutBound'
  BY <1>1, <1>5, <1>10 DEF StreamNext
<1> QED BY <1>1, <1>6, <1>9, <1>11, <1>12, <1>13 DEF Next

LEMMA TakeoverStep ==
    ASSUME D > 0, OpportunisticGraftPeers > 0,
           TypeOK, TypeOK', FanoutExclusive, FanoutBound, TakeoverBound, [Next]_vars,
           \A t \in Topics : mesh'[t] \cap outbound \subseteq outbound'
    PROVE  TakeoverBound'
<1>0. /\ \A t \in Topics : mesh[t] \in SUBSET Peers /\ mesh'[t] \in SUBSET Peers
      /\ mesh \in [Topics -> SUBSET Peers]
  BY DEF TypeOK
\* It is enough to count the peers that had dialled us before the step.
<1>1. ASSUME NEW t \in Topics, NEW A \in SUBSET Peers, mesh'[t] \ outbound \subseteq A,
             Cardinality(A) <= DialledUsBound
      PROVE  Cardinality(mesh'[t] \ outbound') <= DialledUsBound
  <2>1. PICK B : B = mesh'[t] \ outbound'
    OBVIOUS
  <2>2. B \in SUBSET A
    BY <1>1, <2>1
  <2>3. Cardinality(B) \in Nat /\ Cardinality(A) \in Nat /\ Cardinality(B) <= Cardinality(A)
    BY <2>2, SmallerCard
  <2>4. Cardinality(B) <= DialledUsBound
    BY <1>1, <2>3, BoundNumbers
  <2> QED BY <2>1, <2>4
<1>2. ASSUME NEW t \in Topics, mesh'[t] \subseteq mesh[t]
      PROVE  Cardinality(mesh'[t] \ outbound') <= DialledUsBound
  <2> DEFINE A == mesh[t] \ outbound
  <2>1. A \in SUBSET Peers /\ mesh'[t] \ outbound \subseteq A
    BY <1>0, <1>2
  <2>2. Cardinality(A) <= DialledUsBound
    BY DEF TakeoverBound
  <2> HIDE DEF A
  <2> QED BY <1>1, <2>1, <2>2
<1>3. DialledUsBound' = DialledUsBound
  BY DEF DialledUsBound
<1>4. ASSUME \A t \in Topics : mesh'[t] \subseteq mesh[t] PROVE TakeoverBound'
  BY <1>2, <1>3, <1>4 DEF TakeoverBound
<1>5. ASSUME NEW u \in Topics, JoinTopic(u) PROVE TakeoverBound'
  <2>1. PICK m \in JoinMeshes(u) : mesh' = [mesh EXCEPT ![u] = m]
    BY <1>5 DEF JoinTopic
  <2>2. m \in SUBSET Peers /\ Cardinality(m) <= D
    BY JoinBound DEF FanoutBound
  <2>3. ASSUME NEW t \in Topics PROVE Cardinality(mesh'[t] \ outbound') <= DialledUsBound
    <3>1. CASE t = u
      <4>1. mesh'[t] = m
        BY <1>0, <2>1, <3>1
      <4>2. Cardinality(m) \in Nat
        BY <2>2, FinitePeers
      <4>3. Cardinality(m) <= DialledUsBound
        BY <2>2, <4>2, BoundNumbers, MeshNumbers
      <4>4. mesh'[t] \ outbound \subseteq m
        BY <4>1
      <4> QED BY <1>1, <2>2, <4>3, <4>4
    <3>2. CASE t # u
      <4>1. mesh'[t] \subseteq mesh[t]
        BY <1>0, <2>1, <3>2
      <4> QED BY <1>2, <4>1
    <3> QED BY <3>1, <3>2
  <2> QED BY <1>3, <2>3 DEF TakeoverBound
<1>6. ASSUME NEW u \in Topics, LeaveTopic(u) PROVE TakeoverBound'
  BY <1>0, <1>4, <1>6 DEF LeaveTopic
<1>7. CASE UNCHANGED mesh
  BY <1>4, <1>7
<1>8. ASSUME NEW q, NEW respawn, DeadPeer(q, respawn) PROVE TakeoverBound'
  BY <1>4, <1>8 DEF DeadPeer
<1>9. ASSUME NEW q \in Peers, NEW graft, NEW prune, NEW interval, NEW reply,
             HandleControl(q, graft, prune, interval, reply)
      PROVE  TakeoverBound'
  <2>1. ASSUME NEW t \in Topics PROVE Cardinality(mesh'[t] \ outbound') <= DialledUsBound
    <3>1. CASE mesh'[t] \subseteq mesh[t]
      BY <1>2, <3>1
    <3>2. CASE ~ (mesh'[t] \subseteq mesh[t])
      <4>1. mesh'[t] = mesh[t] \cup {q} /\ t \in GraftKnown(q, graft) \ GraftRefused(q, graft)
        BY <1>9, <3>2 DEF HandleControl
      <4>2. Cardinality(mesh[t]) \in Nat /\ IsFiniteSet(mesh[t])
        BY <1>0, FinitePeers
      <4>3. Cardinality(mesh[t]) < Dhi \/ q \in outbound
        BY <4>1, <4>2, MeshNumbers DEF GraftRefused
      <4>4. CASE q \in outbound
        <5> DEFINE A == mesh[t] \ outbound
        <5>1. A \in SUBSET Peers /\ mesh'[t] \ outbound \subseteq A
          BY <1>0, <4>1, <4>4
        <5>2. Cardinality(A) <= DialledUsBound
          BY DEF TakeoverBound
        <5> HIDE DEF A
        <5> QED BY <1>1, <5>1, <5>2
      <4>5. CASE Cardinality(mesh[t]) < Dhi
        <5> DEFINE A == mesh[t] \cup {q}
        <5>1. Cardinality(A) = IF q \in mesh[t] THEN Cardinality(mesh[t]) ELSE Cardinality(mesh[t]) + 1
          BY <4>2, FS_AddElement
        <5>2. A \in SUBSET Peers /\ mesh'[t] \ outbound \subseteq A
          BY <1>0, <4>1
        <5> HIDE DEF A
        <5>3. Cardinality(A) <= Dhi
          BY <4>2, <4>5, <5>1, MeshNumbers
        <5>4. Cardinality(A) \in Nat
          BY <5>2, FinitePeers
        <5>5. Cardinality(A) <= DialledUsBound
          BY <5>3, <5>4, BoundNumbers, MeshNumbers
        <5> QED BY <1>1, <5>2, <5>5
      <4> QED BY <4>3, <4>4, <4>5
    <3> QED BY <3>1, <3>2
  <2> QED BY <1>3, <2>1 DEF TakeoverBound
<1>10. CASE Heartbeat
  <2> DEFINE tick  == (ticks + 1) % TickPeriod
             b     == ClearBackoff(tick)
             turn  == tick % OpportunisticGraftTicks = 0
             Bk(t) == {p \in Peers : b[t][p] # Absent}
             mo    == [t \in joined |-> MeshOutcomes(t, Bk(t), turn)]
  <2>1. PICK o \in [joined -> UNION {mo[t] : t \in joined}] :
          /\ \A t \in joined : o[t] \in mo[t]
          /\ mesh' = [t \in Topics |-> IF t \in joined THEN o[t].mesh ELSE {}]
    BY <1>10 DEF Heartbeat
  <2>2. \A t \in joined : o[t] \in MeshOutcomes(t, Bk(t), turn)
    BY <2>1
  <2> HIDE DEF Bk, turn, b
  <2>3. ASSUME NEW t \in Topics PROVE Cardinality(mesh'[t] \ outbound') <= DialledUsBound
    <3>1. CASE t \in joined
      <4>1. mesh'[t] = o[t].mesh
        BY <2>1, <3>1
      <4> DEFINE A == o[t].mesh \ outbound
      <4>2. o[t].mesh \in SUBSET Peers /\ Cardinality(A) <= DialledUsBound
        BY <2>2, <3>1, MeshOutcomesBound
      <4>3. A \in SUBSET Peers /\ mesh'[t] \ outbound \subseteq A
        BY <4>1, <4>2
      <4> HIDE DEF A
      <4> QED BY <1>1, <4>2, <4>3
    <3>2. CASE t \notin joined
      <4>1. mesh'[t] \subseteq mesh[t]
        BY <2>1, <3>2
      <4> QED BY <1>2, <4>1
    <3> QED BY <3>1, <3>2
  <2> QED BY <1>3, <2>3 DEF TakeoverBound
<1>11. LocalNext => TakeoverBound'
  <2>1. ASSUME NEW u, NEW local, NEW skip, Publish(u, local, skip) \/ Preprocess(u, skip)
        PROVE  UNCHANGED mesh
    BY <2>1 DEF Publish, Preprocess, meshVars
  <2>2. ASSUME NEW q, AddDirectPeer(q) \/ RemoveDirectPeer(q) \/ WriteRPC(q)
        PROVE  UNCHANGED mesh
    BY <2>2 DEF AddDirectPeer, RemoveDirectPeer, WriteRPC, meshVars
  <2> QED BY <1>5, <1>6, <1>7, <2>1, <2>2 DEF LocalNext
<1>12. RemoteNext => TakeoverBound'
  <2>1. ASSUME NEW q, NEW u, NEW sub, HandleSubscription(q, u, sub) PROVE UNCHANGED mesh
    BY <2>1 DEF HandleSubscription, meshVars
  <2>2. ASSUME NEW q, NEW sc, ScoreChange(q, sc) PROVE UNCHANGED mesh
    BY <2>2 DEF ScoreChange, meshVars
  <2> QED BY <1>7, <1>9, <2>1, <2>2 DEF RemoteNext
<1>13. StreamNext => TakeoverBound'
  <2>1. ASSUME NEW q, NEW dialled,
               \/ NewPeer(q) \/ NewOutboundStream(q, dialled) \/ NewPeerError(q)
               \/ NewIncomingStream(q) \/ ClosedIncomingStream(q)
        PROVE  UNCHANGED mesh
    BY <2>1 DEF NewPeer, NewOutboundStream, NewPeerError, NewIncomingStream,
                ClosedIncomingStream, meshVars
  <2> QED BY <1>7, <1>8, <2>1 DEF StreamNext
<1>14. CASE Tick \/ UNCHANGED vars
  BY <1>7, <1>14 DEF Tick, meshVars, vars
<1> QED BY <1>10, <1>11, <1>12, <1>13, <1>14 DEF Next

Bounded == FanoutBound /\ TakeoverBound

LEMMA BoundedInit == Init => Bounded
<1> SUFFICES ASSUME Init PROVE Bounded
  OBVIOUS
<1>1. \A t \in Topics : fanout[t] = {} /\ mesh[t] \ outbound = {}
  BY DEF Init
<1>2. Cardinality({}) = 0 /\ 0 <= D /\ 0 <= DialledUsBound
  BY FS_EmptySet, MeshNumbers, BoundNumbers
<1>3. FanoutBound
  BY <1>1, <1>2 DEF FanoutBound
<1>4. TakeoverBound
  BY <1>1, <1>2 DEF TakeoverBound
<1> QED BY <1>3, <1>4 DEF Bounded

LEMMA BoundedStep ==
    ASSUME D > 0, OpportunisticGraftPeers > 0,
           TypeOK, TypeOK', FanoutExclusive, Bounded, [Next]_vars,
           [\A t \in Topics : mesh'[t] \cap outbound \subseteq outbound']_vars
    PROVE  Bounded'
<1>1. \A t \in Topics : mesh'[t] \cap outbound \subseteq outbound'
  BY DEF vars
<1>2. FanoutBound'
  BY FanoutBoundStep DEF Bounded
<1>3. TakeoverBound'
  BY <1>1, TakeoverStep DEF Bounded
<1> QED BY <1>2, <1>3 DEF Bounded

\* handleGraft, Join and the heartbeat leave peers that dialled us no more places in a
\* mesh than DialledUsBound, with D and OpportunisticGraftPeers positive (getPeers takes
\* a count of zero for no limit) and as long as the peers of a mesh keep their direction.
THEOREM TakeoverSafe ==
    D > 0 /\ OpportunisticGraftPeers > 0 => (Spec /\ SteadyDirection => []TakeoverBound)
<1> SUFFICES ASSUME D > 0, OpportunisticGraftPeers > 0
             PROVE  Spec /\ SteadyDirection => []TakeoverBound
  OBVIOUS
<1>1. ASSUME TypeOK, TypeOK', FanoutExclusive, Bounded, [Next]_vars,
             [\A t \in Topics : mesh'[t] \cap outbound \subseteq outbound']_vars
      PROVE  Bounded'
  BY <1>1, BoundedStep
<1>2. Bounded => TakeoverBound
  BY DEF Bounded
<1> QED BY <1>1, <1>2, BoundedInit, FanoutInvariant, PTL DEF Spec, SteadyDirection

-----------------------------------------------------------------------------
(* PRUNEs that wait for retry.                                             *)

Mentions(c, t) == t \in c.graft \cup c.prune
Word(c, t) == IF t \in c.prune THEN "prune" ELSE "graft"

\* The last of the RPCs that say something of t
IsLastMention(s, t, i) == Mentions(s[i], t) /\ \A j \in 1 .. Len(s) : Mentions(s[j], t) => j <= i

LEMMA LastMention ==
    ASSUME NEW s \in Seq(Ctl), NEW t, NEW k \in 1 .. Len(s), Mentions(s[k], t)
    PROVE  \E i \in 1 .. Len(s) : IsLastMention(s, t, i)
<1> DEFINE n == Len(s)
           T == {m \in Nat : m < n /\ Mentions(s[n - m], t)}
<1>0. n \in Nat /\ k \in 1 .. n
  OBVIOUS
<1>1. n - k \in T
  <2>1. n - (n - k) = k /\ n - k \in Nat /\ n - k < n
    BY <1>0
  <2> QED BY <2>1
<1>2. PICK m \in T : \A y \in T : ~ (y < m)
  <2>1. T \in SUBSET Nat /\ T # {}
    BY <1>1
  <2> HIDE DEF T
  <2> QED BY <2>1, LeastNat
<1>3. PICK i \in 1 .. n : i = n - m
  BY <1>0, <1>2
<1>4. ASSUME NEW j \in 1 .. n, Mentions(s[j], t) PROVE j <= i
  <2>1. n - (n - j) = j /\ n - j \in Nat /\ n - j < n
    BY <1>0
  <2>2. n - j \in T
    BY <1>4, <2>1
  <2>3. ~ (n - j < m)
    <3> HIDE DEF T
    <3> QED BY <1>2, <2>2
  <2> QED BY <1>0, <1>2, <1>3, <2>3
<1>5. Mentions(s[i], t)
  BY <1>2, <1>3
<1> QED BY <1>4, <1>5 DEF IsLastMention

LEMMA WordAt ==
    ASSUME NEW s \in Seq(Ctl), NEW t, NEW w, NEW i \in 1 .. Len(s), IsLastMention(s, t, i)
    PROVE  LastWord(s, t, w) = Word(s[i], t)
<1> DEFINE I == {j \in DOMAIN s : t \in s[j].graft \cup s[j].prune}
<1>1. i \in I /\ I \subseteq Nat /\ \A j \in I : i >= j
  BY DEF IsLastMention, Mentions
<1>2. LastWord(s, t, w) = IF I = {} THEN w ELSE IF t \in s[Max(I)].prune THEN "prune" ELSE "graft"
  BY DEF LastWord
<1> HIDE DEF I
<1>3. Max(I) = i
  <2>1. Max(I) \in I /\ \A j \in I : Max(I) >= j
    BY <1>1 DEF Max
  <2>2. Max(I) \in Nat /\ i \in Nat /\ Max(I) >= i /\ i >= Max(I)
    BY <1>1, <2>1
  <2> QED BY <2>2
<1> QED BY <1>1, <1>2, <1>3 DEF Word

LEMMA WordNone ==
    ASSUME NEW s \in Seq(Ctl), NEW t, NEW w, \A j \in 1 .. Len(s) : ~ Mentions(s[j], t)
    PROVE  LastWord(s, t, w) = w
<1> DEFINE I == {j \in DOMAIN s : t \in s[j].graft \cup s[j].prune}
<1>1. I = {}
  BY DEF Mentions
<1>2. LastWord(s, t, w) = IF I = {} THEN w ELSE IF t \in s[Max(I)].prune THEN "prune" ELSE "graft"
  BY DEF LastWord
<1> HIDE DEF I
<1> QED BY <1>1, <1>2

\* First what u says, then what v says
LEMMA WordJoin ==
    ASSUME NEW u \in Seq(Ctl), NEW v \in Seq(Ctl), NEW t, NEW w
    PROVE  LastWord(u \o v, t, w) = LastWord(v, t, LastWord(u, t, w))
<1>1. PICK x \in Seq(Ctl) : x = u \o v
  <2>1. u \o v \in Seq(Ctl)
    BY ConcatProperties
  <2> QED BY <2>1
<1>2. /\ Len(x) = Len(u) + Len(v) /\ Len(u) \in Nat /\ Len(v) \in Nat
      /\ \A i \in 1 .. Len(u) : x[i] = u[i]
      /\ \A k \in 1 .. Len(v) : x[Len(u) + k] = v[k]
  BY <1>1
<1>3. ASSUME NEW j \in 1 .. Len(x), ~ (j <= Len(u))
      PROVE  \E k \in 1 .. Len(v) : j = Len(u) + k /\ x[j] = v[k]
  <2>1. PICK k \in 1 .. Len(v) : j = Len(u) + k
    <3>1. j - Len(u) \in 1 .. Len(v) /\ j = Len(u) + (j - Len(u))
      BY <1>2, <1>3
    <3> QED BY <3>1
  <2> QED BY <1>2, <2>1
<1>4. CASE \E k \in 1 .. Len(v) : Mentions(v[k], t)
  <2>1. PICK k \in 1 .. Len(v) : IsLastMention(v, t, k)
    BY <1>4, LastMention
  <2>2. PICK i \in 1 .. Len(x) : i = Len(u) + k
    BY <1>2
  <2>3. x[i] = v[k]
    BY <1>2, <2>2
  <2>4. ASSUME NEW j \in 1 .. Len(x), Mentions(x[j], t) PROVE j <= i
    <3>1. CASE j <= Len(u)
      BY <1>2, <2>2, <3>1
    <3>2. CASE ~ (j <= Len(u))
      <4>1. PICK h \in 1 .. Len(v) : j = Len(u) + h /\ x[j] = v[h]
        BY <1>3, <3>2
      <4>2. h <= k
        BY <2>1, <2>4, <4>1 DEF IsLastMention
      <4> QED BY <1>2, <2>2, <4>1, <4>2
    <3> QED BY <3>1, <3>2
  <2>5. IsLastMention(x, t, i)
    BY <2>1, <2>3, <2>4 DEF IsLastMention
  <2>6. LastWord(x, t, w) = Word(v[k], t)
    BY <2>3, <2>5, WordAt
  <2>7. LastWord(v, t, LastWord(u, t, w)) = Word(v[k], t)
    BY <2>1, WordAt
  <2> QED BY <1>1, <2>6, <2>7
<1>5. CASE ~ (\E k \in 1 .. Len(v) : Mentions(v[k], t)) /\ \E i \in 1 .. Len(u) : Mentions(u[i], t)
  <2>1. PICK i \in 1 .. Len(u) : IsLastMention(u, t, i)
    BY <1>5, LastMention
  <2>2. i \in 1 .. Len(x) /\ x[i] = u[i]
    BY <1>2
  <2>3. ASSUME NEW j \in 1 .. Len(x), Mentions(x[j], t) PROVE j <= i
    <3>1. j <= Len(u)
      BY <1>3, <1>5, <2>3
    <3>2. j \in 1 .. Len(u) /\ x[j] = u[j]
      BY <1>2, <3>1
    <3> QED BY <2>1, <2>3, <3>2 DEF IsLastMention
  <2>5. IsLastMention(x, t, i)
    BY <2>1, <2>2, <2>3 DEF IsLastMention
  <2>6. LastWord(x, t, w) = Word(u[i], t) /\ LastWord(u, t, w) = Word(u[i], t)
    BY <2>1, <2>2, <2>5, WordAt
  <2>7. LastWord(v, t, LastWord(u, t, w)) = LastWord(u, t, w)
    BY <1>5, WordNone
  <2> QED BY <1>1, <2>6, <2>7
<1>6. CASE ~ (\E k \in 1 .. Len(v) : Mentions(v[k], t)) /\ ~ (\E i \in 1 .. Len(u) : Mentions(u[i], t))
  <2>1. ASSUME NEW j \in 1 .. Len(x) PROVE ~ Mentions(x[j], t)
    <3>1. CASE j <= Len(u)
      BY <1>2, <1>6, <3>1
    <3>2. CASE ~ (j <= Len(u))
      BY <1>3, <1>6, <3>2
    <3> QED BY <3>1, <3>2
  <2>2. LastWord(x, t, w) = w
    BY <2>1, WordNone
  <2>3. LastWord(u, t, w) = w
    BY <1>6, WordNone
  <2>4. LastWord(v, t, w) = w
    BY <1>6, WordNone
  <2> QED BY <1>1, <2>2, <2>3, <2>4
<1> QED BY <1>4, <1>5, <1>6

LEMMA WordOfOne ==
    ASSUME NEW c \in Ctl, NEW t, NEW w
    PROVE  LastWord(<<c>>, t, w) = IF Mentions(c, t) THEN Word(c, t) ELSE w
<1>1. PICK s \in Seq(Ctl) : s = <<c>>
  <2>1. <<c>> \in Seq(Ctl)
    OBVIOUS
  <2> QED BY <2>1
<1>2. Len(s) = 1 /\ s[1] = c
  BY <1>1
<1>3. CASE Mentions(c, t)
  <2>1. IsLastMention(s, t, 1) /\ 1 \in 1 .. Len(s)
    BY <1>2, <1>3 DEF IsLastMention
  <2>2. LastWord(s, t, w) = Word(s[1], t)
    BY <2>1, WordAt
  <2> QED BY <1>1, <1>2, <1>3, <2>2
<1>4. CASE ~ Mentions(c, t)
  <2>1. LastWord(s, t, w) = w
    BY <1>2, <1>4, WordNone
  <2> QED BY <1>1, <1>4, <2>1
<1> QED BY <1>3, <1>4

LEMMA SubSeqSplits ==
    ASSUME NEW S, NEW s \in Seq(S), NEW k \in 0 .. Len(s)
    PROVE  /\ SubSeq(s, 1, k) \in Seq(S) /\ SubSeq(s, k + 1, Len(s)) \in Seq(S)
           /\ s = SubSeq(s, 1, k) \o SubSeq(s, k + 1, Len(s))
<1>1. PICK a \in Seq(S) : a = SubSeq(s, 1, k) /\ Len(a) = k /\ \A i \in 1 .. k : a[i] = s[i]
  <2>1. /\ SubSeq(s, 1, k) \in Seq(S) /\ Len(SubSeq(s, 1, k)) = k
        /\ \A i \in 1 .. k : SubSeq(s, 1, k)[i] = s[i]
    OBVIOUS
  <2> QED BY <2>1
<1>2. PICK b \in Seq(S) : /\ b = SubSeq(s, k + 1, Len(s)) /\ Len(b) = Len(s) - k
                          /\ \A i \in 1 .. Len(s) - k : b[i] = s[k + i]
  <2>1. /\ SubSeq(s, k + 1, Len(s)) \in Seq(S) /\ Len(SubSeq(s, k + 1, Len(s))) = Len(s) - k
        /\ \A i \in 1 .. Len(s) - k : SubSeq(s, k + 1, Len(s))[i] = s[k + i]
    OBVIOUS
  <2> QED BY <2>1
<1>3. Len(s) = Len(a) + Len(b) /\ \A i \in 1 .. Len(a) : s[i] = a[i]
  <2>1. Len(s) \in Nat /\ Len(a) = k /\ Len(b) = Len(s) - k
    BY <1>1, <1>2
  <2>2. Len(s) = Len(a) + Len(b)
    BY <2>1
  <2> QED BY <1>1, <2>2
<1>4. \A h \in 1 .. Len(b) : s[Len(a) + h] = b[h]
  BY <1>1, <1>2
<1>5. s = a \o b
  BY <1>3, <1>4, JoinIs
<1> QED BY <1>1, <1>2, <1>5

\* The writer changes nothing of the last word: what it takes from the queue is told.
LEMMA WrittenTold ==
    ASSUME NEW lk \in Link, NEW k \in Nat, NEW t \in Topics
    PROVE  LastTold(Written(lk, k), t) = LastTold(lk, t) /\ Written(lk, k).control = lk.control
<1> DEFINE np == Smaller(k, Len(lk.priority))
           nn == Smaller(k - np, Len(lk.normal))
           a1 == SubSeq(lk.priority, 1, np)
           a2 == SubSeq(lk.priority, np + 1, Len(lk.priority))
           b1 == SubSeq(lk.normal, 1, nn)
           b2 == SubSeq(lk.normal, nn + 1, Len(lk.normal))
           T  == [u \in Topics |-> LastWord(a1 \o b1, u, lk.told[u])]
           w  == lk.told[t]
<1>1. lk.normal \in Seq(Ctl) /\ lk.priority \in Seq(Ctl)
  BY DEF Link
<1>2. np \in 0 .. Len(lk.priority) /\ nn \in 0 .. Len(lk.normal) /\ (np = Len(lk.priority) \/ nn = 0)
  BY <1>1 DEF Smaller
<1>3. Written(lk, k) = [normal |-> b2, priority |-> a2, control |-> lk.control, told |-> T]
  BY DEF Written
<1>4. T[t] = LastWord(a1 \o b1, t, w)
  OBVIOUS
<1> HIDE DEF np, nn
<1>5. a1 \in Seq(Ctl) /\ a2 \in Seq(Ctl) /\ lk.priority = a1 \o a2
  BY <1>1, <1>2, SubSeqSplits
<1>6. b1 \in Seq(Ctl) /\ b2 \in Seq(Ctl) /\ lk.normal = b1 \o b2
  BY <1>1, <1>2, SubSeqSplits
<1>7. a2 = <<>> \/ b1 = <<>>
  <2>1. np = Len(lk.priority) => a2 = <<>>
    BY <1>1, <1>2
  <2>2. nn = 0 => b1 = <<>>
    BY <1>1, <1>2
  <2> QED BY <1>2, <2>1, <2>2
<1> HIDE DEF a1, a2, b1, b2, T, w
<1>8. LastTold(Written(lk, k), t) = LastWord(a2 \o b2, t, LastWord(a1 \o b1, t, w))
  <2>1. PICK x : x = Written(lk, k)
    OBVIOUS
  <2>2. x.priority = a2 /\ x.normal = b2 /\ x.told = T
    BY <1>3, <2>1
  <2> QED BY <1>4, <2>1, <2>2 DEF LastTold
<1>9. LastTold(lk, t) = LastWord(lk.priority \o lk.normal, t, w)
  BY DEF LastTold, w
<1>10. LastWord(lk.priority \o lk.normal, t, w)
         = LastWord(b2, t, LastWord(b1, t, LastWord(a2, t, LastWord(a1, t, w))))
  <2>1. LastWord(lk.priority \o lk.normal, t, w) = LastWord(lk.normal, t, LastWord(lk.priority, t, w))
    BY <1>1, WordJoin
  <2>2. LastWord(lk.priority, t, w) = LastWord(a2, t, LastWord(a1, t, w))
    BY <1>5, WordJoin
  <2>3. \A v : LastWord(lk.normal, t, v) = LastWord(b2, t, LastWord(b1, t, v))
    BY <1>6, WordJoin
  <2> QED BY <2>1, <2>2, <2>3
<1>11. LastWord(a2 \o b2, t, LastWord(a1 \o b1, t, w))
         = LastWord(b2, t, LastWord(a2, t, LastWord(b1, t, LastWord(a1, t, w))))
  BY <1>5, <1>6, WordJoin
<1>12. \A v : LastWord(<<>>, t, v) = v
  <2> DEFINE e == <<>>
  <2>1. e \in Seq(Ctl) /\ Len(e) = 0
    OBVIOUS
  <2> HIDE DEF e
  <2>2. \A j \in 1 .. Len(e) : ~ Mentions(e[j], t)
    BY <2>1
  <2>3. ASSUME NEW v PROVE LastWord(e, t, v) = v
    BY <2>1, <2>2, WordNone
  <2> QED BY <2>3 DEF e
<1>13. Written(lk, k).control = lk.control
  BY <1>3
<1> QED BY <1>7, <1>8, <1>9, <1>10, <1>11, <1>12, <1>13

\* An RPC at the end of the queue has the last word, if it says anything.
LEMMA AppendTold ==
    ASSUME NEW lk \in Link, NEW c \in Ctl, NEW t, NEW x, x = [lk EXCEPT !.normal = Append(@, c)]
    PROVE  /\ LastTold(x, t) = IF Mentions(c, t) THEN Word(c, t) ELSE LastTold(lk, t)
           /\ x.control = lk.control
<1>1. PICK a \in Seq(Ctl), b \in Seq(Ctl) : a = lk.priority /\ b = lk.normal
  BY DEF Link
<1>2. x.priority = a /\ x.normal = Append(b, c) /\ x.told = lk.told /\ x.control = lk.control
  BY <1>1 DEF Link
<1>3. a \o Append(b, c) = (a \o b) \o <<c>> /\ a \o b \in Seq(Ctl) /\ <<c>> \in Seq(Ctl)
  OBVIOUS
<1>4. LastTold(x, t) = LastWord((a \o b) \o <<c>>, t, lk.told[t])
  BY <1>2, <1>3 DEF LastTold
<1>5. LastTold(lk, t) = LastWord(a \o b, t, lk.told[t])
  BY <1>1 DEF LastTold
<1>6. LastWord((a \o b) \o <<c>>, t, lk.told[t]) = LastWord(<<c>>, t, LastTold(lk, t))
  <2>1. PICK u \in Seq(Ctl), v \in Seq(Ctl) : u = a \o b /\ v = <<c>>
    BY <1>3
  <2>2. LastWord(u \o v, t, lk.told[t]) = LastWord(v, t, LastWord(u, t, lk.told[t]))
    BY WordJoin
  <2> QED BY <1>5, <2>1, <2>2
<1> QED BY <1>2, <1>4, <1>6, WordOfOne

OneTopic == \A t, u \in Topics : t = u

\* p will hear that t is pruned, or has heard it.
PruneDue(lk, t) ==
    t \in lk.control.prune \/ (t \notin lk.control.graft /\ LastTold(lk, t) = "prune")

LEMMA OnlyOf ==
    ASSUME OneTopic, NEW t \in Topics, NEW c \in Ctl, c # NoCtl
    PROVE  Mentions(c, t)
<1>1. c.graft # {} \/ c.prune # {}
  BY DEF Ctl, NoCtl
<1>2. c.graft \subseteq Topics /\ c.prune \subseteq Topics
  BY DEF Ctl
<1> QED BY <1>1, <1>2 DEF OneTopic, Mentions

LEMMA DrainedTold ==
    ASSUME NEW p, NEW lk \in LinkOK, NEW t \in Topics, NEW l \in Drained(p, lk)
    PROVE  l \in LinkOK /\ LastTold(l, t) = LastTold(lk, t) /\ l.control = lk.control
<1>1. lk \in Link /\ Backlog(lk) \in Nat
  BY DEF LinkOK, Link, Backlog
<1>2. PICK k \in 0 .. (IF p \in peers THEN Backlog(lk) ELSE 0) : l = Written(lk, k)
  BY DEF Drained
<1>3. k \in Nat
  BY <1>1, <1>2
<1>4. l \in LinkOK
  BY DrainedSound
<1> QED BY <1>1, <1>2, <1>3, <1>4, WrittenTold

\* A PRUNE of t that is sent is queued or waits for retry.  An RPC without control
\* changes nothing.
LEMMA DoSendDue ==
    ASSUME NEW p, NEW lk \in LinkOK, NEW t \in Topics, NEW c \in Ctl, NEW x \in DoSendRPC(p, lk, c, FALSE),
           \/ c = NoCtl /\ PruneDue(lk, t)
           \/ t \in c.prune /\ (PruneDue(lk, t) \/ t \notin lk.control.graft)
    PROVE  PruneDue(x, t)
<1>1. PICK l \in Drained(p, lk) :
        x = IF Backlog(l) = QueueSize THEN PushControl(l, c) ELSE [l EXCEPT !.normal = Append(@, c)]
  BY DEF DoSendRPC
<1>2. l \in LinkOK /\ LastTold(l, t) = LastTold(lk, t) /\ l.control = lk.control
  BY DrainedTold
<1>3. l \in Link
  BY <1>2 DEF LinkOK
<1>4. CASE Backlog(l) = QueueSize /\ c = NoCtl
  <2>1. x = l /\ PruneDue(lk, t)
    BY <1>1, <1>4 DEF PushControl, NoCtl
  <2> QED BY <1>2, <2>1 DEF PruneDue
<1>5. CASE Backlog(l) = QueueSize /\ c # NoCtl
  <2>1. x = [l EXCEPT !.control = c] /\ t \in c.prune
    BY <1>1, <1>5 DEF PushControl
  <2>2. x.control = c
    BY <1>3, <2>1 DEF Link
  <2> QED BY <2>1, <2>2 DEF PruneDue
<1>6. CASE Backlog(l) # QueueSize
  <2>1. x = [l EXCEPT !.normal = Append(@, c)]
    BY <1>1, <1>6
  <2>2. /\ LastTold(x, t) = IF Mentions(c, t) THEN Word(c, t) ELSE LastTold(l, t)
        /\ x.control = l.control
    BY <1>3, <2>1, AppendTold
  <2>3. CASE c = NoCtl
    <3>1. ~ Mentions(c, t) /\ PruneDue(lk, t)
      BY <2>3 DEF Mentions, NoCtl
    <3> QED BY <1>2, <2>2, <3>1 DEF PruneDue
  <2>4. CASE t \in c.prune
    <3>1. LastTold(x, t) = "prune"
      BY <2>2, <2>4 DEF Mentions, Word
    <3> QED BY <1>2, <2>2, <2>4, <3>1 DEF PruneDue, NoCtl
  <2> QED BY <2>3, <2>4
<1> QED BY <1>4, <1>5, <1>6

\* sendRPC does not lose it either: what was pending goes first.
LEMMA SendDue ==
    ASSUME OneTopic, NEW p \in hasQueue, NEW lk \in LinkOK, NEW t \in Topics, NEW out \in Ctl,
           out = NoCtl \/ t \in out.prune, NEW gossip, NEW m, p \notin m[t], PruneDue(lk, t),
           NEW x \in SendRPC(p, lk, out, gossip, FALSE, m)
    PROVE  PruneDue(x, t)
<1> DEFINE c   == Fresh(p, lk.control, m)
           lk0 == [lk EXCEPT !.control = NoCtl]
           lks == IF c # NoCtl \/ gossip THEN DoSendRPC(p, lk0, c, FALSE) ELSE {lk0}
<1>0. NoCtl \in Ctl /\ t \notin NoCtl.graft /\ t \notin NoCtl.prune
  BY DEF NoCtl, Ctl
<1>1. c \in Ctl /\ (t \in c.prune <=> t \in lk.control.prune) /\ t \notin c.graft
  BY DEF LinkOK, Link, Ctl, Fresh
<1>2. /\ lk0 \in LinkOK /\ lk0.control = NoCtl
      /\ lk0.priority = lk.priority /\ lk0.normal = lk.normal /\ lk0.told = lk.told
  BY <1>0 DEF LinkOK, Link, Backlog
<1>3. LastTold(lk0, t) = LastTold(lk, t)
  BY <1>2 DEF LastTold
<1>4. PICK l \in lks : x \in DoSendRPC(p, l, out, FALSE)
  BY DEF SendRPC
<1> HIDE DEF c, lk0
<1>5. lks \subseteq LinkOK
  BY <1>1, <1>2, DoSendRPCSound
<1>6. PruneDue(l, t)
  <2>1. CASE t \in lk.control.prune
    <3>1. t \in c.prune /\ c # NoCtl
      BY <1>0, <1>1, <2>1
    <3>2. l \in DoSendRPC(p, lk0, c, FALSE) /\ t \notin lk0.control.graft
      BY <1>0, <1>2, <1>4, <3>1
    <3> QED BY <1>1, <1>2, <3>1, <3>2, DoSendDue
  <2>2. CASE t \notin lk.control.prune
    <3>1. c = NoCtl
      <4>1. ~ Mentions(c, t)
        BY <1>1, <2>2 DEF Mentions
      <4> QED BY <1>1, <4>1, OnlyOf
    <3>2. PruneDue(lk0, t)
      BY <1>0, <1>2, <1>3, <2>2 DEF PruneDue
    <3>3. l = lk0 \/ l \in DoSendRPC(p, lk0, c, FALSE)
      BY <1>4
    <3> QED BY <1>1, <1>2, <3>1, <3>2, <3>3, DoSendDue
  <2> QED BY <2>1, <2>2
<1>7. l \in LinkOK
  BY <1>4, <1>5
<1> HIDE DEF lks
<1> QED BY <1>4, <1>6, <1>7, DoSendDue

LEMMA AnnounceKeeps ==
    ASSUME NEW p, NEW lk \in LinkOK, NEW x \in Announce(p, lk), NEW t \in Topics
    PROVE  x \in LinkOK /\ x.control = lk.control
<1>0. x \in LinkOK
  BY AnnounceSound
<1>1. CASE p \notin hasQueue
  BY <1>0, <1>1 DEF Announce
<1>2. CASE p \in hasQueue
  <2>1. PICK l \in Drained(p, lk) :
          x = IF Backlog(l) = QueueSize THEN l ELSE [l EXCEPT !.normal = Append(@, NoCtl)]
    BY <1>2 DEF Announce
  <2>2. l \in LinkOK /\ l.control = lk.control
    BY DrainedTold
  <2>3. x.control = l.control
    BY <2>1, <2>2 DEF LinkOK, Link
  <2> QED BY <1>0, <2>2, <2>3
<1> QED BY <1>1, <1>2

\* sendGraftPrune and flush, which sends what is pending as it is.
LEMMA HeartbeatDue ==
    ASSUME OneTopic, NEW p \in LaggingPeers, p \in hasQueue, link[p] \in LinkOK, NEW t \in Topics,
           t \in link[p].control.prune, NEW out \in Ctl, out = NoCtl \/ t \in out.prune,
           NEW gossip, NEW m, p \notin m[t], NEW x \in HeartbeatLinks(p, out, gossip, m)
    PROVE  PruneDue(x, t)
<1> DEFINE sent  == IF out # NoCtl THEN SendRPC(p, link[p], out, gossip, FALSE, m) ELSE {link[p]}
           flush == IF out = NoCtl /\ gossip
                    THEN UNION {SendRPC(p, l, NoCtl, FALSE, FALSE, m) : l \in sent} ELSE sent
           Last(l) == IF l.control = NoCtl THEN {l}
                      ELSE SendRPC(p, [l EXCEPT !.control = NoCtl], l.control, FALSE, FALSE, m)
<1>0. NoCtl \in Ctl /\ t \notin NoCtl.graft /\ t \notin NoCtl.prune
  BY DEF NoCtl, Ctl
<1>1. PruneDue(link[p], t)
  BY DEF PruneDue
<1>2. \A l \in sent : l \in LinkOK /\ PruneDue(l, t)
  BY <1>1, SendDue, SendRPCSound
<1>3. \A l \in flush : l \in LinkOK /\ PruneDue(l, t)
  <2> HIDE DEF sent
  <2>1. ASSUME NEW l \in sent, NEW y \in SendRPC(p, l, NoCtl, FALSE, FALSE, m)
        PROVE  y \in LinkOK /\ PruneDue(y, t)
    BY <1>0, <1>2, <2>1, SendDue, SendRPCSound
  <2> QED BY <1>2, <2>1
<1>4. PICK l \in flush : x \in Last(l)
  <2>1. x \in UNION {Last(l) : l \in flush}
    BY DEF HeartbeatLinks
  <2> HIDE DEF Last, flush
  <2> QED BY <2>1
<1>5. l \in LinkOK /\ PruneDue(l, t)
  BY <1>3, <1>4
<1> HIDE DEF flush, sent
<1>6. CASE l.control = NoCtl
  BY <1>4, <1>5, <1>6
<1>7. CASE l.control # NoCtl
  <2>1. PICK c \in Ctl : c = l.control
    BY <1>5 DEF LinkOK, Link
  <2>2. t \in c.prune
    <3>1. Mentions(c, t)
      BY <1>7, <2>1, OnlyOf
    <3> QED BY <1>5, <2>1, <3>1 DEF Mentions, PruneDue
  <2>3. PICK l0 \in LinkOK : l0 = [l EXCEPT !.control = NoCtl] /\ l0.control = NoCtl
    <3>1. [l EXCEPT !.control = NoCtl] \in LinkOK
      BY <1>0, <1>5 DEF LinkOK, Link, Backlog
    <3>2. [l EXCEPT !.control = NoCtl].control = NoCtl
      BY <1>5 DEF LinkOK, Link
    <3> QED BY <3>1, <3>2
  <2>4. x \in SendRPC(p, l0, c, FALSE, FALSE, m)
    BY <1>4, <1>7, <2>1, <2>3
  <2>5. Fresh(p, l0.control, m) = NoCtl
    <3>1. NoCtl.graft = {} /\ NoCtl.prune = {}
      BY DEF NoCtl
    <3>2. Fresh(p, NoCtl, m) = [graft |-> {}, prune |-> {}]
      BY <3>1 DEF Fresh
    <3> QED BY <2>3, <3>2 DEF NoCtl
  <2>6. [l0 EXCEPT !.control = NoCtl] = l0
    BY <2>3 DEF LinkOK, Link
  <2>7. x \in DoSendRPC(p, l0, c, FALSE)
    BY <2>4, <2>5, <2>6 DEF SendRPC
  <2> QED BY <1>0, <2>2, <2>3, <2>7, DoSendDue
<1> QED BY <1>6, <1>7

\* A peer that is grafted and is not in the mesh in the end is pruned too.
LEMMA GraftedOrPruned ==
    ASSUME NEW t, NEW backed, NEW turn, NEW o \in MeshOutcomes(t, backed, turn)
    PROVE  o.graft \subseteq o.mesh \cup o.prune
<1>1. PICK g1, k, g2, g3 : Chosen(t, backed, turn, o, g1, k, g2, g3)
  BY MeshOutcomesParts
<1>2. PICK m0, neg : o = [mesh |-> k \cup g2 \cup g3, graft |-> g1 \cup g2 \cup g3,
                         prune |-> neg \cup ((m0 \cup g1) \ k)]
  BY <1>1 DEF Chosen
<1> QED BY <1>2

LEMMA ChoiceOf ==
    ASSUME NEW outcomes, NEW f \in LinkChoices(outcomes), NEW p \in LaggingPeers
    PROVE  f[p] \in outcomes[p]
BY DEF LinkChoices

LEMMA HeartbeatPruneKept ==
    ASSUME OneTopic, TypeOK, Heartbeat, NEW p \in LaggingPeers, NEW t \in Topics,
           t \in link[p].control.prune, p \notin mesh'[t], p \in hasQueue
    PROVE  PruneDue(link'[p], t)
<1> DEFINE tick  == (ticks + 1) % TickPeriod
           b     == ClearBackoff(tick)
           turn  == tick % OpportunisticGraftTicks = 0
           Bk(u) == {q \in Peers : b[u][q] # Absent}
           mo    == [u \in joined |-> MeshOutcomes(u, Bk(u), turn)]
           alive == {u \in Topics : lastpub[u] <= FanoutTTL}
           fts   == fanoutTopics \cap alive
<1>0. StateOK /\ LinksOK
  BY TypeSplit
<1>1. PICK o \in [joined -> UNION {mo[u] : u \in joined}] :
        /\ \A u \in joined : o[u] \in mo[u]
        /\ mesh' = [u \in Topics |-> IF u \in joined THEN o[u].mesh ELSE {}]
        /\ \E gossip \in SUBSET (GossipTargets(mesh', fts, fanout') \cap LaggingPeers) :
             link' \in LinkChoices([q \in LaggingPeers |->
               HeartbeatLinks(q, [graft |-> {u \in joined : q \in o[u].graft},
                                  prune |-> {u \in joined : q \in o[u].prune}],
                              q \in gossip, mesh')])
  BY DEF Heartbeat
<1>2. t \in joined => o[t].graft \subseteq o[t].mesh \cup o[t].prune
  <2> SUFFICES ASSUME t \in joined PROVE o[t].graft \subseteq o[t].mesh \cup o[t].prune
    OBVIOUS
  <2>1. o[t] \in MeshOutcomes(t, Bk(t), turn)
    BY <1>1
  <2> HIDE DEF Bk, turn
  <2> QED BY <2>1, GraftedOrPruned
<1>3. t \in joined => mesh'[t] = o[t].mesh
  BY <1>1
<1> DEFINE out == [graft |-> {u \in joined : p \in o[u].graft},
                   prune |-> {u \in joined : p \in o[u].prune}]
<1>4. out \in Ctl
  BY <1>0 DEF Ctl, StateOK
<1>5. out = NoCtl \/ t \in out.prune
  <2> SUFFICES ASSUME out # NoCtl PROVE t \in out.prune
    OBVIOUS
  <2>1. Mentions(out, t)
    <3> HIDE DEF out
    <3> QED BY <1>4, OnlyOf
  <2>2. t \in joined /\ (p \in o[t].graft \/ p \in o[t].prune)
    BY <2>1 DEF Mentions
  <2>3. p \in o[t].prune
    BY <1>2, <1>3, <2>2
  <2> QED BY <2>2, <2>3
<1>6. PICK gossip : link' \in LinkChoices([q \in LaggingPeers |->
               HeartbeatLinks(q, [graft |-> {u \in joined : q \in o[u].graft},
                                  prune |-> {u \in joined : q \in o[u].prune}],
                              q \in gossip, mesh')])
  BY <1>1
<1>7. link'[p] \in HeartbeatLinks(p, out, p \in gossip, mesh')
  <2> DEFINE all == [q \in LaggingPeers |->
               HeartbeatLinks(q, [graft |-> {u \in joined : q \in o[u].graft},
                                  prune |-> {u \in joined : q \in o[u].prune}],
                              q \in gossip, mesh')]
  <2>1. all[p] = HeartbeatLinks(p, out, p \in gossip, mesh')
    OBVIOUS
  <2>2. link' \in LinkChoices(all)
    BY <1>6
  <2> HIDE DEF all
  <2>3. link'[p] \in all[p]
    BY <2>2, ChoiceOf
  <2> QED BY <2>1, <2>3
<1>8. link[p] \in LinkOK
  BY <1>0 DEF LinksOK
<1> HIDE DEF out
<1> QED BY <1>4, <1>5, <1>7, <1>8, HeartbeatDue

LEMMA PruneKeptStep ==
    ASSUME OneTopic, TypeOK, [Next]_vars, NEW p \in LaggingPeers, NEW t \in Topics,
           t \in link[p].control.prune, p \notin mesh'[t],
           p \in hasQueue \cap hasQueue', p \in peers \cap peers'
    PROVE  PruneDue(link'[p], t)
<1> DEFINE Good == PruneDue(link'[p], t)
<1>0. link[p] \in LinkOK /\ PruneDue(link[p], t) /\ link \in [LaggingPeers -> LinkOK]
  BY TypeSplit DEF LinksOK, PruneDue
<1>C. NoCtl \in Ctl /\ Prune({t}) \in Ctl /\ t \in Prune({t}).prune
  BY DEF NoCtl, Prune, Ctl
<1>1. CASE link' = link
  BY <1>0, <1>1
<1>2. ASSUME NEW out \in Ctl, out = NoCtl \/ t \in out.prune, NEW x \in LinkOK, x.control = link[p].control,
             link'[p] \in SendRPC(p, x, out, FALSE, FALSE, mesh')
      PROVE  Good
  <2>1. PruneDue(x, t)
    BY <1>2 DEF PruneDue
  <2>2. p \in hasQueue
    OBVIOUS
  <2> QED BY <1>2, <2>1, <2>2, SendDue
<1>3. ASSUME link'[p] \in Announce(p, link[p]) PROVE Good
  <2>1. link'[p].control = link[p].control
    BY <1>0, <1>3, AnnounceKeeps
  <2> QED BY <2>1 DEF PruneDue
<1>4. ASSUME NEW u \in Topics, JoinTopic(u) PROVE Good
  <2> DEFINE out == [q \in LaggingPeers |->
                       IF q \notin mesh'[u] THEN Announce(q, link[q])
                       ELSE UNION {SendRPC(q, l, Graft({u}), FALSE, FALSE, mesh') :
                                     l \in Announce(q, link[q])}]
  <2>1. link' \in LinkChoices(out)
    BY <1>4 DEF JoinTopic
  <2>2. p \notin mesh'[u]
    BY DEF OneTopic
  <2>3. out[p] = Announce(p, link[p])
    BY <2>2
  <2> HIDE DEF out
  <2>4. link'[p] \in out[p]
    BY <2>1, ChoiceOf
  <2> QED BY <1>3, <2>3, <2>4
<1>5. ASSUME NEW u \in Topics, LeaveTopic(u) PROVE Good
  <2> DEFINE Sent(q) == UNION {SendRPC(q, l, Prune({u}), FALSE, FALSE, mesh') :
                                 l \in Announce(q, link[q])}
             out == [q \in LaggingPeers |->
                       IF q \notin mesh[u] THEN Announce(q, link[q]) ELSE Sent(q)]
  <2>1. link' \in LinkChoices(out)
    BY <1>5 DEF LeaveTopic
  <2>2. u = t
    BY DEF OneTopic
  <2>3. out[p] = Announce(p, link[p]) \/ out[p] = Sent(p)
    OBVIOUS
  <2> HIDE DEF out
  <2>4. link'[p] \in Announce(p, link[p]) \/ link'[p] \in Sent(p)
    BY <2>1, <2>3, ChoiceOf
  <2>5. CASE link'[p] \in Sent(p)
    <3>1. PICK l \in Announce(p, link[p]) : link'[p] \in SendRPC(p, l, Prune({t}), FALSE, FALSE, mesh')
      BY <2>2, <2>5
    <3>2. l \in LinkOK /\ l.control = link[p].control
      BY <1>0, AnnounceKeeps
    <3> QED BY <1>2, <1>C, <3>1, <3>2
  <2> QED BY <1>3, <2>4, <2>5
<1>6. ASSUME NEW u \in Topics, NEW local, NEW skip, Publish(u, local, skip) PROVE Good
  <2>1. PICK gmap : link' \in LinkChoices([q \in LaggingPeers |->
                IF q \in ToSend(u, local, gmap) \ skip
                THEN SendRPC(q, link[q], NoCtl, FALSE, FALSE, mesh) ELSE {link[q]}])
    BY <1>6 DEF Publish
  <2> DEFINE out == [q \in LaggingPeers |->
                IF q \in ToSend(u, local, gmap) \ skip
                THEN SendRPC(q, link[q], NoCtl, FALSE, FALSE, mesh) ELSE {link[q]}]
  <2>2. out[p] = SendRPC(p, link[p], NoCtl, FALSE, FALSE, mesh) \/ out[p] = {link[p]}
    OBVIOUS
  <2>3. link' \in LinkChoices(out) /\ mesh' = mesh
    BY <1>6, <2>1 DEF Publish, meshVars
  <2> HIDE DEF out
  <2>4. link'[p] \in out[p]
    BY <2>3, ChoiceOf
  <2>5. CASE link'[p] = link[p]
    BY <1>0, <2>5
  <2>6. CASE link'[p] \in SendRPC(p, link[p], NoCtl, FALSE, FALSE, mesh')
    BY <1>0, <1>2, <1>C, <2>6
  <2> QED BY <2>2, <2>3, <2>4, <2>5, <2>6
<1>7. ASSUME NEW u \in Topics, NEW skip, Preprocess(u, skip) PROVE Good
  <2> DEFINE out == [q \in LaggingPeers |->
                IF q \in (mesh[u] \cap MeshPeers) \ skip
                THEN SendRPC(q, link[q], NoCtl, FALSE, TRUE, mesh) ELSE {link[q]}]
  <2>1. link' \in LinkChoices(out) /\ mesh' = mesh
    BY <1>7 DEF Preprocess, meshVars
  <2>2. p \notin mesh[u]
    BY <2>1 DEF OneTopic
  <2>3. out[p] = {link[p]}
    BY <2>2
  <2> HIDE DEF out
  <2>4. link'[p] \in out[p]
    BY <2>1, ChoiceOf
  <2> QED BY <1>0, <2>3, <2>4
<1>8. ASSUME NEW q \in LaggingPeers, WriteRPC(q) PROVE Good
  <2>1. CASE q = p
    <3>1. link'[p] = Written(link[p], 1) /\ link[p] \in Link
      BY <1>0, <1>8, <2>1 DEF WriteRPC, LinkOK
    <3>2. Written(link[p], 1).control = link[p].control
      BY <3>1, WrittenTold
    <3> QED BY <3>1, <3>2 DEF PruneDue
  <2>2. CASE q # p
    BY <1>0, <1>8, <2>2 DEF WriteRPC
  <2> QED BY <2>1, <2>2
<1>9. ASSUME NEW q \in Peers, NEW graft \in SUBSET Topics, NEW prune, NEW interval, NEW reply,
             HandleControl(q, graft, prune, interval, reply)
      PROVE  Good
  <2> DEFINE refused == GraftRefused(q, graft)
             out == [r \in LaggingPeers |->
                       IF r = q /\ (refused # {} \/ reply)
                       THEN SendRPC(q, link[q], Prune(refused), FALSE, FALSE, mesh')
                       ELSE {link[r]}]
  <2>1. link' \in LinkChoices(out)
    BY <1>9 DEF HandleControl
  <2>2. \/ out[p] = SendRPC(p, link[p], Prune(refused), FALSE, FALSE, mesh') /\ q = p
        \/ out[p] = {link[p]}
    OBVIOUS
  <2>3. refused \subseteq Topics
    BY DEF GraftRefused, GraftKnown
  <2>4. Prune(refused) \in Ctl /\ (Prune(refused) = NoCtl \/ t \in Prune(refused).prune)
    <3> HIDE DEF refused
    <3>1. refused = {} \/ t \in refused
      BY <2>3 DEF OneTopic
    <3> QED BY <2>3, <3>1 DEF Prune, Ctl, NoCtl
  <2> HIDE DEF out, refused
  <2>5. link'[p] \in out[p]
    BY <2>1, ChoiceOf
  <2>6. CASE link'[p] = link[p]
    BY <1>0, <2>6
  <2>7. CASE link'[p] \in SendRPC(p, link[p], Prune(refused), FALSE, FALSE, mesh')
    BY <1>0, <1>2, <2>4, <2>7
  <2> QED BY <2>2, <2>5, <2>6, <2>7
<1>10. CASE Heartbeat
  BY <1>10, HeartbeatPruneKept
<1>11. LocalNext => Good
  <2>1. ASSUME NEW q, AddDirectPeer(q) \/ RemoveDirectPeer(q) PROVE link' = link
    BY <2>1 DEF AddDirectPeer, RemoveDirectPeer
  <2> QED BY <1>1, <1>4, <1>5, <1>6, <1>7, <1>8, <2>1 DEF LocalNext
<1>12. RemoteNext => Good
  <2>1. ASSUME NEW q, NEW u, NEW sub, HandleSubscription(q, u, sub) PROVE link' = link
    BY <2>1 DEF HandleSubscription
  <2>2. ASSUME NEW q, NEW sc, ScoreChange(q, sc) PROVE link' = link
    BY <2>2 DEF ScoreChange
  <2> QED BY <1>1, <1>9, <2>1, <2>2 DEF RemoteNext
<1>13. StreamNext => Good
  <2>1. ASSUME NEW q, NEW dialled,
               NewPeer(q) \/ NewOutboundStream(q, dialled) \/ NewIncomingStream(q) \/ ClosedIncomingStream(q)
        PROVE  link' = link
    BY <2>1 DEF NewPeer, NewOutboundStream, NewIncomingStream, ClosedIncomingStream
  <2>2. ASSUME NEW q \in Peers, NewPeerError(q) PROVE link'[p] = link[p]
    <3>1. q # p
      BY <2>2 DEF NewPeerError
    <3> QED BY <1>0, <2>2, <3>1 DEF NewPeerError, WithLink
  <2>3. ASSUME NEW q \in Peers, NEW respawn, DeadPeer(q, respawn) PROVE link'[p] = link[p]
    <3>1. q # p
      BY <2>3 DEF DeadPeer
    <3> QED BY <1>0, <2>3, <3>1 DEF DeadPeer, WithLink
  <2>4. CASE link'[p] = link[p]
    BY <1>0, <2>4
  <2> QED BY <1>1, <2>1, <2>2, <2>3, <2>4, SetAssumption DEF StreamNext
<1>14. CASE Tick
  BY <1>1, <1>14 DEF Tick
<1>15. CASE UNCHANGED vars
  BY <1>1, <1>15 DEF vars
<1> QED BY <1>10, <1>11, <1>12, <1>13, <1>14, <1>15 DEF Next

\* With a single topic, a PRUNE that was dropped at a full queue and waits in gs.control is
\* not lost by sendRPC, piggybackControl, sendGraftPrune or flush, whatever else is sent
\* and however long the queues are: unless the peer returns to the mesh or goes away, it
\* keeps waiting or is the last word queued.  With two topics it can be lost, because
\* pushControl replaces what waits for the other one.
THEOREM PruneSafe == (\A t, u \in Topics : t = u) => (Spec => PendingPruneKept)
<1> SUFFICES ASSUME OneTopic PROVE Spec => PendingPruneKept
  BY DEF OneTopic
<1>1. TypeOK /\ [Next]_vars
        => [\A p \in LaggingPeers, t \in Topics :
              (/\ t \in link[p].control.prune
               /\ p \notin mesh'[t]
               /\ p \in hasQueue \cap hasQueue' /\ p \in peers \cap peers')
              => t \in link'[p].control.prune \/ LastTold(link'[p], t) = "prune"]_vars
  BY PruneKeptStep DEF PruneDue
<1> QED BY <1>1, TypeCorrect, PTL DEF Spec, PendingPruneKept

=============================================================================
