---------------------------- MODULE Gossip_proofs ----------------------------
(***************************************************************************)
(* Proofs about Gossip, for any peers and messages, either strategy of the *)
(* time cache and any limits, window and times that GossipAssumption       *)
(* allows.                                                                 *)
(***************************************************************************)
EXTENDS Gossip, FiniteSetTheorems, TLAPS

\* The IHAVE that processLoop is about to answer came from a peer.
Asked == ask = NoAsk \/ (ask.peer \in Peers /\ ask.ids \subseteq Msgs)

LEMMA LimitsAreNat ==
    /\ SeenTTL \in Nat \ {0} /\ HistoryLength \in Nat \ {0}
    /\ IDontWantMessageTTL \in Nat \ {0} /\ IWantFollowupTime \in Nat \ {0}
    /\ MaxIDontWantMessages \in Nat \ {0} /\ MaxIDontWantLength \in Nat \ {0}
    /\ HistoryLength <= SeenTTL
    /\ IsFiniteSet(Msgs)
BY GossipAssumption

LEMMA AskedInit == GossipInit => Asked
BY DEF GossipInit, Asked

LEMMA AskedStep == Asked /\ [GossipNext]_gossipVars => Asked'
<1> SUFFICES ASSUME Asked, [GossipNext]_gossipVars PROVE Asked'
  OBVIOUS
<1>1. CASE UNCHANGED ask
  BY <1>1 DEF Asked
<1>2. CASE ask' = NoAsk
  BY <1>2 DEF Asked, NoAsk
<1>3. ASSUME NEW p \in Peers, NEW ids \in SUBSET Msgs, HandleIHave(p, ids)
      PROVE  Asked'
  <2> DEFINE want == {m \in ids : seen[m] = 0}
  <2>1. ask' = NoAsk \/ ask' = [peer |-> p, ids |-> want]
    BY <1>3 DEF HandleIHave
  <2>2. want \subseteq Msgs
    OBVIOUS
  <2> HIDE DEF want
  <2>3. CASE ask' = [peer |-> p, ids |-> want]
    <3>1. ask'.peer = p /\ ask'.ids = want
      BY <2>3
    <3> QED BY <3>1, <2>2 DEF Asked
  <2> QED BY <2>1, <2>3, <1>2
<1>4. UNCHANGED ask \/ ask' = NoAsk
         \/ \E p \in Peers : \E ids \in SUBSET Msgs : HandleIHave(p, ids)
  BY DEF GossipNext, gossipVars, MarkSeen, SeenAgain, BeginValidation, RejectMessage, RejectUnseen,
         PublishMessage, HandleIDontWant, HandleIWant, ThrottlePeer, ClosedOutboundStream,
         SendIWant, GossipHeartbeat, SweepSeen, SweepDelivered
<1> QED BY <1>1, <1>2, <1>3, <1>4

-----------------------------------------------------------------------------
(* Promises.                                                               *)

\* The shape of the two indexes of the tracer.
Indexes ==
    /\ promises \in [Msgs -> [Peers -> Nat]]
    /\ peerPromises \in [Peers -> SUBSET Msgs]

PInv == Indexes /\ PromisesIndexed

LEMMA PInit == GossipInit => PInv
BY DEF GossipInit, PInv, Indexes, PromisesIndexed

\* A step that leaves the tracer alone.
LEMMA PStutter == PInv /\ UNCHANGED tracer => PInv'
BY DEF PInv, Indexes, PromisesIndexed, tracer

\* fulfillPromise clears a message in both indexes.
LEMMA FulfillKeeps == ASSUME PInv, NEW m \in Msgs, FulfillPromise(m) PROVE PInv'
<1>1. Indexes'
  BY DEF PInv, Indexes, FulfillPromise
<1>2. ASSUME NEW p \in Peers PROVE peerPromises'[p] = {x \in Msgs : promises'[x][p] > 0}
  <2>1. peerPromises'[p] = peerPromises[p] \ {m}
    BY DEF FulfillPromise
  <2>2. \A x \in Msgs : promises'[x][p] = IF x = m THEN 0 ELSE promises[x][p]
    BY DEF FulfillPromise, PInv, Indexes
  <2>3. peerPromises[p] = {x \in Msgs : promises[x][p] > 0}
    BY DEF PInv, PromisesIndexed
  <2> QED BY <2>1, <2>2, <2>3
<1> QED BY <1>1, <1>2 DEF PInv, PromisesIndexed

\* AddPromise adds one to both.
LEMMA AddKeeps == ASSUME PInv, NEW p \in Peers, NEW m \in Msgs, AddPromise(p, m) PROVE PInv'
<1>1. CASE promises[m][p] # 0
  BY <1>1, PStutter DEF AddPromise, tracer
<1>2. CASE promises[m][p] = 0
  <2>1. promises' = [promises EXCEPT ![m][p] = IWantFollowupTime + 1]
        /\ peerPromises' = [peerPromises EXCEPT ![p] = @ \cup {m}]
    BY <1>2 DEF AddPromise
  <2>2. Indexes'
    BY <2>1, LimitsAreNat DEF PInv, Indexes
  <2>3. ASSUME NEW q \in Peers
        PROVE  peerPromises'[q] = {x \in Msgs : promises'[x][q] > 0}
    <3>1. peerPromises'[q] = IF q = p THEN peerPromises[q] \cup {m} ELSE peerPromises[q]
      BY <2>1 DEF PInv, Indexes
    <3>2. \A x \in Msgs : promises'[x][q] =
             IF x = m /\ q = p THEN IWantFollowupTime + 1 ELSE promises[x][q]
      BY <2>1 DEF PInv, Indexes
    <3>3. peerPromises[q] = {x \in Msgs : promises[x][q] > 0}
      BY DEF PInv, PromisesIndexed
    <3> QED BY <3>1, <3>2, <3>3, LimitsAreNat
  <2> QED BY <2>2, <2>3 DEF PInv, PromisesIndexed
<1> QED BY <1>1, <1>2

\* ThrottlePeer voids those of one peer.
LEMMA ThrottleKeeps == ASSUME PInv, NEW p \in Peers, ThrottlePeer(p) PROVE PInv'
<1>1. Indexes'
  BY DEF ThrottlePeer, PInv, Indexes
<1>2. ASSUME NEW q \in Peers PROVE peerPromises'[q] = {x \in Msgs : promises'[x][q] > 0}
  <2>1. peerPromises'[q] = IF q = p THEN {} ELSE peerPromises[q]
    BY DEF ThrottlePeer, PInv, Indexes
  <2>2. \A x \in Msgs : promises'[x][q] =
           IF q = p /\ x \in peerPromises[p] THEN 0 ELSE promises[x][q]
    BY DEF ThrottlePeer, PInv, Indexes
  <2>3. peerPromises[q] = {x \in Msgs : promises[x][q] > 0}
    BY DEF PInv, PromisesIndexed
  <2> QED BY <2>1, <2>2, <2>3
<1> QED BY <1>1, <1>2 DEF PInv, PromisesIndexed

\* The heartbeat settles the broken ones and the others grow older.
LEMMA HeartbeatKeepsPromises == ASSUME PInv, GossipHeartbeat PROVE PInv'
<1>0. ASSUME NEW p \in Peers, NEW m \in Msgs PROVE <<p, m>> \in Broken <=> promises[m][p] = 1
  <2>1. <<p, m>> \in Peers \X Msgs /\ <<p, m>>[1] = p /\ <<p, m>>[2] = m
    OBVIOUS
  <2> QED BY <2>1 DEF Broken
<1>1. ASSUME NEW m \in Msgs, NEW p \in Peers
      PROVE  promises'[m][p] = IF promises[m][p] > 1 THEN promises[m][p] - 1 ELSE 0
  <2>1. promises'[m][p] = IF <<p, m>> \in Broken THEN 0
                          ELSE IF promises[m][p] > 1 THEN promises[m][p] - 1 ELSE promises[m][p]
    BY DEF GossipHeartbeat
  <2>2. promises[m][p] \in Nat
    BY DEF PInv, Indexes
  <2>3. <<p, m>> \in Broken <=> promises[m][p] = 1
    BY <1>0
  <2> QED BY <2>1, <2>2, <2>3
<1>2. \A p \in Peers : peerPromises'[p] = {m \in peerPromises[p] : promises[m][p] # 1}
  BY <1>0 DEF GossipHeartbeat, PInv, Indexes
<1>3. promises' \in [Msgs -> [Peers -> Nat]]
  <2> DEFINE f(m, p) == IF <<p, m>> \in Broken THEN 0
                        ELSE IF promises[m][p] > 1 THEN promises[m][p] - 1 ELSE promises[m][p]
  <2>1. promises' = [m \in Msgs |-> [p \in Peers |-> f(m, p)]]
    BY DEF GossipHeartbeat
  <2>2. \A m \in Msgs, p \in Peers : f(m, p) \in Nat
    BY DEF PInv, Indexes
  <2> HIDE DEF f
  <2> QED BY <2>1, <2>2
<1>4. peerPromises' \in [Peers -> SUBSET Msgs]
  <2>1. \A p \in Peers : {m \in peerPromises[p] : <<p, m>> \notin Broken} \in SUBSET Msgs
    BY DEF PInv, Indexes
  <2> QED BY <2>1 DEF GossipHeartbeat
<1>5. ASSUME NEW q \in Peers PROVE peerPromises'[q] = {x \in Msgs : promises'[x][q] > 0}
  <2>1. peerPromises[q] = {x \in Msgs : promises[x][q] > 0}
    BY DEF PInv, PromisesIndexed
  <2>2. \A x \in Msgs : promises[x][q] \in Nat
    BY DEF PInv, Indexes
  <2> QED BY <1>1, <1>2, <2>1, <2>2
<1> QED BY <1>3, <1>4, <1>5 DEF PInv, PromisesIndexed, Indexes

LEMMA PStep == Asked /\ PInv /\ [GossipNext]_gossipVars => PInv'
<1> SUFFICES ASSUME Asked, PInv, [GossipNext]_gossipVars PROVE PInv'
  OBVIOUS
<1>1. ASSUME NEW m \in Msgs, FulfillPromise(m) PROVE PInv'
  BY <1>1, FulfillKeeps
<1>2. ASSUME SendIWant PROVE PInv'
  <2>1. PICK m \in ask.ids : AddPromise(ask.peer, m)
    BY <1>2 DEF SendIWant, kSubset
  <2>2. ask.peer \in Peers /\ m \in Msgs
    BY <1>2 DEF SendIWant, Ready, Asked
  <2> QED BY <2>1, <2>2, AddKeeps
<1>3. \/ UNCHANGED tracer \/ (\E m \in Msgs : FulfillPromise(m)) \/ SendIWant
      \/ (\E p \in Peers : ThrottlePeer(p)) \/ GossipHeartbeat
  BY DEF GossipNext, gossipVars, tracer, MarkSeen, SeenAgain, BeginValidation, RejectMessage, RejectUnseen,
         PublishMessage, HandleIHave, HandleIDontWant, HandleIWant, ClosedOutboundStream,
         SweepSeen, SweepDelivered
<1> QED BY <1>1, <1>2, <1>3, PStutter, ThrottleKeeps, HeartbeatKeepsPromises

\* gossip_tracer.go keeps the index by message and the index by peer in step.
THEOREM PromisesIndexedHolds == GossipSpec => []PromisesIndexed
<1>1. GossipInit => Asked /\ PInv
  BY AskedInit, PInit
<1>2. Asked /\ PInv /\ [GossipNext]_gossipVars => Asked' /\ PInv'
  BY AskedStep, PStep
<1>3. PInv => PromisesIndexed
  BY DEF PInv
<1> QED BY <1>1, <1>2, <1>3, PTL DEF GossipSpec
-----------------------------------------------------------------------------
(* The message cache.                                                      *)

\* The shape of the cache, its window and the delivered cache.
Window ==
    /\ delivered \in [Msgs -> 0 .. SeenTTL + 1]
    /\ history \in [1 .. HistoryLength -> SUBSET Msgs]

\* A message that has been in the window for i heartbeats is still remembered as delivered,
\* for SeenTTL - i more at least, and so is not put into the cache a second time.
Remembered ==
    \A i \in 1 .. HistoryLength : \A m \in history[i] : delivered[m] + i >= SeenTTL + 2

\* The messages of two slots are different, and dropping the last slot drops no other.
Apart ==
    \A i, j \in 1 .. HistoryLength : \A m \in history[i] : m \in history[j] => i = j

\* WindowServed, message by message.
Kept == \A m : m \in cached <=> \E i \in 1 .. HistoryLength : m \in history[i]

WInv == Window /\ Remembered /\ Apart /\ Kept

LEMMA WInit == GossipInit => WInv
BY LimitsAreNat DEF GossipInit, WInv, Window, Remembered, Apart, Kept

\* Steps in which a delivered message is only remembered for longer.
LEMMA WLonger ==
    ASSUME WInv, UNCHANGED <<cached, history>>, delivered' \in [Msgs -> 0 .. SeenTTL + 1],
           \A m \in Msgs : delivered'[m] >= delivered[m]
    PROVE  WInv'
<1>1. Window' /\ Apart' /\ Kept'
  BY DEF WInv, Window, Apart, Kept
<1>2. ASSUME NEW i \in 1 .. HistoryLength, NEW m \in history'[i]
      PROVE  delivered'[m] + i >= SeenTTL + 2
  <2>1. m \in Msgs /\ m \in history[i]
    BY DEF WInv, Window
  <2>2. delivered[m] + i >= SeenTTL + 2 /\ delivered'[m] >= delivered[m]
    BY <2>1 DEF WInv, Remembered
  <2> QED BY <2>1, <2>2, LimitsAreNat DEF WInv, Window
<1> QED BY <1>1, <1>2 DEF WInv, Remembered

\* The sweep forgets no message of the window: HistoryLength <= SeenTTL.
LEMMA SweepKeepsWindow == ASSUME WInv, SweepDelivered PROVE WInv'
<1>1. delivered' = [m \in Msgs |-> IF delivered[m] = 1 THEN 0 ELSE delivered[m]]
      /\ UNCHANGED <<cached, history>>
  BY DEF SweepDelivered, Swept, mcache
<1>2. Window' /\ Apart' /\ Kept'
  BY <1>1, LimitsAreNat DEF WInv, Window, Apart, Kept
<1>3. ASSUME NEW i \in 1 .. HistoryLength, NEW m \in history'[i]
      PROVE  delivered'[m] + i >= SeenTTL + 2
  <2>1. m \in Msgs /\ m \in history[i]
    BY <1>1 DEF WInv, Window
  <2>2. delivered[m] + i >= SeenTTL + 2 /\ delivered[m] \in Nat
    BY <2>1 DEF WInv, Remembered, Window
  <2>3. delivered[m] # 1
    BY <2>2, LimitsAreNat
  <2> QED BY <1>1, <2>1, <2>2, <2>3
<1> QED BY <1>2, <1>3 DEF WInv, Remembered

\* Put of a message that is not remembered as delivered, and so is in no slot.
LEMMA PutKeepsWindow ==
    ASSUME WInv, NEW m \in Msgs, delivered[m] = 0, Put(m),
           delivered' = [delivered EXCEPT ![m] = SeenTTL + 1]
    PROVE  WInv'
<1>1. \A i \in 1 .. HistoryLength : m \notin history[i]
  BY LimitsAreNat DEF WInv, Remembered, Window
<1>2. 1 \in 1 .. HistoryLength
  BY LimitsAreNat
<1>3. \A i \in 1 .. HistoryLength :
         history'[i] = IF i = 1 THEN history[i] \cup {m} ELSE history[i]
  BY <1>2 DEF Put, WInv, Window
<1>4. Window'
  BY <1>2, LimitsAreNat DEF Put, WInv, Window
<1>5. Apart'
  <2> SUFFICES ASSUME NEW i \in 1 .. HistoryLength, NEW j \in 1 .. HistoryLength,
                      NEW x \in history'[i], x \in history'[j]
               PROVE  i = j
    BY DEF Apart
  <2>1. x # m => x \in history[i] /\ x \in history[j]
    BY <1>3
  <2>2. x = m => i = 1 /\ j = 1
    BY <1>1, <1>3
  <2> QED BY <2>1, <2>2 DEF WInv, Apart
<1>6. Kept'
  BY <1>2, <1>3 DEF WInv, Kept, Put
<1>7. ASSUME NEW i \in 1 .. HistoryLength, NEW x \in history'[i]
      PROVE  delivered'[x] + i >= SeenTTL + 2
  <2>1. CASE x = m
    <3>1. i = 1
      BY <1>1, <1>3, <2>1
    <3>2. delivered'[x] = SeenTTL + 1
      BY <2>1 DEF WInv, Window
    <3> QED BY <3>1, <3>2, LimitsAreNat
  <2>2. CASE x # m
    <3>1. x \in history[i] /\ x \in Msgs
      BY <2>2, <1>3 DEF WInv, Window
    <3> QED BY <3>1, <2>2 DEF WInv, Remembered, Window
  <2> QED BY <2>1, <2>2
<1> QED BY <1>4, <1>5, <1>6, <1>7 DEF WInv, Remembered

\* The heartbeat moves the window and ages the delivered cache together.
LEMMA HeartbeatKeepsWindow == ASSUME WInv, GossipHeartbeat PROVE WInv'
<1>1. /\ history' = [i \in 1 .. HistoryLength |-> IF i = 1 THEN {} ELSE history[i - 1]]
      /\ cached' = cached \ history[HistoryLength]
      /\ delivered' = [m \in Msgs |-> IF delivered[m] > 1 THEN delivered[m] - 1
                                      ELSE delivered[m]]
  BY DEF GossipHeartbeat, Shift, Aged
<1>2. ASSUME NEW i \in 1 .. HistoryLength
      PROVE  /\ history'[i] = IF i = 1 THEN {} ELSE history[i - 1]
             /\ i # 1 => i - 1 \in 1 .. HistoryLength
             /\ i # HistoryLength => i + 1 \in 1 .. HistoryLength /\ i + 1 # 1
                                     /\ (i + 1) - 1 = i
  BY <1>1, LimitsAreNat
<1>3. Window'
  <2>1. delivered' \in [Msgs -> 0 .. SeenTTL + 1]
    BY <1>1, LimitsAreNat DEF WInv, Window
  <2>2. \A i \in 1 .. HistoryLength : history'[i] \in SUBSET Msgs
    BY <1>2 DEF WInv, Window
  <2> QED BY <1>1, <2>1, <2>2 DEF Window
<1>4. ASSUME NEW i \in 1 .. HistoryLength, NEW m \in history'[i]
      PROVE  /\ i # 1 /\ i - 1 \in 1 .. HistoryLength /\ m \in history[i - 1]
             /\ m \in Msgs
  BY <1>2 DEF WInv, Window
<1>5. Apart'
  <2> SUFFICES ASSUME NEW i \in 1 .. HistoryLength, NEW j \in 1 .. HistoryLength,
                      NEW m \in history'[i], m \in history'[j]
               PROVE  i = j
    BY DEF Apart
  <2>1. m \in history[i - 1] /\ m \in history[j - 1]
        /\ i - 1 \in 1 .. HistoryLength /\ j - 1 \in 1 .. HistoryLength
    BY <1>4
  <2>2. i - 1 = j - 1
    BY <2>1 DEF WInv, Apart
  <2> QED BY <2>2
<1>6. Remembered'
  <2> SUFFICES ASSUME NEW i \in 1 .. HistoryLength, NEW m \in history'[i]
               PROVE  delivered'[m] + i >= SeenTTL + 2
    BY DEF Remembered
  <2>1. delivered[m] + (i - 1) >= SeenTTL + 2 /\ delivered[m] \in Nat /\ m \in Msgs
    BY <1>4 DEF WInv, Remembered, Window
  <2>2. delivered'[m] >= delivered[m] - 1 /\ delivered'[m] \in Nat
    BY <2>1, <1>1
  <2> QED BY <2>1, <2>2, LimitsAreNat
<1>7. ASSUME NEW m PROVE m \in cached' <=> \E i \in 1 .. HistoryLength : m \in history'[i]
  <2>1. ASSUME m \in cached' PROVE \E i \in 1 .. HistoryLength : m \in history'[i]
    <3>1. PICK i \in 1 .. HistoryLength : m \in history[i]
      BY <2>1, <1>1 DEF WInv, Kept
    <3>2. i # HistoryLength
      BY <3>1, <2>1, <1>1
    <3> QED BY <3>1, <3>2, <1>2
  <2>2. ASSUME NEW i \in 1 .. HistoryLength, m \in history'[i] PROVE m \in cached'
    <3>1. m \in history[i - 1] /\ i - 1 \in 1 .. HistoryLength /\ i - 1 # HistoryLength
      BY <1>4, <2>2, LimitsAreNat
    <3>2. m \notin history[HistoryLength]
      BY <3>1, LimitsAreNat DEF WInv, Apart
    <3> QED BY <3>1, <3>2, <1>1 DEF WInv, Kept
  <2> QED BY <2>1, <2>2
<1> QED BY <1>3, <1>5, <1>6, <1>7 DEF WInv, Kept

\* publishMessage puts a message into the cache unless it was delivered before.
LEMMA PublishKeepsWindow == ASSUME WInv, NEW m \in Msgs, PublishMessage(m) PROVE WInv'
<1>1. CASE delivered[m] = 0
  <2>1. Put(m)
    BY <1>1 DEF PublishMessage
  <2>2. delivered' = [delivered EXCEPT ![m] = SeenTTL + 1]
    BY <1>1 DEF PublishMessage, Added
  <2> QED BY <1>1, <2>1, <2>2, PutKeepsWindow
<1>2. CASE delivered[m] # 0
  <2>1. UNCHANGED <<cached, history>>
    BY <1>2 DEF PublishMessage, mcache, WInv, Window
  <2>2. delivered' \in [Msgs -> 0 .. SeenTTL + 1]
    BY LimitsAreNat DEF PublishMessage, Added, WInv, Window
  <2>3. \A x \in Msgs : delivered'[x] >= delivered[x]
    BY LimitsAreNat DEF PublishMessage, Added, WInv, Window
  <2> QED BY <2>1, <2>2, <2>3, WLonger
<1> QED BY <1>1, <1>2

LEMMA WStep == WInv /\ [GossipNext]_gossipVars => WInv'
<1> SUFFICES ASSUME WInv, [GossipNext]_gossipVars PROVE WInv'
  OBVIOUS
<1>1. CASE UNCHANGED <<delivered, cached, history>>
  BY <1>1, WLonger DEF WInv, Window
<1>2. \/ UNCHANGED <<delivered, cached, history>> \/ (\E m \in Msgs : PublishMessage(m))
      \/ GossipHeartbeat \/ SweepDelivered
  BY DEF GossipNext, gossipVars, caches, mcache, MarkSeen, SeenAgain, BeginValidation,
         RejectMessage, RejectUnseen, HandleIHave, HandleIDontWant, HandleIWant, ThrottlePeer,
         ClosedOutboundStream, SendIWant, SweepSeen
<1> QED BY <1>1, <1>2, PublishKeepsWindow, HeartbeatKeepsWindow, SweepKeepsWindow

\* mcache.go keeps exactly the messages of its window: what GetGossipIDs advertises can be
\* sent, and what Shift drops is not kept anywhere.
THEOREM WindowServedHolds == GossipSpec => []WindowServed
<1>1. GossipInit => WInv
  BY WInit
<1>2. WInv /\ [GossipNext]_gossipVars => WInv'
  BY WStep
<1>3. WInv => WindowServed
  <2> SUFFICES ASSUME WInv PROVE cached = UNION {history[i] : i \in 1 .. HistoryLength}
    BY DEF WindowServed
  <2> QED BY DEF WInv, Kept
<1> QED BY <1>1, <1>2, <1>3, PTL DEF GossipSpec
-----------------------------------------------------------------------------
(* The messages that a peer does not want.                                 *)

\* The messages that p did not want within the last IDontWantMessageTTL - k heartbeats.
NotWanted(p, k) == {m \in Msgs : unwanted[p][m] >= k}

\* What p may have sent since then: full heartbeats and the current one.
Allowed(p, k) ==
    MaxIDontWantMessages * MaxIDontWantLength * (IDontWantMessageTTL - k)
        + peerdontwant[p] * MaxIDontWantLength

DontWants ==
    /\ unwanted \in [Peers -> [Msgs -> 0 .. IDontWantMessageTTL]]
    /\ peerdontwant \in [Peers -> 0 .. MaxIDontWantMessages]

Metered ==
    \A p \in Peers : \A k \in 1 .. IDontWantMessageTTL :
        Cardinality(NotWanted(p, k)) <= Allowed(p, k)

UInv == DontWants /\ Metered

LEMMA NotWantedFinite ==
    ASSUME NEW p, NEW k
    PROVE  /\ IsFiniteSet(NotWanted(p, k)) /\ Cardinality(NotWanted(p, k)) \in Nat
           /\ IsFiniteSet(NotWanted(p, k)') /\ Cardinality(NotWanted(p, k)') \in Nat
<1>1. NotWanted(p, k) \in SUBSET Msgs /\ NotWanted(p, k)' \in SUBSET Msgs
  BY DEF NotWanted
<1> QED BY <1>1, LimitsAreNat, FS_Subset, FS_CardinalityType

\* The products of the bound.
LEMMA Products ==
    ASSUME NEW a \in Nat, NEW b \in Nat, NEW t \in Nat, NEW n \in Nat
    PROVE  /\ a * b * t \in Nat /\ n * b \in Nat
           /\ (n + 1) * b = n * b + b
           /\ a * b * (t + 1) = a * b * t + a * b
           /\ n <= a => n * b <= a * b
<1>1. a * b * t \in Nat /\ n * b \in Nat
  OBVIOUS
<1>2. (n + 1) * b = n * b + b
  OBVIOUS
<1>3. a * b * (t + 1) = a * b * t + a * b
  OBVIOUS
<1>4. n <= a => n * b <= a * b
  OBVIOUS
<1> QED BY <1>1, <1>2, <1>3, <1>4

LEMMA AllowedNat ==
    ASSUME DontWants, NEW p \in Peers, NEW k \in 1 .. IDontWantMessageTTL
    PROVE  Allowed(p, k) \in Nat
<1>1. IDontWantMessageTTL - k \in Nat /\ peerdontwant[p] \in Nat
  BY LimitsAreNat DEF DontWants
<1> QED BY <1>1, Products, LimitsAreNat DEF Allowed

LEMMA UInit == GossipInit => UInv
<1> SUFFICES ASSUME GossipInit PROVE UInv
  OBVIOUS
<1>1. DontWants
  BY LimitsAreNat DEF GossipInit, DontWants
<1>2. ASSUME NEW p \in Peers, NEW k \in 1 .. IDontWantMessageTTL
      PROVE  Cardinality(NotWanted(p, k)) <= Allowed(p, k)
  <2>1. NotWanted(p, k) = {}
    BY DEF GossipInit, NotWanted
  <2> QED BY <1>1, <2>1, FS_EmptySet, AllowedNat
<1> QED BY <1>1, <1>2 DEF UInv, Metered

\* Steps after which no peer has more unwanted messages, and none has been counted.
LEMMA UFewer ==
    ASSUME UInv, UNCHANGED peerdontwant,
           unwanted' \in [Peers -> [Msgs -> 0 .. IDontWantMessageTTL]],
           \A p \in Peers : \A m \in Msgs : unwanted'[p][m] <= unwanted[p][m]
    PROVE  UInv'
<1>1. DontWants'
  BY DEF UInv, DontWants
<1>2. ASSUME NEW p \in Peers, NEW k \in 1 .. IDontWantMessageTTL
      PROVE  Cardinality(NotWanted(p, k)') <= Allowed(p, k)'
  <2>1. NotWanted(p, k)' \in SUBSET NotWanted(p, k)
    <3>1. ASSUME NEW m \in Msgs, unwanted'[p][m] >= k PROVE unwanted[p][m] >= k
      <4>1. unwanted'[p][m] \in Nat /\ unwanted[p][m] \in Nat
            /\ unwanted'[p][m] <= unwanted[p][m]
        BY LimitsAreNat DEF UInv, DontWants
      <4> QED BY <3>1, <4>1, LimitsAreNat
    <3> QED BY <3>1 DEF NotWanted
  <2>2. Cardinality(NotWanted(p, k)') <= Cardinality(NotWanted(p, k))
    BY <2>1, NotWantedFinite, FS_Subset
  <2>3. Allowed(p, k)' = Allowed(p, k) /\ Cardinality(NotWanted(p, k)) <= Allowed(p, k)
    BY DEF Allowed, UInv, Metered
  <2> QED BY <2>2, <2>3, NotWantedFinite, AllowedNat DEF UInv
<1> QED BY <1>1, <1>2 DEF UInv, Metered

\* One IDONTWANT adds at most MaxIDontWantLength messages and is counted.
LEMMA IDontWantMetered ==
    ASSUME UInv, NEW p \in Peers, NEW ids \in SUBSET Msgs, HandleIDontWant(p, ids)
    PROVE  UInv'
<1>1. /\ peerdontwant[p] < MaxIDontWantMessages
      /\ peerdontwant' = [peerdontwant EXCEPT ![p] = @ + 1]
      /\ Cardinality(ids) <= MaxIDontWantLength
  BY LimitsAreNat DEF HandleIDontWant, DontWantRefused, UInv, DontWants
<1>2. unwanted' = [unwanted EXCEPT ![p] =
          [m \in Msgs |-> IF m \in ids THEN IDontWantMessageTTL ELSE unwanted[p][m]]]
  BY DEF HandleIDontWant
<1>3. DontWants'
  <2>1. peerdontwant' \in [Peers -> 0 .. MaxIDontWantMessages]
    BY <1>1, LimitsAreNat DEF UInv, DontWants
  <2>2. unwanted' \in [Peers -> [Msgs -> 0 .. IDontWantMessageTTL]]
    BY <1>2, LimitsAreNat DEF UInv, DontWants
  <2> QED BY <2>1, <2>2 DEF DontWants
<1>4. ASSUME NEW q \in Peers, NEW k \in 1 .. IDontWantMessageTTL
      PROVE  Cardinality(NotWanted(q, k)') <= Allowed(q, k)'
  <2>1. Cardinality(NotWanted(q, k)) <= Allowed(q, k)
    BY DEF UInv, Metered
  <2>2. CASE q # p
    <3>1. unwanted'[q] = unwanted[q] /\ peerdontwant'[q] = peerdontwant[q]
      BY <1>1, <1>2, <2>2 DEF UInv, DontWants
    <3> QED BY <2>1, <3>1 DEF NotWanted, Allowed
  <2>3. CASE q = p
    <3>1. NotWanted(q, k)' \in SUBSET (NotWanted(q, k) \cup ids)
      BY <1>2, <2>3 DEF NotWanted, UInv, DontWants
    <3>2. IsFiniteSet(ids) /\ Cardinality(ids) \in Nat
      BY LimitsAreNat, FS_Subset, FS_CardinalityType
    <3>3. NotWanted(q, k) \cap ids \in SUBSET Msgs
      OBVIOUS
    <3>4. Cardinality(NotWanted(q, k) \cap ids) \in Nat
      BY <3>3, LimitsAreNat, FS_Subset, FS_CardinalityType
    <3>5. /\ IsFiniteSet(NotWanted(q, k) \cup ids)
          /\ Cardinality(NotWanted(q, k) \cup ids)
                <= Cardinality(NotWanted(q, k)) + Cardinality(ids)
      BY <3>2, <3>4, NotWantedFinite, FS_Union
    <3>6. Cardinality(NotWanted(q, k)') <= Cardinality(NotWanted(q, k) \cup ids)
          /\ Cardinality(NotWanted(q, k) \cup ids) \in Nat
      BY <3>1, <3>5, FS_Subset, FS_CardinalityType
    <3>7. Allowed(q, k)' = Allowed(q, k) + MaxIDontWantLength
      <4>1. peerdontwant'[q] = peerdontwant[q] + 1 /\ peerdontwant[q] \in Nat
        BY <1>1, <2>3 DEF UInv, DontWants
      <4>2. (peerdontwant[q] + 1) * MaxIDontWantLength
               = peerdontwant[q] * MaxIDontWantLength + MaxIDontWantLength
        BY <4>1, Products, LimitsAreNat
      <4>3. /\ MaxIDontWantMessages * MaxIDontWantLength * (IDontWantMessageTTL - k) \in Nat
            /\ peerdontwant[q] * MaxIDontWantLength \in Nat
        BY <4>1, Products, LimitsAreNat
      <4> QED BY <4>1, <4>2, <4>3, LimitsAreNat DEF Allowed
    <3>8. Allowed(q, k) \in Nat
      BY AllowedNat DEF UInv
    <3> QED BY <1>1, <2>1, <3>2, <3>5, <3>6, <3>7, <3>8, NotWantedFinite, LimitsAreNat
  <2> QED BY <2>2, <2>3
<1> QED BY <1>3, <1>4 DEF UInv, Metered

\* The heartbeat ages every entry by one and starts a new count.
LEMMA HeartbeatMetered == ASSUME UInv, GossipHeartbeat PROVE UInv'
<1>1. /\ peerdontwant' = [p \in Peers |-> 0]
      /\ unwanted' = [p \in Peers |-> [m \in Msgs |-> Less(unwanted[p][m])]]
  BY DEF GossipHeartbeat
<1>2. \A p \in Peers, m \in Msgs : Less(unwanted[p][m]) \in 0 .. IDontWantMessageTTL
  BY LimitsAreNat DEF UInv, DontWants, Less
<1>3. DontWants'
  <2>1. peerdontwant' \in [Peers -> 0 .. MaxIDontWantMessages]
    BY <1>1, LimitsAreNat
  <2>2. unwanted' \in [Peers -> [Msgs -> 0 .. IDontWantMessageTTL]]
    BY <1>1, <1>2
  <2> QED BY <2>1, <2>2 DEF DontWants
<1>4. ASSUME NEW p \in Peers, NEW k \in 1 .. IDontWantMessageTTL
      PROVE  Cardinality(NotWanted(p, k)') <= Allowed(p, k)'
  <2>1. \A m \in Msgs : unwanted'[p][m] = Less(unwanted[p][m])
    BY <1>1
  <2>2. \A m \in Msgs : unwanted[p][m] \in 0 .. IDontWantMessageTTL
    BY DEF UInv, DontWants
  <2>3. Allowed(p, k)' = MaxIDontWantMessages * MaxIDontWantLength * (IDontWantMessageTTL - k)
    <3>1. peerdontwant'[p] * MaxIDontWantLength = 0
      BY <1>1, LimitsAreNat
    <3>2. MaxIDontWantMessages * MaxIDontWantLength * (IDontWantMessageTTL - k) \in Nat
      BY Products, LimitsAreNat
    <3> QED BY <3>1, <3>2 DEF Allowed
  <2>4. Allowed(p, k)' \in Nat
    BY <2>3, Products, LimitsAreNat
  <2>5. CASE k = IDontWantMessageTTL
    <3>1. NotWanted(p, k)' = {}
      BY <2>1, <2>2, <2>5, LimitsAreNat DEF NotWanted, Less
    <3> QED BY <3>1, <2>4, FS_EmptySet
  <2>6. CASE k # IDontWantMessageTTL
    <3>1. k + 1 \in 1 .. IDontWantMessageTTL
      BY <2>6, LimitsAreNat
    <3>2. NotWanted(p, k)' = NotWanted(p, k + 1)
      <4>1. \A m \in Msgs : unwanted'[p][m] >= k <=> unwanted[p][m] >= k + 1
        BY <2>1, <2>2, LimitsAreNat DEF Less
      <4> QED BY <4>1 DEF NotWanted
    <3>3. Cardinality(NotWanted(p, k)') <= Allowed(p, k + 1)
      BY <3>1, <3>2 DEF UInv, Metered
    <3>4. Allowed(p, k + 1) <= Allowed(p, k)'
      <4> DEFINE t == IDontWantMessageTTL - (k + 1)
      <4>1. t \in Nat /\ t + 1 = IDontWantMessageTTL - k
        BY <3>1, LimitsAreNat
      <4> HIDE DEF t
      <4>2. peerdontwant[p] \in Nat /\ peerdontwant[p] <= MaxIDontWantMessages
        BY LimitsAreNat DEF UInv, DontWants
      <4>3. peerdontwant[p] * MaxIDontWantLength <= MaxIDontWantMessages * MaxIDontWantLength
        BY <4>2, Products, LimitsAreNat
      <4>4. MaxIDontWantMessages * MaxIDontWantLength * (t + 1)
              = MaxIDontWantMessages * MaxIDontWantLength * t
                + MaxIDontWantMessages * MaxIDontWantLength
        BY <4>1, Products, LimitsAreNat
      <4>5. /\ MaxIDontWantMessages * MaxIDontWantLength * t \in Nat
            /\ peerdontwant[p] * MaxIDontWantLength \in Nat
            /\ MaxIDontWantMessages * MaxIDontWantLength \in Nat
        BY <4>1, <4>2, Products, LimitsAreNat
      <4>6. Allowed(p, k + 1) = MaxIDontWantMessages * MaxIDontWantLength * t
                                + peerdontwant[p] * MaxIDontWantLength
        BY DEF Allowed, t
      <4>7. Allowed(p, k)' = MaxIDontWantMessages * MaxIDontWantLength * (t + 1)
        BY <2>3, <4>1
      <4> QED BY <4>3, <4>4, <4>5, <4>6, <4>7
    <3>5. Allowed(p, k + 1) \in Nat
      BY <3>1, AllowedNat DEF UInv
    <3> QED BY <2>4, <3>3, <3>4, <3>5, NotWantedFinite
  <2> QED BY <2>5, <2>6
<1> QED BY <1>3, <1>4 DEF UInv, Metered

LEMMA UStep == UInv /\ [GossipNext]_gossipVars => UInv'
<1> SUFFICES ASSUME UInv, [GossipNext]_gossipVars PROVE UInv'
  OBVIOUS
<1>1. CASE UNCHANGED <<unwanted, peerdontwant>>
  <2>1. \A p \in Peers : \A m \in Msgs : unwanted[p][m] \in Nat
    BY LimitsAreNat DEF UInv, DontWants
  <2> QED BY <1>1, <2>1, UFewer DEF UInv, DontWants
<1>2. ASSUME NEW p \in Peers, ClosedOutboundStream(p) PROVE UInv'
  <2>1. unwanted' = [unwanted EXCEPT ![p] = [m \in Msgs |-> 0]] /\ UNCHANGED peerdontwant
    BY <1>2 DEF ClosedOutboundStream, limits
  <2>2. unwanted' \in [Peers -> [Msgs -> 0 .. IDontWantMessageTTL]]
    BY <2>1, LimitsAreNat DEF UInv, DontWants
  <2>3. \A q \in Peers : \A m \in Msgs : unwanted'[q][m] <= unwanted[q][m]
    BY <2>1, LimitsAreNat DEF UInv, DontWants
  <2> QED BY <2>1, <2>2, <2>3, UFewer
<1>3. \/ UNCHANGED <<unwanted, peerdontwant>> \/ GossipHeartbeat
      \/ (\E p \in Peers : ClosedOutboundStream(p))
      \/ (\E p \in Peers : \E ids \in SUBSET Msgs : HandleIDontWant(p, ids))
  BY DEF GossipNext, gossipVars, limits, MarkSeen, SeenAgain, BeginValidation, RejectMessage, RejectUnseen,
         PublishMessage, HandleIHave, HandleIWant, ThrottlePeer, SendIWant, SweepSeen,
         SweepDelivered
<1> QED BY <1>1, <1>2, <1>3, IDontWantMetered, HeartbeatMetered

\* handleIDontWant and clearIDontWantCounters keep what a peer can make us remember within
\* MaxIDontWantMessages * MaxIDontWantLength messages for each heartbeat of their life.
THEOREM UnwantedBoundHolds == GossipSpec => []UnwantedBound
<1>1. GossipInit => UInv
  BY UInit
<1>2. UInv /\ [GossipNext]_gossipVars => UInv'
  BY UStep
<1>3. UInv => UnwantedBound
  <2> SUFFICES ASSUME UInv, NEW p \in Peers
               PROVE  Cardinality({m \in Msgs : unwanted[p][m] > 0})
                         <= MaxIDontWantMessages * MaxIDontWantLength * IDontWantMessageTTL
    BY DEF UnwantedBound
  <2>1. {m \in Msgs : unwanted[p][m] > 0} = NotWanted(p, 1)
    BY LimitsAreNat DEF NotWanted, UInv, DontWants
  <2>2. Cardinality(NotWanted(p, 1)) <= Allowed(p, 1)
    BY LimitsAreNat DEF UInv, Metered
  <2> DEFINE t == IDontWantMessageTTL - 1
  <2>3. t \in Nat /\ t + 1 = IDontWantMessageTTL
    BY LimitsAreNat
  <2>4. Allowed(p, 1) = MaxIDontWantMessages * MaxIDontWantLength * t
                        + peerdontwant[p] * MaxIDontWantLength
    BY DEF Allowed
  <2> HIDE DEF t
  <2>5. peerdontwant[p] \in Nat /\ peerdontwant[p] <= MaxIDontWantMessages
    BY LimitsAreNat DEF UInv, DontWants
  <2>6. peerdontwant[p] * MaxIDontWantLength <= MaxIDontWantMessages * MaxIDontWantLength
    BY <2>5, Products, LimitsAreNat
  <2>7. MaxIDontWantMessages * MaxIDontWantLength * (t + 1)
          = MaxIDontWantMessages * MaxIDontWantLength * t
            + MaxIDontWantMessages * MaxIDontWantLength
    BY <2>3, Products, LimitsAreNat
  <2>8. /\ MaxIDontWantMessages * MaxIDontWantLength * t \in Nat
        /\ peerdontwant[p] * MaxIDontWantLength \in Nat
        /\ MaxIDontWantMessages * MaxIDontWantLength \in Nat
    BY <2>3, <2>5, Products, LimitsAreNat
  <2> QED BY <2>1, <2>2, <2>3, <2>4, <2>6, <2>7, <2>8, NotWantedFinite
<1> QED BY <1>1, <1>2, <1>3, PTL DEF GossipSpec
=============================================================================
