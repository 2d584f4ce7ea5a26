---------------------------- MODULE Topics_proofs ----------------------------
(***************************************************************************)
(* Proofs about Announcements, for any number of subscriptions and relays, *)
(* any queue and any number of moves, and about TopicEvents, for any       *)
(* members, handlers and readers.                                          *)
(***************************************************************************)
EXTENDS Announcements, TopicEvents, Inductions

-----------------------------------------------------------------------------
(* Announcements.                                                          *)

Announced == {"sub", "unsub"}

\* The types the proofs need.
AnnTypes ==
    /\ handle \in {"none", "normal", "fanoutOnly"}
    /\ subs \in Nat /\ relays \in Nat
    /\ advertised \in BOOLEAN /\ joined \in BOOLEAN
    /\ outbox \in Seq({"sub", "unsub", "other"})
    /\ retries \in [Announced -> Nat]

\* While the handle is fanout-only there is no relay.
QuietFanout == handle = "fanoutOnly" => relays = 0

AnnInv == AnnTypes /\ InterestAgrees /\ QuietFanout

-----------------------------------------------------------------------------
\* announce queues the announcement or leaves it to a retry.
LEMMA AnnounceTypes ==
    ASSUME AnnTypes, NEW a \in Announced, Announce(a)
    PROVE  outbox' \in Seq({"sub", "unsub", "other"}) /\ retries' \in [Announced -> Nat]
  BY DEF AnnTypes, Announce, Announced

\* The initial state of a PubSub.
LEMMA AnnInitInv == AnnInit => AnnInv
<1> SUFFICES ASSUME AnnInit
             PROVE  AnnInv
    OBVIOUS
<1>1. AnnTypes
  <2>1. outbox \in Seq({"sub", "unsub", "other"}) /\ retries \in [Announced -> Nat]
    BY DEF AnnInit, Announced
  <2>2. advertised \in BOOLEAN /\ joined \in BOOLEAN
    BY DEF AnnInit
  <2>3. handle \in {"none", "normal", "fanoutOnly"} /\ subs \in Nat /\ relays \in Nat
    BY DEF AnnInit
  <2> QED BY <2>1, <2>2, <2>3 DEF AnnTypes
<1>2. ~ Interested
  BY DEF AnnInit, Interested
<1>3. InterestAgrees
  BY <1>2 DEF AnnInit, InterestAgrees
<1>4. QuietFanout
  BY DEF AnnInit, QuietFanout
<1> QED BY <1>1, <1>3, <1>4 DEF AnnInv

\* Types are preserved.
LEMMA AnnTypesStep == AnnInv /\ [AnnNext]_annVars => AnnTypes'
<1> SUFFICES ASSUME AnnInv, [AnnNext]_annVars
             PROVE  AnnTypes'
    OBVIOUS
<1> USE AnnouncementsAssumption DEF AnnInv
<1>1. ASSUME NEW h \in {"normal", "fanoutOnly"}, AddTopic(h)
      PROVE  AnnTypes'
  BY <1>1 DEF AnnTypes, AddTopic, Move, peerVars
<1>2. CASE RemoveTopic
  BY <1>2 DEF AnnTypes, RemoveTopic, Move, peerVars
<1>3. CASE AddSubscription
  <2>1. outbox' \in Seq({"sub", "unsub", "other"}) /\ retries' \in [Announced -> Nat]
    BY <1>3, AnnounceTypes DEF AddSubscription, Begin, AnnTypes, Announced
  <2>2. joined' \in BOOLEAN /\ advertised' \in BOOLEAN
    BY <1>3 DEF AddSubscription, Begin, AnnTypes
  <2> QED BY <1>3, <2>1, <2>2 DEF AddSubscription, AnnTypes, Move
<1>4. CASE RemoveSubscription
  <2>1. outbox' \in Seq({"sub", "unsub", "other"}) /\ retries' \in [Announced -> Nat]
    BY <1>4, AnnounceTypes DEF RemoveSubscription, End, AnnTypes, Announced
  <2>2. joined' \in BOOLEAN /\ advertised' \in BOOLEAN
    BY <1>4 DEF RemoveSubscription, End, AnnTypes
  <2> QED BY <1>4, <2>1, <2>2 DEF RemoveSubscription, AnnTypes, Move
<1>5. CASE AddRelay
  <2>1. outbox' \in Seq({"sub", "unsub", "other"}) /\ retries' \in [Announced -> Nat]
    BY <1>5, AnnounceTypes DEF AddRelay, AnnTypes, Announced
  <2>2. joined' \in BOOLEAN /\ advertised' \in BOOLEAN
    BY <1>5 DEF AddRelay, AnnTypes
  <2> QED BY <1>5, <2>1, <2>2 DEF AddRelay, AnnTypes, Move
<1>6. CASE RemoveRelay
  <2>1. outbox' \in Seq({"sub", "unsub", "other"}) /\ retries' \in [Announced -> Nat]
    BY <1>6, AnnounceTypes DEF RemoveRelay, AnnTypes, Announced
  <2>2. joined' \in BOOLEAN /\ advertised' \in BOOLEAN
    BY <1>6 DEF RemoveRelay, AnnTypes
  <2> QED BY <1>6, <2>1, <2>2 DEF RemoveRelay, AnnTypes, Move
<1>7. ASSUME NEW a \in Announced, AnnounceRetry(a)
      PROVE  AnnTypes'
  <2>1. outbox' \in Seq({"sub", "unsub", "other"})
    <3>1. outbox' = outbox \/ outbox' = Append(outbox, a)
      BY <1>7 DEF AnnounceRetry
    <3> QED BY <3>1 DEF AnnTypes, Announced
  <2>2. retries' \in [Announced -> Nat]
    BY <1>7 DEF AnnounceRetry, AnnTypes
  <2> QED BY <1>7, <2>1, <2>2 DEF AnnounceRetry, AnnTypes, topicVars
<1>8. CASE NewPeer
  BY <1>8 DEF AnnTypes, NewPeer, Move, topicVars
<1>9. CASE StreamOpens
  BY <1>9 DEF AnnTypes, StreamOpens, GetHelloPacket, topicVars
<1>10. CASE StreamFails
  BY <1>10 DEF AnnTypes, StreamFails, Move, topicVars
<1>11. CASE Write
  <2>1. outbox' \in Seq({"sub", "unsub", "other"})
    BY <1>11 DEF AnnTypes, Write
  <2> QED BY <1>11, <2>1 DEF AnnTypes, Write, topicVars
<1>12. CASE OtherRPC
  BY <1>12 DEF AnnTypes, OtherRPC, Move, topicVars
<1>13. ASSUME NEW connected \in BOOLEAN, StreamDies(connected)
       PROVE  AnnTypes'
  BY <1>13 DEF AnnTypes, StreamDies, Move, topicVars
<1>14. CASE ReverseStreamDies
  BY <1>14 DEF AnnTypes, ReverseStreamDies, Move, topicVars
<1>17. CASE ClosedStream
  BY <1>17 DEF AnnTypes, ClosedStream, topicVars
<1>15. CASE UNCHANGED annVars
  BY <1>15 DEF AnnTypes, annVars
<1>16. DOMAIN retries = Announced
  BY DEF AnnTypes
<1> QED
  BY <1>1, <1>2, <1>3, <1>4, <1>5, <1>6, <1>7, <1>8, <1>9, <1>10, <1>11, <1>12, <1>13, <1>14,
     <1>15, <1>16, <1>17
  DEF AnnNext

-----------------------------------------------------------------------------
\* Steps that touch neither subscriptions nor relays do not change the interest.
LEMMA SameInterest ==
    ASSUME UNCHANGED topicVars, InterestAgrees
    PROVE  InterestAgrees'
  BY DEF topicVars, InterestAgrees, Interested

\* Every handler keeps the advertisement and the router in step with the interest.
LEMMA InterestStep == AnnInv /\ [AnnNext]_annVars => InterestAgrees'
<1> SUFFICES ASSUME AnnInv, [AnnNext]_annVars
             PROVE  InterestAgrees'
    OBVIOUS
<1>0. /\ handle \in {"none", "normal", "fanoutOnly"} /\ subs \in Nat /\ relays \in Nat
      /\ advertised \in BOOLEAN /\ joined \in BOOLEAN
      /\ DOMAIN retries = Announced
  BY DEF AnnInv, AnnTypes
<1>a. /\ advertised <=> Interested
      /\ joined <=> Interested /\ handle # "fanoutOnly"
      /\ Interested => handle # "none"
      /\ relays > 0 => handle # "fanoutOnly"
  BY <1>0 DEF AnnInv, InterestAgrees, QuietFanout
<1>b. Interested <=> subs + relays > 0
  BY DEF Interested
<1>c. Interested' <=> subs' + relays' > 0
  BY DEF Interested
<1>1. ASSUME NEW h \in {"normal", "fanoutOnly"}, AddTopic(h)
      PROVE  InterestAgrees'
  <2>1. ~ Interested /\ ~ Interested'
    BY <1>1, <1>a DEF AddTopic, Interested
  <2> QED BY <1>1, <1>a, <2>1 DEF AddTopic, InterestAgrees
<1>2. CASE RemoveTopic
  <2>1. ~ Interested /\ ~ Interested'
    BY <1>2 DEF RemoveTopic, Interested
  <2> QED BY <1>2, <1>a, <2>1 DEF RemoveTopic, InterestAgrees
<1>3. CASE AddSubscription
  <2>1. Interested'
    BY <1>3, <1>0, <1>c DEF AddSubscription
  <2>2. handle' = handle /\ handle # "none"
    BY <1>3 DEF AddSubscription
  <2>3. advertised' /\ (joined' <=> handle # "fanoutOnly")
    BY <1>3, <1>0, <1>a DEF AddSubscription, Begin
  <2> QED BY <2>1, <2>2, <2>3 DEF InterestAgrees
<1>4. CASE RemoveSubscription
  <2>1. Interested /\ (Interested' <=> ~ (subs = 1 /\ relays = 0))
    BY <1>4, <1>0, <1>b, <1>c DEF RemoveSubscription
  <2>2. handle' = handle
    BY <1>4 DEF RemoveSubscription
  <2>3. CASE subs = 1 /\ relays = 0
    <3>1. ~ advertised' /\ ~ joined'
      BY <1>4, <1>a, <2>3 DEF RemoveSubscription, End
    <3> QED BY <2>1, <2>3, <3>1 DEF InterestAgrees
  <2>4. CASE ~ (subs = 1 /\ relays = 0)
    <3>1. UNCHANGED <<advertised, joined>>
      BY <1>4, <2>4 DEF RemoveSubscription
    <3> QED BY <1>a, <2>1, <2>2, <2>4, <3>1 DEF InterestAgrees
  <2> QED BY <2>3, <2>4
<1>5. CASE AddRelay
  <2>1. Interested'
    BY <1>5, <1>0, <1>c DEF AddRelay
  <2>2. handle' = handle /\ handle = "normal"
    BY <1>5 DEF AddRelay
  <2>3. advertised' /\ joined'
    BY <1>5, <1>a, <2>2 DEF AddRelay
  <2> QED BY <2>1, <2>2, <2>3 DEF InterestAgrees
<1>6. CASE RemoveRelay
  <2>1. Interested /\ (Interested' <=> ~ (relays = 1 /\ subs = 0))
    BY <1>6, <1>0, <1>b, <1>c DEF RemoveRelay
  <2>2. handle' = handle
    BY <1>6 DEF RemoveRelay
  <2>3. CASE relays = 1 /\ subs = 0
    <3>1. ~ advertised' /\ ~ joined'
      BY <1>6, <2>3 DEF RemoveRelay
    <3> QED BY <2>1, <2>3, <3>1 DEF InterestAgrees
  <2>4. CASE ~ (relays = 1 /\ subs = 0)
    <3>1. UNCHANGED <<advertised, joined>>
      BY <1>6, <2>4 DEF RemoveRelay
    <3> QED BY <1>a, <2>1, <2>2, <2>4, <3>1 DEF InterestAgrees
  <2> QED BY <2>3, <2>4
<1>7. CASE UNCHANGED topicVars
  BY <1>7, SameInterest DEF AnnInv
<1>8. \/ \E a \in Announced : AnnounceRetry(a)
      \/ NewPeer \/ StreamOpens \/ StreamFails \/ Write \/ OtherRPC
      \/ \E connected \in BOOLEAN : StreamDies(connected)
      \/ ClosedStream \/ ReverseStreamDies \/ UNCHANGED annVars
      => UNCHANGED topicVars
  BY DEF AnnounceRetry, NewPeer, StreamOpens, StreamFails, Write, OtherRPC, StreamDies,
         ClosedStream, ReverseStreamDies, annVars, topicVars
<1> QED
  BY <1>0, <1>1, <1>2, <1>3, <1>4, <1>5, <1>6, <1>7, <1>8 DEF AnnNext

\* A fanout-only handle stays without relays.
LEMMA QuietFanoutStep == AnnInv /\ [AnnNext]_annVars => QuietFanout'
<1> SUFFICES ASSUME AnnInv, [AnnNext]_annVars, handle' = "fanoutOnly"
             PROVE  relays' = 0
    BY DEF QuietFanout
<1>0. subs \in Nat /\ relays \in Nat
  BY DEF AnnInv, AnnTypes
<1>1. ASSUME NEW h \in {"normal", "fanoutOnly"}, AddTopic(h)
      PROVE  relays' = 0
  <2>1. relays = 0
    BY <1>0, <1>1 DEF AddTopic, AnnInv, InterestAgrees, Interested
  <2> QED BY <1>1, <2>1 DEF AddTopic
<1>2. CASE ~ \E h \in {"normal", "fanoutOnly"} : AddTopic(h)
  <2>1. (handle' = handle \/ handle' = "none") /\ (relays' = relays \/ AddRelay \/ RemoveRelay)
    BY <1>2 DEF AnnNext, RemoveTopic, AddSubscription, RemoveSubscription, AddRelay, RemoveRelay,
           AnnounceRetry, NewPeer, StreamOpens, StreamFails, Write, OtherRPC, StreamDies,
           ClosedStream, ReverseStreamDies, annVars, topicVars
  <2>2. handle = "fanoutOnly" /\ relays = 0
    BY <2>1 DEF AnnInv, QuietFanout
  <2> QED BY <2>1, <2>2 DEF AddRelay, RemoveRelay
<1> QED BY <1>1, <1>2

LEMMA AnnInvariant == AnnSpec => []AnnInv
<1>1. AnnInv /\ [AnnNext]_annVars => AnnInv'
  BY AnnTypesStep, InterestStep, QuietFanoutStep DEF AnnInv
<1> QED BY <1>1, AnnInitInv, PTL DEF AnnSpec

\* However subscriptions, relays and topic handles come and go, the advertisement and the
\* router's Join follow whether there is a subscription or a relay
\* (handleAddSubscription, handleRemoveSubscription, handleAddRelay, handleRemoveRelay).
THEOREM InterestSafe == AnnSpec => []InterestAgrees
<1>1. AnnInv => InterestAgrees
  BY DEF AnnInv
<1> QED BY <1>1, AnnInvariant, PTL

-----------------------------------------------------------------------------
\* What one step may announce under a fanout-only handle.
Leftovers ==
    /\ hello' = <<"sub">> => hello' = hello
    /\ \A a \in {"sub", "unsub"} :
          /\ retries'[a] <= retries[a]
          /\ outbox' = Append(outbox, a) => retries'[a] < retries[a]

\* Under a fanout-only handle the queue only grows by retries and by RPCs of the router.
LEMMA LeftoversStep == AnnInv /\ [AnnNext]_annVars /\ handle = "fanoutOnly" => Leftovers
<1> SUFFICES ASSUME AnnInv, [AnnNext]_annVars, handle = "fanoutOnly"
             PROVE  Leftovers
    OBVIOUS
<1>0. /\ outbox \in Seq({"sub", "unsub", "other"})
      /\ retries \in [Announced -> Nat] /\ DOMAIN retries = Announced /\ relays = 0
  BY DEF AnnInv, AnnTypes, QuietFanout
<1>a. <<"sub">> # <<>> /\ <<"sub">> # <<"other">>
  OBVIOUS
<1>1. ASSUME retries' = retries, hello' = hello \/ hello' = <<>> \/ hello' = <<"other">>,
             \A a \in Announced : outbox' # Append(outbox, a)
      PROVE  Leftovers
  <2>1. hello' = <<"sub">> => hello' = hello
    BY <1>a, <1>1
  <2>2. \A a \in Announced : retries'[a] <= retries[a]
    BY <1>0, <1>1
  <2> QED BY <1>1, <2>1, <2>2 DEF Leftovers, Announced
<1>2. \A a \in Announced : outbox # Append(outbox, a)
  <2>1. \A a \in Announced : Len(Append(outbox, a)) = Len(outbox) + 1 /\ Len(outbox) \in Nat
    BY <1>0 DEF Announced
  <2> QED BY <2>1
<1>3. \A a \in Announced : <<>> # Append(outbox, a)
  BY <1>0 DEF Announced
<1>5. CASE AddSubscription \/ RemoveSubscription
  <2>1. UNCHANGED <<outbox, retries, hello>>
    BY <1>5 DEF AddSubscription, RemoveSubscription, Begin, End
  <2> QED BY <1>1, <1>2, <2>1
<1>6. ~ AddRelay /\ ~ RemoveRelay
  BY <1>0 DEF AddRelay, RemoveRelay
<1>7. ASSUME NEW a \in Announced, AnnounceRetry(a)
      PROVE  Leftovers
  <2>1. /\ retries' = [retries EXCEPT ![a] = @ - 1] /\ hello' = hello
        /\ outbox' = outbox \/ outbox' = Append(outbox, a)
    BY <1>7 DEF AnnounceRetry
  <2>2. ASSUME NEW b \in Announced, outbox' = Append(outbox, b)
        PROVE  b = a
    <3>1. Append(outbox, a) = Append(outbox, b)
      BY <1>2, <2>1, <2>2
    <3>2. Append(outbox, a)[Len(outbox) + 1] = a /\ Append(outbox, b)[Len(outbox) + 1] = b
      BY <1>0 DEF Announced
    <3> QED BY <3>1, <3>2
  <2>3. \A b \in Announced : retries'[b] <= retries[b]
    BY <1>0, <2>1
  <2>4. retries'[a] < retries[a]
    BY <1>0, <2>1
  <2> QED BY <2>1, <2>2, <2>3, <2>4 DEF Leftovers, Announced
<1>8. CASE StreamOpens
  <2>1. outbox' = outbox /\ retries' = retries /\ hello' = <<"other">>
    BY <1>0, <1>8 DEF StreamOpens, GetHelloPacket
  <2> QED BY <1>1, <1>2, <2>1
<1>9. CASE NewPeer \/ StreamFails \/ \E connected \in BOOLEAN : StreamDies(connected)
  <2>1. outbox' = <<>> /\ retries' = retries /\ (hello' = hello \/ hello' = <<>>)
    BY <1>9 DEF NewPeer, StreamFails, StreamDies
  <2> QED BY <1>1, <1>3, <2>1
<1>10. CASE Write
  <2>1. retries' = retries /\ (hello' = hello \/ hello' = <<>>)
    BY <1>10 DEF Write
  <2>2. outbox' = outbox \/ (outbox # <<>> /\ outbox' = Tail(outbox))
    BY <1>10 DEF Write
  <2>3. \A a \in Announced : outbox # <<>> => Tail(outbox) # Append(outbox, a)
    <3>1. ASSUME NEW a \in Announced, outbox # <<>>
          PROVE  Tail(outbox) # Append(outbox, a)
      <4>1. Len(Tail(outbox)) = Len(outbox) - 1 /\ Len(outbox) \in Nat
        BY <1>0, <3>1
      <4>2. Len(Append(outbox, a)) = Len(outbox) + 1
        BY <1>0 DEF Announced
      <4> QED BY <4>1, <4>2
    <3> QED BY <3>1
  <2> QED BY <1>1, <1>2, <2>1, <2>2, <2>3
<1>11. CASE OtherRPC
  <2>1. outbox' = Append(outbox, "other") /\ retries' = retries /\ hello' = hello
    BY <1>11 DEF OtherRPC
  <2>2. ASSUME NEW a \in Announced
        PROVE  outbox' # Append(outbox, a)
    <3>1. outbox'[Len(outbox) + 1] = "other" /\ Append(outbox, a)[Len(outbox) + 1] = a
      BY <1>0, <2>1 DEF Announced
    <3> QED BY <3>1 DEF Announced
  <2> QED BY <1>1, <2>1, <2>2
<1>12. CASE RemoveTopic \/ ClosedStream \/ ReverseStreamDies \/ UNCHANGED annVars
  <2>1. UNCHANGED <<outbox, retries, hello>>
    BY <1>12 DEF RemoveTopic, ClosedStream, ReverseStreamDies, annVars, peerVars
  <2> QED BY <1>1, <1>2, <2>1
<1>13. ~ \E h \in {"normal", "fanoutOnly"} : AddTopic(h)
  BY DEF AddTopic
<1> QED
  BY <1>0, <1>5, <1>6, <1>7, <1>8, <1>9, <1>10, <1>11, <1>12, <1>13 DEF AnnNext

\* Whatever retries an earlier handle has left, a fanout-only topic starts no announcement:
\* getHelloPacket leaves it out, handleAddSubscription and handleRemoveSubscription do not
\* call announce for it, and what announceRetry still queues was counted as waiting.
THEOREM FanoutSilent == AnnSpec => FanoutQuiet
<1>1. AnnInv /\ [AnnNext]_annVars
        => [handle = "fanoutOnly" =>
              /\ hello' = <<"sub">> => hello' = hello
              /\ \A a \in {"sub", "unsub"} :
                    /\ retries'[a] <= retries[a]
                    /\ outbox' = Append(outbox, a) => retries'[a] < retries[a]]_annVars
  BY LeftoversStep DEF Leftovers
<1> QED BY <1>1, AnnInvariant, PTL DEF AnnSpec, FanoutQuiet

-----------------------------------------------------------------------------
(* Topic events.                                                           *)

EvtSpec == EvtInit /\ [][EvtNext]_evtVars

Logs == UNION {[P -> {"join", "leave"}] : P \in SUBSET Members}

\* The topics map, the logs and the signals, as the record that goes through an RPC
Records == [peers : SUBSET Members, log : [Handlers -> Logs], ch : [Handlers -> BOOLEAN]]

EvtTyped ==
    /\ topicPeers \in SUBSET Members
    /\ bundle \in [Members -> Seq(BOOLEAN)]
    /\ handler \in [Handlers -> {"none", "on", "off"}]
    /\ evtLog \in [Handlers -> Logs]
    /\ evtLogCh \in [Handlers -> BOOLEAN]
    /\ reader \in [Handlers -> [Readers -> {"idle", "pulling", "waiting"}]]
    /\ told \in [Handlers -> SUBSET Members]

\* A handler that works belongs to a handle, and one that was not made has no history.
Attached ==
    \A h \in Handlers :
        /\ handler[h] = "on" => known
        /\ handler[h] = "none" => told[h] = {} /\ \A r \in Readers : reader[h][r] = "idle"

EvtInv == EvtTyped /\ Attached /\ EventsInOrder /\ WakeupPending

-----------------------------------------------------------------------------
(* What the subscriptions of an RPC make of the logs.                      *)

\* EventsInOrder, with the log and the peers of a record
InOrder(s, h, p) ==
    IF p \in DOMAIN s.log[h]
    THEN (s.log[h][p] = "join") = (p \in s.peers) /\ (p \in s.peers) # (p \in told[h])
    ELSE (p \in s.peers) = (p \in told[h])

\* A record that is fit to be the next state of the topic
Fit(s) ==
    \A h \in Handlers :
        /\ handler[h] = "on" => \A p \in Members : InOrder(s, h, p)
        /\ handler[h] # "on" => s.log[h] = evtLog[h]
        /\ evtLogCh[h] => s.ch[h]
        /\ DOMAIN s.log[h] # {} => s.ch[h] \/ DOMAIN evtLog[h] # {}

FitRecords == {s \in Records : Fit(s)}

LEMMA LogShape ==
    ASSUME NEW log \in Logs
    PROVE  /\ DOMAIN log \in SUBSET Members
           /\ \A p \in DOMAIN log : log[p] \in {"join", "leave"}
  BY DEF Logs

LEMMA LogIn ==
    ASSUME NEW P \in SUBSET Members, NEW log \in [P -> {"join", "leave"}]
    PROVE  log \in Logs
  BY DEF Logs

LEMMA Added ==
    ASSUME NEW log \in Logs, NEW p \in Members, NEW e \in {"join", "leave"}
    PROVE  AddToEventLog(log, p, e) \in Logs
<1>0. /\ DOMAIN log \in SUBSET Members
      /\ \A q \in DOMAIN log : log[q] \in {"join", "leave"}
  BY LogShape
<1>1. CASE p \notin DOMAIN log
  <2>1. AddToEventLog(log, p, e) \in [DOMAIN log \cup {p} -> {"join", "leave"}]
    BY <1>0, <1>1 DEF AddToEventLog, With
  <2> QED BY <1>0, <2>1, LogIn
<1>2. CASE p \in DOMAIN log /\ log[p] # e
  <2>1. AddToEventLog(log, p, e) \in [DOMAIN log \ {p} -> {"join", "leave"}]
    BY <1>0, <1>2 DEF AddToEventLog, Without
  <2> QED BY <1>0, <2>1, LogIn
<1>3. CASE p \in DOMAIN log /\ log[p] = e
  BY <1>3 DEF AddToEventLog
<1> QED BY <1>1, <1>2, <1>3

\* A notification of what has just happened to p leaves a fit record.
LEMMA Notified ==
    ASSUME EvtTyped, Attached, NEW s \in FitRecords, NEW p \in Members, NEW e \in {"join", "leave"},
           NEW P \in SUBSET Members,
           e = "join" => p \notin s.peers /\ P = s.peers \cup {p},
           e = "leave" => p \in s.peers /\ P = s.peers \ {p}
    PROVE  SendNotification([s EXCEPT !.peers = P], p, e) \in FitRecords
<1> DEFINE on == {h \in Handlers : known /\ handler[h] = "on"}
           n  == SendNotification([s EXCEPT !.peers = P], p, e)
           L  == [h \in Handlers |-> IF h \in on THEN AddToEventLog(s.log[h], p, e) ELSE s.log[h]]
           C  == [h \in Handlers |-> s.ch[h] \/ (h \in on /\ p \notin DOMAIN s.log[h])]
<1>1. s \in Records /\ Fit(s)
  BY DEF FitRecords
<1>2. n = [peers |-> P, log |-> L, ch |-> C]
  BY <1>1 DEF SendNotification, Records
<1>3. \A h \in Handlers : s.log[h] \in Logs /\ s.ch[h] \in BOOLEAN
  BY <1>1 DEF Records
<1>4. \A h \in Handlers : AddToEventLog(s.log[h], p, e) \in Logs
  BY <1>3, Added
<1>5. n \in Records
  <2>1. L \in [Handlers -> Logs] /\ C \in [Handlers -> BOOLEAN]
    BY <1>3, <1>4
  <2> HIDE DEF L, C
  <2> QED BY <1>2, <2>1 DEF Records
<1>6. ASSUME NEW h \in Handlers, handler[h] = "on", NEW q \in Members PROVE InOrder(n, h, q)
  <2> DEFINE old == s.log[h]
             new == AddToEventLog(old, p, e)
  <2>1. h \in on /\ n.log[h] = new /\ n.peers = P
    BY <1>2, <1>6 DEF Attached
  <2>2. InOrder(s, h, q) /\ InOrder(s, h, p)
    BY <1>1, <1>6 DEF Fit
  <2>3. old \in Logs
    BY <1>3
  <2> HIDE DEF old
  <2>4. CASE q # p
    <3>1. q \in P <=> q \in s.peers
      BY <2>4
    <3>2. q \in DOMAIN new <=> q \in DOMAIN old
      BY <2>4 DEF AddToEventLog, With, Without
    <3>3. q \in DOMAIN old => new[q] = old[q]
      BY <2>4 DEF AddToEventLog, With, Without
    <3> HIDE DEF n, new
    <3> QED BY <2>1, <2>2, <3>1, <3>2, <3>3 DEF InOrder, old
  <2>5. CASE q = p
    <3>1. p \notin DOMAIN old => p \in DOMAIN new /\ new[p] = e
      BY DEF AddToEventLog, With, Without
    <3>2. p \in DOMAIN old /\ old[p] # e => p \notin DOMAIN new
      BY DEF AddToEventLog, With, Without
    <3>3. p \in DOMAIN old => old[p] \in {"join", "leave"}
      BY <2>3, LogShape
    <3> HIDE DEF n, new
    <3>4. CASE e = "join"
      BY <2>1, <2>2, <2>5, <3>1, <3>2, <3>3, <3>4 DEF InOrder, old
    <3>5. CASE e = "leave"
      BY <2>1, <2>2, <2>5, <3>1, <3>2, <3>3, <3>5 DEF InOrder, old
    <3> QED BY <3>4, <3>5
  <2> QED BY <2>4, <2>5
<1>7. ASSUME NEW h \in Handlers PROVE
        /\ handler[h] # "on" => n.log[h] = evtLog[h]
        /\ evtLogCh[h] => n.ch[h]
        /\ DOMAIN n.log[h] # {} => n.ch[h] \/ DOMAIN evtLog[h] # {}
  <2>1. /\ handler[h] # "on" => s.log[h] = evtLog[h]
        /\ evtLogCh[h] => s.ch[h]
        /\ DOMAIN s.log[h] # {} => s.ch[h] \/ DOMAIN evtLog[h] # {}
    BY <1>1 DEF Fit
  <2>2. /\ n.log[h] = IF h \in on THEN AddToEventLog(s.log[h], p, e) ELSE s.log[h]
        /\ n.ch[h] = (s.ch[h] \/ (h \in on /\ p \notin DOMAIN s.log[h]))
    BY <1>2
  <2>3. s.log[h] \in Logs
    BY <1>3
  <2>4. p \in DOMAIN s.log[h] => DOMAIN s.log[h] # {}
    OBVIOUS
  <2> HIDE DEF n
  <2>5. CASE h \in on
    BY <2>1, <2>2, <2>4, <2>5
  <2>6. CASE h \notin on
    BY <2>1, <2>2, <2>6
  <2> QED BY <2>5, <2>6
<1> HIDE DEF n
<1>8. Fit(n)
  BY <1>6, <1>7 DEF Fit
<1>9. n \in FitRecords
  BY <1>5, <1>8 DEF FitRecords
<1> QED BY <1>9 DEF n

LEMMA Dropped ==
    ASSUME EvtTyped, Attached, NEW s \in FitRecords, NEW p \in Members
    PROVE  DropPeer(s, p) \in FitRecords
<1>1. s.peers \in SUBSET Members
  BY DEF FitRecords, Records
<1>2. CASE p \in s.peers
  <2> DEFINE P == s.peers \ {p}
  <2>1. P \in SUBSET Members
    BY <1>1
  <2>2. DropPeer(s, p) = SendNotification([s EXCEPT !.peers = P], p, "leave")
    BY <1>2 DEF DropPeer
  <2>3. SendNotification([s EXCEPT !.peers = P], p, "leave") \in FitRecords
    <3>1. P = s.peers \ {p}
      OBVIOUS
    <3> HIDE DEF P
    <3> QED BY <1>2, <2>1, <3>1, Notified
  <2> QED BY <2>2, <2>3
<1>3. CASE p \notin s.peers
  BY <1>3 DEF DropPeer
<1> QED BY <1>2, <1>3

LEMMA Applied ==
    ASSUME EvtTyped, Attached, NEW s \in FitRecords, NEW p \in Members, NEW sub
    PROVE  ApplySub(s, p, sub) \in FitRecords
<1>1. s.peers \in SUBSET Members
  BY DEF FitRecords, Records
<1>2. CASE sub /\ p \notin s.peers
  <2> DEFINE P == s.peers \cup {p}
  <2>1. P \in SUBSET Members
    BY <1>1
  <2>2. ApplySub(s, p, sub) = SendNotification([s EXCEPT !.peers = P], p, "join")
    BY <1>2 DEF ApplySub
  <2>3. SendNotification([s EXCEPT !.peers = P], p, "join") \in FitRecords
    <3>1. P = s.peers \cup {p}
      OBVIOUS
    <3> HIDE DEF P
    <3> QED BY <1>2, <2>1, <3>1, Notified
  <2> QED BY <2>2, <2>3
<1>3. CASE ~ sub
  BY <1>3, Dropped DEF ApplySub
<1>4. CASE sub /\ p \in s.peers
  BY <1>4 DEF ApplySub
<1> QED BY <1>2, <1>3, <1>4

\* The loop over the subopts of an RPC goes through fit records only.
LEMMA LoopFit ==
    ASSUME EvtTyped, Attached, Current \in FitRecords, NEW p \in Members, NEW subopts,
           Len(subopts) \in Nat
    PROVE  ApplySubs(p, subopts) \in FitRecords
<1> DEFINE n    == Len(subopts)
           step == [x \in (1 .. n) \X FitRecords |-> ApplySub(x[2], p, subopts[x[1]])]
           Loop(g) == g = [i \in 0 .. n |-> IF i = 0 THEN Current
                                            ELSE ApplySub(g[i - 1], p, subopts[i])]
           F == CHOOSE g : Loop(g)
<1>1. ASSUME NEW x \in (1 .. n) \X FitRecords
      PROVE  ApplySub(x[2], p, subopts[x[1]]) \in FitRecords
  <2>1. x[2] \in FitRecords
    OBVIOUS
  <2> QED BY <2>1, Applied
<1>2. step \in [(1 .. n) \X FitRecords -> FitRecords]
  BY <1>1
<1>3. PICK g \in [0 .. n -> FitRecords] :
             g[0] = Current /\ \A i \in 1 .. n : g[i] = step[<<i, g[i - 1]>>]
  <2> HIDE DEF n, step
  <2>1. n \in Nat
    BY DEF n
  <2>2. \E g : IsLoop(g, n, FitRecords, Current, step)
    BY <1>2, <2>1, LoopExists
  <2> QED BY <2>2 DEF IsLoop
<1>4. ASSUME NEW i \in 1 .. n PROVE g[i] = ApplySub(g[i - 1], p, subopts[i])
  <2>1. i - 1 \in 0 .. n /\ g[i - 1] \in FitRecords
    BY <1>3
  <2>2. <<i, g[i - 1]>> \in (1 .. n) \X FitRecords
    BY <2>1
  <2> QED BY <1>3, <2>2
<1>5. Loop(g)
  <2>1. g = [i \in 0 .. n |-> g[i]]
    BY <1>3
  <2>2. \A i \in 0 .. n : g[i] = IF i = 0 THEN Current ELSE ApplySub(g[i - 1], p, subopts[i])
    BY <1>3, <1>4
  <2> HIDE DEF step, n
  <2> QED BY <2>1, <2>2
<1>6. Loop(F)
  <2> HIDE DEF Loop
  <2> QED BY <1>5
<1>7. ApplySubs(p, subopts) = F[n]
  BY DEF ApplySubs
<1> HIDE DEF F
<1>8. /\ F[0] = Current
      /\ \A i \in 1 .. n : F[i] = ApplySub(F[i - 1], p, subopts[i])
  <2>1. \A i \in 0 .. n : F[i] = IF i = 0 THEN Current ELSE ApplySub(F[i - 1], p, subopts[i])
    BY <1>6
  <2>2. 0 \in 0 .. n /\ \A i \in 1 .. n : i \in 0 .. n /\ i # 0
    OBVIOUS
  <2> HIDE DEF Loop, n
  <2> QED BY <2>1, <2>2
<1> HIDE DEF Loop, step, n
<1>9. F[0] \in FitRecords /\ \A i \in 1 .. n : F[i - 1] \in FitRecords => F[i] \in FitRecords
  BY <1>8, Applied
<1>10. F[n] \in FitRecords
  <2>1. n \in Nat
    BY DEF n
  <2> QED BY <1>9, <2>1, LoopEnds
<1> QED BY <1>7, <1>10

\* The filter leaves at most one subopt of a topic.
LEMMA Filtered ==
    ASSUME NEW subopts \in Seq(BOOLEAN)
    PROVE  Len(FilterSubscriptions(subopts)) \in Nat
<1> DEFINE n    == Len(subopts)
           S    == {<<>>} \cup {<<b>> : b \in BOOLEAN}
           Next1(acc, i) == IF acc = <<>> THEN <<subopts[i]>>
                            ELSE IF acc[1] # subopts[i] THEN <<>> ELSE acc
           step == [x \in (1 .. n) \X S |-> Next1(x[2], x[1])]
           Loop(g) == g = [i \in 0 .. n |->
                             IF i = 0 THEN <<>>
                             ELSE IF g[i - 1] = <<>> THEN <<subopts[i]>>
                             ELSE IF g[i - 1][1] # subopts[i] THEN <<>> ELSE g[i - 1]]
           F == CHOOSE g : Loop(g)
<1>0. n \in Nat /\ <<>> \in S
  OBVIOUS
<1>1. ASSUME NEW a \in S, NEW i \in 1 .. n PROVE Next1(a, i) \in S
  <2>1. subopts[i] \in BOOLEAN
    OBVIOUS
  <2> QED BY <2>1
<1>2. step \in [(1 .. n) \X S -> S]
  <2> HIDE DEF S, n, Next1
  <2> QED BY <1>1
<1>3. PICK g \in [0 .. n -> S] :
             g[0] = <<>> /\ \A i \in 1 .. n : g[i] = step[<<i, g[i - 1]>>]
  <2> HIDE DEF n, step, S
  <2>1. \E g : IsLoop(g, n, S, <<>>, step)
    BY <1>0, <1>2, LoopExists
  <2> QED BY <2>1 DEF IsLoop
<1>4. ASSUME NEW i \in 1 .. n PROVE g[i] = Next1(g[i - 1], i)
  <2> HIDE DEF S, n, Next1
  <2>1. i - 1 \in 0 .. n /\ g[i - 1] \in S
    BY <1>0, <1>3
  <2>2. <<i, g[i - 1]>> \in (1 .. n) \X S
    BY <2>1
  <2> QED BY <1>3, <2>2
<1>5. Loop(g)
  <2>1. g = [i \in 0 .. n |-> g[i]]
    BY <1>3
  <2>2. \A i \in 0 .. n : g[i] = IF i = 0 THEN <<>> ELSE Next1(g[i - 1], i)
    <3>1. g[0] = <<>> /\ \A i \in 0 .. n : i = 0 \/ i \in 1 .. n
      BY <1>0, <1>3
    <3> HIDE DEF n, Next1
    <3> QED BY <1>4, <3>1
  <2> HIDE DEF step, n, S
  <2> QED BY <2>1, <2>2
<1>6. Loop(F)
  <2> HIDE DEF Loop
  <2> QED BY <1>5
<1>7. FilterSubscriptions(subopts) = F[n]
  BY DEF FilterSubscriptions
<1> HIDE DEF F
<1>8. F[0] = <<>> /\ \A i \in 1 .. n : F[i] = Next1(F[i - 1], i)
  <2>1. \A i \in 0 .. n : F[i] = IF i = 0 THEN <<>> ELSE Next1(F[i - 1], i)
    BY <1>6
  <2>2. 0 \in 0 .. n /\ \A i \in 1 .. n : i \in 0 .. n /\ i # 0
    BY <1>0
  <2> HIDE DEF Loop, n, Next1
  <2> QED BY <2>1, <2>2
<1>9. F[0] \in S /\ \A i \in 1 .. n : F[i - 1] \in S => F[i] \in S
  <2> HIDE DEF Loop, step, n, S, Next1
  <2> QED BY <1>0, <1>1, <1>8
<1>10. F[n] \in S
  <2> HIDE DEF Loop, step, n, S, Next1
  <2> QED BY <1>0, <1>9, LoopEnds
<1>11. \A a \in S : Len(a) \in Nat
  OBVIOUS
<1> QED BY <1>7, <1>10, <1>11

-----------------------------------------------------------------------------
(* The steps.                                                              *)

LEMMA CurrentFit == EvtInv => Current \in FitRecords
<1> SUFFICES ASSUME EvtInv PROVE Current \in FitRecords
  OBVIOUS
<1>1. Current \in Records
  BY DEF EvtInv, EvtTyped, Records, Current
<1>2. \A h \in Handlers : handler[h] = "on" => \A p \in Members : InOrder(Current, h, p)
  BY DEF EvtInv, EventsInOrder, InOrder, Current
<1>3. Current.log = evtLog /\ Current.ch = evtLogCh
  BY DEF Current
<1>4. Fit(Current)
  BY <1>2, <1>3 DEF Fit
<1> QED BY <1>1, <1>4 DEF FitRecords

\* A handler of processLoop that leaves a fit record keeps the invariant.
LEMMA BecomesFit ==
    ASSUME EvtInv, NEW s \in FitRecords, Becomes(s), bundle' \in [Members -> Seq(BOOLEAN)],
           UNCHANGED <<known, handler, reader, told>>
    PROVE  EvtInv'
<1>1. s \in Records /\ Fit(s)
  BY DEF FitRecords
<1>2. topicPeers' = s.peers /\ evtLog' = s.log /\ evtLogCh' = s.ch
  BY DEF Becomes
<1>3. EvtTyped'
  BY <1>1, <1>2 DEF EvtInv, EvtTyped, Records
<1>4. Attached'
  BY DEF EvtInv, Attached
<1>5. EventsInOrder'
  <2> SUFFICES ASSUME NEW h \in Handlers, handler[h] = "on", NEW p \in Members
               PROVE  IF p \in DOMAIN evtLog'[h]
                      THEN (evtLog'[h][p] = "join") = (p \in topicPeers') /\ (p \in topicPeers') # (p \in told[h])
                      ELSE (p \in topicPeers') = (p \in told[h])
    BY DEF EventsInOrder
  <2>1. InOrder(s, h, p)
    BY <1>1 DEF Fit
  <2> QED BY <1>2, <2>1 DEF InOrder
<1>6. WakeupPending'
  <2> SUFFICES ASSUME NEW h \in Handlers, DOMAIN evtLog'[h] # {},
                      \E r \in Readers : reader[h][r] = "waiting",
                      ~ evtLogCh'[h]
               PROVE  \E r \in Readers : reader[h][r] = "pulling"
    BY DEF WakeupPending
  <2>1. ~ evtLogCh[h] /\ DOMAIN evtLog[h] # {}
    BY <1>1, <1>2 DEF Fit
  <2> QED BY <2>1 DEF EvtInv, WakeupPending
<1> QED BY <1>3, <1>4, <1>5, <1>6 DEF EvtInv

LEMMA EvtRPC ==
    ASSUME EvtInv, NEW p \in Members, PeerToggles(p) \/ HandleIncomingRPC(p) \/ ClearPeerFromTopicsState(p)
    PROVE  EvtInv'
<1>0. EvtTyped /\ Attached /\ bundle \in [Members -> Seq(BOOLEAN)]
  BY DEF EvtInv, EvtTyped
<1>1. Current \in FitRecords
  BY CurrentFit
<1>2. ASSUME UNCHANGED <<topicPeers, logVars>> PROVE Becomes(Current)
  BY <1>2 DEF Becomes, Current, logVars
<1>3. CASE PeerToggles(p)
  <2>1. bundle' \in [Members -> Seq(BOOLEAN)]
    BY <1>0, <1>3 DEF PeerToggles
  <2>2. UNCHANGED <<topicPeers, logVars>> /\ UNCHANGED <<known, handler, reader, told>>
    BY <1>3 DEF PeerToggles
  <2> QED BY <1>1, <1>2, <2>1, <2>2, BecomesFit
<1>4. CASE HandleIncomingRPC(p)
  <2>1. bundle' \in [Members -> Seq(BOOLEAN)]
    BY <1>0, <1>4 DEF HandleIncomingRPC
  <2>2. UNCHANGED <<known, handler, reader, told>>
    BY <1>4 DEF HandleIncomingRPC
  <2> DEFINE subopts == IF filtered THEN FilterSubscriptions(bundle[p]) ELSE bundle[p]
  <2>3. Len(subopts) \in Nat
    <3>1. bundle[p] \in Seq(BOOLEAN)
      BY <1>0
    <3>2. Len(bundle[p]) \in Nat /\ Len(FilterSubscriptions(bundle[p])) \in Nat
      BY <3>1, Filtered
    <3> QED BY <3>2
  <2>4. UNCHANGED <<topicPeers, logVars>> \/ Becomes(ApplySubs(p, subopts))
    BY <1>4 DEF HandleIncomingRPC
  <2> HIDE DEF subopts
  <2>5. ApplySubs(p, subopts) \in FitRecords
    BY <1>0, <1>1, <2>3, LoopFit
  <2> QED BY <1>1, <1>2, <2>1, <2>2, <2>4, <2>5, BecomesFit
<1>5. CASE ClearPeerFromTopicsState(p)
  <2>1. bundle' \in [Members -> Seq(BOOLEAN)]
    <3>1. PICK b : b = IF p \in wants THEN <<TRUE>> ELSE <<>>
      OBVIOUS
    <3>2. <<TRUE>> \in Seq(BOOLEAN) /\ <<>> \in Seq(BOOLEAN)
      OBVIOUS
    <3>3. b \in Seq(BOOLEAN)
      BY <3>1, <3>2
    <3>4. bundle' = [bundle EXCEPT ![p] = b]
      BY <1>5, <3>1 DEF ClearPeerFromTopicsState
    <3> QED BY <1>0, <3>3, <3>4
  <2>2. Becomes(DropPeer(Current, p)) /\ UNCHANGED <<known, handler, reader, told>>
    BY <1>5 DEF ClearPeerFromTopicsState
  <2>3. DropPeer(Current, p) \in FitRecords
    BY <1>0, <1>1, Dropped
  <2> QED BY <2>1, <2>2, <2>3, BecomesFit
<1> QED BY <1>3, <1>4, <1>5

LEMMA EvtHandle ==
    ASSUME EvtInv, JoinTopic \/ CloseTopic \/ \E h \in Handlers : EventHandler(h) \/ CancelHandler(h)
    PROVE  EvtInv'
<1>1. CASE JoinTopic \/ CloseTopic
  BY <1>1 DEF EvtInv, EvtTyped, Attached, EventsInOrder, WakeupPending, JoinTopic, CloseTopic,
              memberVars, logVars
<1>2. ASSUME NEW h \in Handlers, EventHandler(h) PROVE EvtInv'
  <2>1. /\ handler' = [handler EXCEPT ![h] = "on"]
        /\ evtLog' = [evtLog EXCEPT ![h] = [p \in topicPeers |-> "join"]]
        /\ known /\ handler[h] = "none"
        /\ UNCHANGED <<known, topicPeers, bundle, evtLogCh, reader, told>>
    BY <1>2 DEF EventHandler, memberVars
  <2>2. told[h] = {} /\ \A r \in Readers : reader[h][r] = "idle"
    BY <2>1 DEF EvtInv, Attached
  <2>3. EvtTyped'
    <3>1. [p \in topicPeers |-> "join"] \in Logs
      <4>1. topicPeers \in SUBSET Members /\ [p \in topicPeers |-> "join"] \in [topicPeers -> {"join", "leave"}]
        BY DEF EvtInv, EvtTyped
      <4> QED BY <4>1, LogIn
    <3>2. evtLog' \in [Handlers -> Logs] /\ handler' \in [Handlers -> {"none", "on", "off"}]
      BY <2>1, <3>1 DEF EvtInv, EvtTyped
    <3> QED BY <2>1, <3>2 DEF EvtInv, EvtTyped
  <2>4. Attached'
    BY <2>1 DEF EvtInv, EvtTyped, Attached
  <2>5. EventsInOrder'
    BY <2>1, <2>2 DEF EvtInv, EvtTyped, EventsInOrder
  <2>6. WakeupPending'
    BY <2>1, <2>2 DEF EvtInv, EvtTyped, WakeupPending
  <2> QED BY <2>3, <2>4, <2>5, <2>6 DEF EvtInv
<1>3. ASSUME NEW h \in Handlers, CancelHandler(h) PROVE EvtInv'
  <2>1. /\ handler' = [handler EXCEPT ![h] = "off"] /\ handler[h] = "on"
        /\ UNCHANGED <<known, topicPeers, bundle, evtLog, evtLogCh, reader, told>>
    BY <1>3 DEF CancelHandler, memberVars, logVars
  <2> QED BY <2>1 DEF EvtInv, EvtTyped, Attached, EventsInOrder, WakeupPending
<1> QED BY <1>1, <1>2, <1>3

LEMMA EvtRead ==
    ASSUME EvtInv, NEW h \in Handlers, NEW r \in Readers,
           \/ NextPeerEvent(h, r) \/ PullFromEventLog(h, r) \/ FindsLogEmpty(h, r)
           \/ GetsSignal(h, r) \/ ContextDone(h, r)
    PROVE  EvtInv'
<1>0. EvtTyped /\ Attached /\ EventsInOrder /\ WakeupPending
  BY DEF EvtInv
<1>1. CASE NextPeerEvent(h, r)
  <2>1. /\ handler[h] # "none" /\ reader' = [reader EXCEPT ![h][r] = "pulling"]
        /\ UNCHANGED <<known, topicPeers, bundle, handler, evtLog, evtLogCh, told>>
    BY <1>1 DEF NextPeerEvent, memberVars, logVars
  <2>2. EvtTyped' /\ Attached' /\ EventsInOrder'
    BY <1>0, <2>1 DEF EvtTyped, Attached, EventsInOrder
  <2>3. WakeupPending'
    BY <1>0, <2>1 DEF EvtTyped, WakeupPending
  <2> QED BY <2>2, <2>3 DEF EvtInv
<1>2. CASE PullFromEventLog(h, r)
  <2>1. PICK p \in DOMAIN evtLog[h] :
          /\ told' = [told EXCEPT ![h] = IF evtLog[h][p] = "join" THEN @ \cup {p} ELSE @ \ {p}]
          /\ evtLog' = [evtLog EXCEPT ![h] = Without(@, p)]
          /\ evtLogCh' = [evtLogCh EXCEPT ![h] = SignalRest(h, p)]
    BY <1>2 DEF PullFromEventLog
  <2>2. /\ reader[h][r] = "pulling" /\ reader' = [reader EXCEPT ![h][r] = "idle"]
        /\ UNCHANGED <<known, topicPeers, bundle, handler>>
    BY <1>2 DEF PullFromEventLog, memberVars
  <2>3. /\ evtLog[h] \in Logs /\ p \in Members /\ evtLog[h][p] \in {"join", "leave"}
        /\ DOMAIN evtLog[h] \in SUBSET Members
    BY <1>0, <2>1, LogShape DEF EvtTyped
  <2>4. Without(evtLog[h], p) \in Logs
    <3>1. Without(evtLog[h], p) \in [DOMAIN evtLog[h] \ {p} -> {"join", "leave"}]
      BY <2>3, LogShape DEF Without
    <3> QED BY <2>3, <3>1, LogIn
  <2>5. SignalRest(h, p) \in BOOLEAN
    BY <1>0 DEF EvtTyped, SignalRest
  <2>6. EvtTyped'
    BY <1>0, <2>1, <2>2, <2>3, <2>4, <2>5 DEF EvtTyped
  <2>7. Attached'
    BY <1>0, <2>1, <2>2 DEF EvtTyped, Attached
  <2>8. EventsInOrder'
    <3> SUFFICES ASSUME NEW k \in Handlers, handler[k] = "on", NEW q \in Members
                 PROVE  IF q \in DOMAIN evtLog'[k]
                        THEN (evtLog'[k][q] = "join") = (q \in topicPeers) /\ (q \in topicPeers) # (q \in told'[k])
                        ELSE (q \in topicPeers) = (q \in told'[k])
      BY <2>2 DEF EventsInOrder
    <3>1. IF q \in DOMAIN evtLog[k]
          THEN (evtLog[k][q] = "join") = (q \in topicPeers) /\ (q \in topicPeers) # (q \in told[k])
          ELSE (q \in topicPeers) = (q \in told[k])
      BY <1>0 DEF EventsInOrder
    <3>2. CASE k # h
      BY <1>0, <2>1, <3>1, <3>2 DEF EvtTyped
    <3>3. CASE k = h
      <4>1. told'[h] = IF evtLog[h][p] = "join" THEN told[h] \cup {p} ELSE told[h] \ {p}
        BY <1>0, <2>1 DEF EvtTyped
      <4>2. evtLog'[h] = [y \in DOMAIN evtLog[h] \ {p} |-> evtLog[h][y]]
        BY <1>0, <2>1 DEF EvtTyped, Without
      <4> QED BY <2>1, <2>3, <3>1, <3>3, <4>1, <4>2
    <3> QED BY <3>2, <3>3
  <2>9. WakeupPending'
    <3> SUFFICES ASSUME NEW k \in Handlers, DOMAIN evtLog'[k] # {},
                        \E x \in Readers : reader'[k][x] = "waiting"
                 PROVE  evtLogCh'[k] \/ \E x \in Readers : reader'[k][x] = "pulling"
      BY DEF WakeupPending
    <3>1. CASE k # h
      BY <1>0, <2>1, <2>2, <3>1 DEF EvtTyped, WakeupPending
    <3>2. CASE k = h
      <4>1. evtLog'[h] = [y \in DOMAIN evtLog[h] \ {p} |-> evtLog[h][y]]
        BY <1>0, <2>1 DEF EvtTyped, Without
      <4>2. DOMAIN evtLog[h] # {p}
        BY <3>2, <4>1
      <4>3. evtLogCh'[h] = SignalRest(h, p)
        BY <1>0, <2>1 DEF EvtTyped
      <4> QED BY <3>2, <4>2, <4>3 DEF SignalRest
    <3> QED BY <3>1, <3>2
  <2> QED BY <2>6, <2>7, <2>8, <2>9 DEF EvtInv
<1>3. CASE FindsLogEmpty(h, r)
  <2>1. /\ reader[h][r] = "pulling" /\ DOMAIN evtLog[h] = {}
        /\ reader' = [reader EXCEPT ![h][r] = "waiting"]
        /\ UNCHANGED <<known, topicPeers, bundle, handler, evtLog, evtLogCh, told>>
    BY <1>3 DEF FindsLogEmpty, memberVars, logVars
  <2>2. EvtTyped' /\ Attached' /\ EventsInOrder'
    BY <1>0, <2>1 DEF EvtTyped, Attached, EventsInOrder
  <2>3. WakeupPending'
    BY <1>0, <2>1 DEF EvtTyped, WakeupPending
  <2> QED BY <2>2, <2>3 DEF EvtInv
<1>4. CASE GetsSignal(h, r)
  <2>1. /\ reader[h][r] = "waiting"
        /\ evtLogCh' = [evtLogCh EXCEPT ![h] = FALSE]
        /\ reader' = [reader EXCEPT ![h][r] = "pulling"]
        /\ UNCHANGED <<known, topicPeers, bundle, handler, evtLog, told>>
    BY <1>4 DEF GetsSignal, memberVars
  <2>2. EvtTyped' /\ Attached' /\ EventsInOrder'
    BY <1>0, <2>1 DEF EvtTyped, Attached, EventsInOrder
  <2>3. WakeupPending'
    BY <1>0, <2>1 DEF EvtTyped, WakeupPending
  <2> QED BY <2>2, <2>3 DEF EvtInv
<1>5. CASE ContextDone(h, r)
  <2>1. /\ reader[h][r] = "waiting" /\ reader' = [reader EXCEPT ![h][r] = "idle"]
        /\ UNCHANGED <<known, topicPeers, bundle, handler, evtLog, evtLogCh, told>>
    BY <1>5 DEF ContextDone, memberVars, logVars
  <2>2. EvtTyped' /\ Attached' /\ EventsInOrder'
    BY <1>0, <2>1 DEF EvtTyped, Attached, EventsInOrder
  <2>3. WakeupPending'
    BY <1>0, <2>1 DEF EvtTyped, WakeupPending
  <2> QED BY <2>2, <2>3 DEF EvtInv
<1> QED BY <1>1, <1>2, <1>3, <1>4, <1>5

LEMMA EvtInitInv == EvtInit => EvtInv
<1> SUFFICES ASSUME EvtInit PROVE EvtInv
  OBVIOUS
<1>1. << >> \in Logs
  <2>1. {} \in SUBSET Members /\ << >> \in [{} -> {"join", "leave"}]
    OBVIOUS
  <2> QED BY <2>1, LogIn
<1>2. EvtTyped
  BY <1>1 DEF EvtInit, EvtTyped
<1>3. Attached /\ EventsInOrder /\ WakeupPending
  BY DEF EvtInit, Attached, EventsInOrder, WakeupPending
<1> QED BY <1>2, <1>3 DEF EvtInv

LEMMA EvtInvariant == EvtSpec => []EvtInv
<1>1. EvtInv /\ [EvtNext]_evtVars => EvtInv'
  <2> SUFFICES ASSUME EvtInv, [EvtNext]_evtVars PROVE EvtInv'
    OBVIOUS
  <2>1. CASE UNCHANGED evtVars
    BY <2>1 DEF EvtInv, EvtTyped, Attached, EventsInOrder, WakeupPending, evtVars
  <2> QED BY <2>1, EvtRPC, EvtHandle, EvtRead DEF EvtNext
<1> QED BY <1>1, EvtInitInv, PTL DEF EvtSpec

\* sendNotification, addToEventLog and NextPeerEvent: what a handler returned and what is
\* in its log add up to who subscribes, for any number of peers, handlers and readers.
THEOREM EventsInOrderHolds == EvtSpec => []EventsInOrder
<1>1. EvtInv => EventsInOrder
  BY DEF EvtInv
<1> QED BY <1>1, EvtInvariant, PTL

\* NextPeerEvent: while a reader waits on a log that is not empty, there is a signal or
\* another reader that looks.
THEOREM WakeupPendingHolds == EvtSpec => []WakeupPending
<1>1. EvtInv => WakeupPending
  BY DEF EvtInv
<1> QED BY <1>1, EvtInvariant, PTL
=============================================================================
