--------------------------- MODULE Streams_proofs ---------------------------
(***************************************************************************)
(* Proofs about InboundStreams, for any number of streams, any capacity of *)
(* the channel and any number of RPCs, and about PeerLifecycle, for any    *)
(* number of notices and respawns.                                         *)
(***************************************************************************)
EXTENDS InboundStreams, PeerLifecycle, TLAPS

-----------------------------------------------------------------------------
(* Inbound streams.                                                        *)

\* After a shutdown processLoop handles nothing any more, and neither property says
\* anything.  The invariant is therefore about the time before it, when handlers only
\* leave after they were announced.
InboundSpec == InboundInit /\ [][InboundNext]_inboundVars

Waiting   == {"replace", "await", "announce"}
Announced == {"read", "send", "leave", "notify", "finish", "exited"}
Reported  == {"finish", "exited"}
Labels    == {"unopened", "register"} \cup Waiting \cup Announced

Kinds  == {"new", "rpc", "closed"}
Events == [kind : Kinds, s : Streams] \cup [kind : Kinds, s : Streams, sub : BOOLEAN]

Typed ==
    /\ pc \in [Streams -> Labels]
    /\ entry \in Streams \cup {None}
    /\ prev \in [Streams -> Streams \cup {None}]
    /\ hand \in [Streams -> BOOLEAN]
    /\ incoming \in Seq(Events)
    /\ open \subseteq Streams
    /\ sentNew \subseteq Streams /\ done \subseteq Streams
    /\ ctxDone \in BOOLEAN

\* A handler goes on to be announced when the one it replaces is done, and is
\* registered until it unregisters itself or is replaced.
Handlers ==
    /\ \A s \in Streams : s \in sentNew <=> pc[s] \in Announced
    /\ \A s \in Streams : s \in done <=> pc[s] = "exited"
    /\ \A s \in Streams : pc[s] \in Announced \cup {"announce"} => prev[s] = None \/ prev[s] \in done
    /\ entry # None => pc[entry] \in Waiting \cup {"read", "send", "leave"}

\* There is an event of kind k for stream s at place i of the channel.
At(i, k, s) == incoming[i].kind = k /\ incoming[i].s = s
Places == 1 .. Len(incoming)

\* The events of a stream are in order, the end last, and those of a stream that was
\* replaced come before those of its successor.
Ordered ==
    \A i \in Places :
        /\ incoming[i].s \in sentNew
        /\ incoming[i].kind = "closed" =>
              /\ pc[incoming[i].s] \in Reported
              /\ \A j \in Places : incoming[j].s = incoming[i].s => j <= i
        /\ incoming[i].kind = "rpc" =>
              incoming[i].s \in open \/ \E j \in Places : j < i /\ At(j, "new", incoming[i].s)
        /\ incoming[i].kind = "new" /\ pc[incoming[i].s] \in Reported =>
              \E j \in Places : i < j /\ At(j, "closed", incoming[i].s)
        /\ \A j \in Places : prev[incoming[j].s] = incoming[i].s => i < j

\* The end of a stream that processLoop knows of is in the channel as soon as the
\* handler has reported it, and nothing of the stream it replaced is left.
Known ==
    \A s \in open :
        /\ s \in sentNew
        /\ pc[s] \in Reported => \E i \in Places : At(i, "closed", s)
        /\ prev[s] \notin open
        /\ \A i \in Places : incoming[i].s # prev[s]

\* processLoop knows of a stream that was announced, or will learn of it.
Introduced ==
    \A s \in sentNew : pc[s] \notin Reported => s \in open \/ \E i \in Places : At(i, "new", s)

Subscriber == subscribed => open # {}

Running == Handlers /\ Ordered /\ Known /\ Introduced /\ Subscriber
IInv == Typed /\ (~ ctxDone => Running)

-----------------------------------------------------------------------------
LEMMA AppendFacts ==
    ASSUME NEW S, NEW q \in Seq(S), NEW e \in S
    PROVE  /\ Append(q, e) \in Seq(S) /\ Len(Append(q, e)) = Len(q) + 1 /\ Len(q) \in Nat
           /\ \A i \in 1 .. Len(q) : Append(q, e)[i] = q[i]
           /\ Append(q, e)[Len(q) + 1] = e
OBVIOUS

LEMMA TailFacts ==
    ASSUME NEW S, NEW q \in Seq(S), q # <<>>
    PROVE  /\ Tail(q) \in Seq(S) /\ Len(q) \in Nat \ {0} /\ Len(Tail(q)) = Len(q) - 1
           /\ \A i \in 1 .. Len(q) - 1 : Tail(q)[i] = q[i + 1]
           /\ Head(q) = q[1]
<1>1. Len(q) \in Nat \ {0}
  OBVIOUS
<1>2. Tail(q) \in Seq(S) /\ Len(Tail(q)) = Len(q) - 1
  OBVIOUS
<1>3. \A i \in 1 .. Len(q) - 1 : Tail(q)[i] = q[i + 1]
  OBVIOUS
<1> QED BY <1>1, <1>2, <1>3

LEMMA EventFields ==
    ASSUME NEW e \in Events PROVE e.kind \in Kinds /\ e.s \in Streams
BY DEF Events

LEMMA InboundInitInv == InboundInit => IInv
<1> SUFFICES ASSUME InboundInit PROVE IInv
  OBVIOUS
<1>1. Typed
  <2>1. /\ pc \in [Streams -> Labels]
        /\ entry \in Streams \cup {None}
        /\ prev \in [Streams -> Streams \cup {None}]
    BY DEF InboundInit, Labels
  <2>2. hand \in [Streams -> BOOLEAN] /\ ctxDone \in BOOLEAN
    BY DEF InboundInit
  <2>3. incoming \in Seq(Events) /\ open = {} /\ sentNew = {} /\ done = {}
    BY DEF InboundInit
  <2> QED BY <2>1, <2>2, <2>3 DEF Typed
<1>2. Handlers
  BY StreamAssumption DEF InboundInit, Handlers, Announced
<1>3. Ordered
  BY DEF InboundInit, Ordered, Places
<1>4. Known /\ Introduced /\ Subscriber
  BY DEF InboundInit, Known, Introduced, Subscriber
<1> QED BY <1>1, <1>2, <1>3, <1>4 DEF IInv, Running

\* Steps of a handler that neither send nor are seen by processLoop
LEMMA QuietStep ==
    ASSUME Typed, Ordered, Known, Introduced, Subscriber,
           incoming' = incoming, open' = open, subscribed' = subscribed, sentNew' = sentNew,
           \A s \in sentNew : prev'[s] = prev[s],
           \A s \in Streams : pc'[s] \in Reported <=> pc[s] \in Reported
    PROVE  Ordered' /\ Known' /\ Introduced' /\ Subscriber'
<1>1. Places' = Places /\ \A i \in Places : incoming[i] \in Events
  BY DEF Typed, Places
<1>2. \A i \in Places : incoming[i].s \in Streams
  BY <1>1, EventFields
<1>3. ASSUME NEW i \in Places
      PROVE  /\ incoming'[i].s \in sentNew'
             /\ incoming'[i].kind = "closed" =>
                   /\ pc'[incoming'[i].s] \in Reported
                   /\ \A j \in Places' : incoming'[j].s = incoming'[i].s => j <= i
             /\ incoming'[i].kind = "rpc" =>
                   incoming'[i].s \in open' \/ \E j \in Places' : j < i /\ At(j, "new", incoming[i].s)'
             /\ incoming'[i].kind = "new" /\ pc'[incoming'[i].s] \in Reported =>
                   \E j \in Places' : i < j /\ At(j, "closed", incoming[i].s)'
             /\ \A j \in Places' : prev'[incoming'[j].s] = incoming'[i].s => i < j
  BY <1>1, <1>2, <1>3 DEF Ordered, At
<1>4. Ordered'
  BY <1>1, <1>3 DEF Ordered
<1>5. Known'
  BY <1>1, <1>2 DEF Known, At, Typed
<1>6. Introduced'
  BY <1>1, <1>2 DEF Introduced, At, Typed
<1> QED BY <1>4, <1>5, <1>6 DEF Subscriber

\* The part of the state that no handler shares with another: where it is.
LEMMA GotoTyped ==
    ASSUME Typed, NEW s \in Streams, NEW label \in Labels, Goto(s, label)
    PROVE  /\ pc' \in [Streams -> Labels]
           /\ pc'[s] = label /\ \A t \in Streams \ {s} : pc'[t] = pc[t]
BY DEF Typed, Goto

LEMMA LabelSets ==
    /\ Labels = {"unopened", "register", "replace", "await", "announce",
                 "read", "send", "leave", "notify", "finish", "exited"}
    /\ Announced = {"read", "send", "leave", "notify", "finish", "exited"}
    /\ Reported = {"finish", "exited"} /\ Waiting = {"replace", "await", "announce"}
BY DEF Labels, Announced, Reported, Waiting

LEMMA OpenInv ==
    ASSUME IInv, NEW s \in Streams, Open(s) PROVE IInv'
<1>1. pc[s] = "unopened" /\ Goto(s, "register")
      /\ UNCHANGED <<entry, prev, done, sentNew, hand, incoming, ctxDone, open, subscribed>>
  BY DEF Open
<1>2. Typed /\ (~ ctxDone => Running)
  BY DEF IInv
<1>3. pc' \in [Streams -> Labels] /\ pc'[s] = "register" /\ \A t \in Streams \ {s} : pc'[t] = pc[t]
  BY <1>1, <1>2, GotoTyped, LabelSets
<1>4. Typed'
  BY <1>1, <1>2, <1>3 DEF Typed
<1>5. ASSUME ~ ctxDone' PROVE Running'
  <2>1. Handlers /\ Ordered /\ Known /\ Introduced /\ Subscriber
    BY <1>1, <1>2, <1>5 DEF Running
  <2>2. Handlers'
    BY <1>1, <1>2, <1>3, <2>1, LabelSets DEF Handlers, Typed
  <2>3. \A t \in Streams : pc'[t] \in Reported <=> pc[t] \in Reported
    BY <1>1, <1>3, LabelSets
  <2>4. Ordered' /\ Known' /\ Introduced' /\ Subscriber'
    BY <1>1, <1>2, <2>1, <2>3, QuietStep
  <2> QED BY <2>2, <2>4 DEF Running
<1> QED BY <1>4, <1>5 DEF IInv

LEMMA RegisterInv ==
    ASSUME IInv, NEW s \in Streams, Register(s) PROVE IInv'
<1> DEFINE label == IF entry = None THEN "announce" ELSE "replace"
<1>1. pc[s] = "register" /\ Goto(s, label) /\ prev' = [prev EXCEPT ![s] = entry] /\ entry' = s
      /\ UNCHANGED <<done, sentNew, hand, incoming, ctxDone, open, subscribed>>
  BY DEF Register
<1>2. Typed /\ (~ ctxDone => Running)
  BY DEF IInv
<1>3. label \in {"announce", "replace"} /\ (label = "announce" => entry = None)
  OBVIOUS
<1> HIDE DEF label
<1>4. pc' \in [Streams -> Labels] /\ pc'[s] = label /\ \A t \in Streams \ {s} : pc'[t] = pc[t]
  BY <1>1, <1>2, <1>3, GotoTyped, LabelSets
<1>5. Typed'
  BY <1>1, <1>2, <1>4 DEF Typed
<1>6. ASSUME ~ ctxDone' PROVE Running'
  <2>1. Handlers /\ Ordered /\ Known /\ Introduced /\ Subscriber
    BY <1>1, <1>2, <1>6 DEF Running
  <2>2. s \notin sentNew
    BY <1>1, <2>1, LabelSets DEF Handlers
  <2>3. Handlers'
    BY <1>1, <1>2, <1>3, <1>4, <2>1, LabelSets DEF Handlers, Typed
  <2>4. \A t \in Streams : pc'[t] \in Reported <=> pc[t] \in Reported
    BY <1>1, <1>3, <1>4, LabelSets
  <2>5. \A t \in sentNew : prev'[t] = prev[t]
    BY <1>1, <1>2, <2>2 DEF Typed
  <2>6. Ordered' /\ Known' /\ Introduced' /\ Subscriber'
    BY <1>1, <1>2, <2>1, <2>4, <2>5, QuietStep
  <2> QED BY <2>3, <2>6 DEF Running
<1> QED BY <1>5, <1>6 DEF IInv

LEMMA AwaitInv ==
    ASSUME IInv, NEW s \in Streams, ResetPrev(s) \/ AwaitPrev(s) PROVE IInv'
<1>1. PICK label \in {"await", "announce", "leave"} :
         /\ pc[s] \in {"replace", "await"} /\ Goto(s, label)
         /\ label = "announce" => prev[s] \in done
         /\ label = "leave" => ctxDone
  BY DEF ResetPrev, AwaitPrev, PrevEnded
<1>2. UNCHANGED <<entry, prev, done, sentNew, hand, incoming, ctxDone, open, subscribed>>
  BY DEF ResetPrev, AwaitPrev
<1>3. Typed /\ (~ ctxDone => Running)
  BY DEF IInv
<1>4. pc' \in [Streams -> Labels] /\ pc'[s] = label /\ \A t \in Streams \ {s} : pc'[t] = pc[t]
  BY <1>1, <1>3, GotoTyped, LabelSets
<1>5. Typed'
  BY <1>2, <1>3, <1>4 DEF Typed
<1>6. ASSUME ~ ctxDone' PROVE Running'
  <2>1. Handlers /\ Ordered /\ Known /\ Introduced /\ Subscriber
    BY <1>2, <1>3, <1>6 DEF Running
  <2>2. label \in {"await", "announce"}
    BY <1>1, <1>2, <1>6
  <2>3. Handlers'
    BY <1>1, <1>2, <1>3, <1>4, <2>1, <2>2, LabelSets DEF Handlers, Typed
  <2>4. \A t \in Streams : pc'[t] \in Reported <=> pc[t] \in Reported
    BY <1>1, <1>4, <2>2, LabelSets
  <2>5. Ordered' /\ Known' /\ Introduced' /\ Subscriber'
    BY <1>2, <1>3, <2>1, <2>4, QuietStep
  <2> QED BY <2>3, <2>5 DEF Running
<1> QED BY <1>5, <1>6 DEF IInv

\* Steps of an announced handler that neither send nor report
LEMMA ReadInv ==
    ASSUME IInv, NEW s \in Streams, NEW sub \in BOOLEAN,
           ReadRPC(s, sub) \/ ReadError(s) \/ RemoteClose(s)
    PROVE IInv'
<1>1. PICK label \in {"send", "leave"} : pc[s] = "read" /\ Goto(s, label)
  BY DEF ReadRPC, ReadError, RemoteClose
<1>2. UNCHANGED <<entry, prev, done, sentNew, incoming, ctxDone, open, subscribed>>
  BY DEF ReadRPC, ReadError, RemoteClose
<1>3. Typed /\ (~ ctxDone => Running)
  BY DEF IInv
<1>4. hand' \in [Streams -> BOOLEAN]
  <2>1. hand \in [Streams -> BOOLEAN]
    BY <1>3 DEF Typed
  <2>2. hand' = hand \/ hand' = [hand EXCEPT ![s] = sub]
    BY DEF ReadRPC, ReadError, RemoteClose
  <2> QED BY <2>1, <2>2, Zenon
<1>5. pc' \in [Streams -> Labels] /\ pc'[s] = label /\ \A t \in Streams \ {s} : pc'[t] = pc[t]
  BY <1>1, <1>3, GotoTyped, LabelSets
<1>6. Typed'
  BY <1>2, <1>3, <1>4, <1>5 DEF Typed
<1>7. ASSUME ~ ctxDone' PROVE Running'
  <2>1. Handlers /\ Ordered /\ Known /\ Introduced /\ Subscriber
    BY <1>2, <1>3, <1>7 DEF Running
  <2>2. Handlers'
    BY <1>1, <1>2, <1>3, <1>5, <2>1, LabelSets DEF Handlers, Typed
  <2>3. \A t \in Streams : pc'[t] \in Reported <=> pc[t] \in Reported
    BY <1>1, <1>5, LabelSets
  <2>4. Ordered' /\ Known' /\ Introduced' /\ Subscriber'
    BY <1>2, <1>3, <2>1, <2>3, QuietStep
  <2> QED BY <2>2, <2>4 DEF Running
<1> QED BY <1>6, <1>7 DEF IInv

\* Before a shutdown a handler that unregisters was announced, and has to report.
LEMMA UnregisterInv ==
    ASSUME IInv, NEW s \in Streams, Unregister(s) PROVE IInv'
<1> DEFINE label == IF s \in sentNew THEN "notify" ELSE "finish"
<1>1. pc[s] = "leave" /\ Goto(s, label) /\ entry' = EntryAfterLeaving(s)
      /\ UNCHANGED <<prev, done, sentNew, hand, incoming, ctxDone, open, subscribed>>
  BY DEF Unregister
<1>2. Typed /\ (~ ctxDone => Running)
  BY DEF IInv
<1>3. label \in {"notify", "finish"} /\ (s \in sentNew => label = "notify")
  OBVIOUS
<1> HIDE DEF label
<1>4. pc' \in [Streams -> Labels] /\ pc'[s] = label /\ \A t \in Streams \ {s} : pc'[t] = pc[t]
  BY <1>1, <1>2, <1>3, GotoTyped, LabelSets
<1>5. entry' # s /\ (entry' = None \/ entry' = entry)
  BY <1>1, StreamAssumption DEF EntryAfterLeaving
<1>6. Typed'
  BY <1>1, <1>2, <1>4, <1>5 DEF Typed
<1>7. ASSUME ~ ctxDone' PROVE Running'
  <2>1. Handlers /\ Ordered /\ Known /\ Introduced /\ Subscriber
    BY <1>1, <1>2, <1>7 DEF Running
  <2>2. label = "notify"
    BY <1>1, <1>3, <2>1, LabelSets DEF Handlers
  <2>3. Handlers'
    BY <1>1, <1>2, <1>4, <1>5, <2>1, <2>2, LabelSets DEF Handlers, Typed
  <2>4. \A t \in Streams : pc'[t] \in Reported <=> pc[t] \in Reported
    BY <1>1, <1>4, <2>2, LabelSets
  <2>5. Ordered' /\ Known' /\ Introduced' /\ Subscriber'
    BY <1>1, <1>2, <2>1, <2>4, QuietStep
  <2> QED BY <2>3, <2>5 DEF Running
<1> QED BY <1>6, <1>7 DEF IInv

LEMMA CloseDoneInv ==
    ASSUME IInv, NEW s \in Streams, CloseDone(s) PROVE IInv'
<1>1. pc[s] = "finish" /\ Goto(s, "exited") /\ done' = done \cup {s}
      /\ UNCHANGED <<entry, prev, sentNew, hand, incoming, ctxDone, open, subscribed>>
  BY DEF CloseDone
<1>2. Typed /\ (~ ctxDone => Running)
  BY DEF IInv
<1>3. pc' \in [Streams -> Labels] /\ pc'[s] = "exited" /\ \A t \in Streams \ {s} : pc'[t] = pc[t]
  BY <1>1, <1>2, GotoTyped, LabelSets
<1>4. Typed'
  BY <1>1, <1>2, <1>3 DEF Typed
<1>5. ASSUME ~ ctxDone' PROVE Running'
  <2>1. Handlers /\ Ordered /\ Known /\ Introduced /\ Subscriber
    BY <1>1, <1>2, <1>5 DEF Running
  <2>2. Handlers'
    BY <1>1, <1>2, <1>3, <2>1, LabelSets DEF Handlers, Typed
  <2>3. \A t \in Streams : pc'[t] \in Reported <=> pc[t] \in Reported
    BY <1>1, <1>3, LabelSets
  <2>4. Ordered' /\ Known' /\ Introduced' /\ Subscriber'
    BY <1>1, <1>2, <2>1, <2>3, QuietStep
  <2> QED BY <2>2, <2>4 DEF Running
<1> QED BY <1>4, <1>5 DEF IInv

\* A handler sends an event: it comes after all that are in the channel, and nothing
\* comes from the handler it replaced any more.
LEMMA SendStep ==
    ASSUME Typed, Handlers, Ordered, Known, Introduced, Subscriber, Typed',
           NEW s \in Streams, NEW e \in Events, e.s = s, incoming' = Append(incoming, e),
           open' = open, subscribed' = subscribed, prev' = prev, sentNew' = sentNew \cup {s},
           \A t \in Streams \ {s} : pc'[t] = pc[t],
           \/ e.kind = "new" /\ pc[s] = "announce" /\ pc'[s] = "read"
           \/ e.kind = "rpc" /\ pc[s] = "send" /\ pc'[s] = "read"
           \/ e.kind = "closed" /\ pc[s] = "notify" /\ pc'[s] = "finish"
    PROVE  Ordered' /\ Known' /\ Introduced' /\ Subscriber'
<1> DEFINE n == Len(incoming)
<1>1. n \in Nat /\ Len(incoming') = n + 1 /\ incoming'[n + 1] = e
      /\ \A i \in 1 .. n : incoming'[i] = incoming[i] /\ incoming[i] \in Events
  BY AppendFacts DEF Typed
<1> HIDE DEF n
<1>2. Places = 1 .. n /\ Places' = 1 .. n + 1
  BY <1>1 DEF Places, n
<1>3. \A i \in 1 .. n : incoming[i].s \in sentNew /\ incoming[i].s \in Streams
  BY <1>1, <1>2, EventFields DEF Ordered
<1>4. prev[s] = None \/ prev[s] \in done
  BY LabelSets DEF Handlers
<1>5. pc[s] \notin Reported /\ s \notin done
  BY LabelSets DEF Handlers
<1>6. \A i \in 1 .. n : prev[incoming[i].s] # s
  BY <1>3, <1>5, StreamAssumption, LabelSets DEF Handlers
<1>7. prev[s] # s
  BY <1>4, <1>5, StreamAssumption
<1>8. ASSUME NEW i \in 1 .. n
      PROVE  /\ incoming[i].s \in sentNew'
             /\ incoming[i].kind = "closed" =>
                   /\ pc'[incoming[i].s] \in Reported
                   /\ \A j \in Places' : incoming'[j].s = incoming[i].s => j <= i
             /\ incoming[i].kind = "rpc" =>
                   incoming[i].s \in open' \/ \E j \in Places' : j < i /\ At(j, "new", incoming[i].s)'
             /\ incoming[i].kind = "new" /\ pc'[incoming[i].s] \in Reported =>
                   \E j \in Places' : i < j /\ At(j, "closed", incoming[i].s)'
             /\ \A j \in Places' : prev'[incoming'[j].s] = incoming[i].s => i < j
  <2>1. incoming[i].s \in sentNew'
    BY <1>3
  <2>2. ASSUME incoming[i].kind = "closed"
        PROVE  /\ pc'[incoming[i].s] \in Reported
               /\ \A j \in Places' : incoming'[j].s = incoming[i].s => j <= i
    <3>1. pc[incoming[i].s] \in Reported /\ \A j \in 1 .. n : incoming[j].s = incoming[i].s => j <= i
      BY <1>2, <2>2 DEF Ordered
    <3>2. incoming[i].s # s
      BY <1>5, <3>1
    <3> QED BY <1>1, <1>2, <1>3, <3>1, <3>2
  <2>3. ASSUME incoming[i].kind = "rpc", incoming[i].s \notin open'
        PROVE  \E j \in Places' : j < i /\ At(j, "new", incoming[i].s)'
    <3>1. PICK j \in 1 .. n : j < i /\ incoming[j].kind = "new" /\ incoming[j].s = incoming[i].s
      BY <1>2, <2>3 DEF Ordered, At
    <3>2. incoming'[j] = incoming[j] /\ incoming'[i] = incoming[i] /\ j \in Places'
      BY <1>1, <1>2
    <3> QED BY <1>1, <3>1, <3>2 DEF At
  <2>4. ASSUME incoming[i].kind = "new", pc'[incoming[i].s] \in Reported
        PROVE  \E j \in Places' : i < j /\ At(j, "closed", incoming[i].s)'
    <3>1. incoming'[i] = incoming[i]
      BY <1>1
    <3>2. CASE incoming[i].s = s
      <4>1. e.kind = "closed"
        BY <2>4, <3>2, LabelSets
      <4>2. n + 1 \in Places' /\ i < n + 1
        BY <1>1, <1>2
      <4> QED BY <1>1, <3>1, <3>2, <4>1, <4>2 DEF At
    <3>3. CASE incoming[i].s # s
      <4>1. pc[incoming[i].s] \in Reported
        BY <1>3, <2>4, <3>3
      <4>2. PICK j \in 1 .. n : i < j /\ incoming[j].kind = "closed" /\ incoming[j].s = incoming[i].s
        BY <1>2, <2>4, <4>1 DEF Ordered, At
      <4>3. incoming'[j] = incoming[j] /\ j \in Places'
        BY <1>1, <1>2
      <4> QED BY <3>1, <4>2, <4>3 DEF At
    <3> QED BY <3>2, <3>3
  <2>5. \A j \in Places' : prev'[incoming'[j].s] = incoming[i].s => i < j
    BY <1>1, <1>2 DEF Ordered
  <2> QED BY <2>1, <2>2, <2>3, <2>4, <2>5
<1>9. /\ e.s \in sentNew'
      /\ e.kind = "closed" => /\ pc'[e.s] \in Reported
                              /\ \A j \in Places' : incoming'[j].s = e.s => j <= n + 1
      /\ e.kind = "rpc" => e.s \in open' \/ \E j \in Places' : j < n + 1 /\ At(j, "new", e.s)'
      /\ ~ (e.kind = "new" /\ pc'[e.s] \in Reported)
      /\ \A j \in Places' : prev'[incoming'[j].s] = e.s => n + 1 < j
  <2>1. ASSUME e.kind = "rpc", s \notin open
        PROVE  \E j \in Places' : j < n + 1 /\ At(j, "new", e.s)'
    <3>1. s \in sentNew /\ pc[s] \notin Reported
      BY <2>1, LabelSets DEF Handlers
    <3>2. PICK j \in 1 .. n : incoming[j].kind = "new" /\ incoming[j].s = s
      BY <1>2, <2>1, <3>1 DEF Introduced, At
    <3>3. incoming'[j] = incoming[j] /\ j \in Places' /\ j < n + 1
      BY <1>1, <1>2
    <3>4. e' = e
      OBVIOUS
    <3> QED BY <3>2, <3>3 DEF At
  <2>2. \A j \in Places' : prev'[incoming'[j].s] # s
    BY <1>1, <1>2, <1>6, <1>7
  <2>3. e.kind = "closed" => pc'[e.s] \in Reported /\ \A j \in Places' : j <= n + 1
    BY <1>1, <1>2, LabelSets
  <2>4. ~ (e.kind = "new" /\ pc'[e.s] \in Reported)
    BY LabelSets
  <2> QED BY <2>1, <2>2, <2>3, <2>4
<1>10. Ordered'
  <2> SUFFICES ASSUME NEW i \in Places'
               PROVE  /\ incoming'[i].s \in sentNew'
                      /\ incoming'[i].kind = "closed" =>
                            /\ pc'[incoming'[i].s] \in Reported
                            /\ \A j \in Places' : incoming'[j].s = incoming'[i].s => j <= i
                      /\ incoming'[i].kind = "rpc" =>
                            \/ incoming'[i].s \in open'
                            \/ \E j \in Places' : j < i /\ At(j, "new", incoming[i].s)'
                      /\ incoming'[i].kind = "new" /\ pc'[incoming'[i].s] \in Reported =>
                            \E j \in Places' : i < j /\ At(j, "closed", incoming[i].s)'
                      /\ \A j \in Places' : prev'[incoming'[j].s] = incoming'[i].s => i < j
    BY DEF Ordered
  <2>1. CASE i = n + 1
    BY <1>1, <1>9, <2>1 DEF At
  <2>2. CASE i \in 1 .. n
    <3>1. incoming'[i] = incoming[i]
      BY <1>1, <2>2
    <3>2. /\ incoming[i].s \in sentNew'
          /\ incoming[i].kind = "closed" =>
                /\ pc'[incoming[i].s] \in Reported
                /\ \A j \in Places' : incoming'[j].s = incoming[i].s => j <= i
          /\ incoming[i].kind = "rpc" =>
                incoming[i].s \in open' \/ \E j \in Places' : j < i /\ At(j, "new", incoming[i].s)'
          /\ incoming[i].kind = "new" /\ pc'[incoming[i].s] \in Reported =>
                \E j \in Places' : i < j /\ At(j, "closed", incoming[i].s)'
          /\ \A j \in Places' : prev'[incoming'[j].s] = incoming[i].s => i < j
      BY <1>8, <2>2
    <3> QED BY <3>1, <3>2
  <2> QED BY <1>1, <1>2, <2>1, <2>2
<1>11. Known'
  <2> SUFFICES ASSUME NEW t \in open
               PROVE  /\ t \in sentNew'
                      /\ pc'[t] \in Reported => \E i \in Places' : At(i, "closed", t)'
                      /\ prev'[t] \notin open
                      /\ \A i \in Places' : incoming'[i].s # prev'[t]
    BY DEF Known
  <2>1. t \in sentNew /\ t \in Streams /\ prev[t] \notin open /\ \A i \in 1 .. n : incoming[i].s # prev[t]
    BY <1>2 DEF Known, Typed
  <2>2. prev[t] # s
    BY <1>5, <2>1, StreamAssumption, LabelSets DEF Handlers
  <2>3. \A i \in Places' : incoming'[i].s # prev'[t]
    BY <1>1, <1>2, <2>1, <2>2
  <2>4. ASSUME pc'[t] \in Reported PROVE \E i \in Places' : At(i, "closed", t)'
    <3>1. CASE t = s
      <4>1. e.kind = "closed" /\ n + 1 \in Places'
        BY <1>1, <1>2, <2>4, <3>1, LabelSets
      <4> QED BY <1>1, <3>1, <4>1 DEF At
    <3>2. CASE t # s
      <4>1. pc[t] \in Reported
        BY <2>1, <2>4, <3>2
      <4>2. PICK i \in 1 .. n : incoming[i].kind = "closed" /\ incoming[i].s = t
        BY <1>2, <4>1 DEF Known, At
      <4>3. incoming'[i] = incoming[i] /\ i \in Places'
        BY <1>1, <1>2
      <4> QED BY <4>2, <4>3 DEF At
    <3> QED BY <3>1, <3>2
  <2> QED BY <2>1, <2>3, <2>4
<1>12. Introduced'
  <2> SUFFICES ASSUME NEW t \in sentNew', pc'[t] \notin Reported, t \notin open
               PROVE  \E i \in Places' : At(i, "new", t)'
    BY DEF Introduced
  <2>1. t \in Streams
    BY DEF Typed
  <2>2. CASE t = s /\ e.kind = "new"
    <3>1. n + 1 \in Places'
      BY <1>1, <1>2
    <3> QED BY <1>1, <2>2, <3>1 DEF At
  <2>3. CASE t # s \/ e.kind # "new"
    <3>1. t \in sentNew /\ pc[t] \notin Reported
      BY <1>5, <2>1, <2>3, LabelSets DEF Handlers
    <3>2. PICK i \in 1 .. n : incoming[i].kind = "new" /\ incoming[i].s = t
      BY <1>2, <3>1 DEF Introduced, At
    <3>3. incoming'[i] = incoming[i] /\ i \in Places'
      BY <1>1, <1>2
    <3> QED BY <3>2, <3>3 DEF At
  <2> QED BY <2>2, <2>3
<1> QED BY <1>10, <1>11, <1>12 DEF Subscriber

LEMMA SendInv ==
    ASSUME IInv, NEW s \in Streams, SendNewStream(s) \/ SendRPC(s) \/ SendClosedStream(s)
    PROVE  IInv'
<1>1. Typed /\ (~ ctxDone => Running)
  BY DEF IInv
<1>2. UNCHANGED <<entry, prev, done, hand, ctxDone, open, subscribed>>
  BY DEF SendNewStream, SendRPC, SendClosedStream
<1>3. CASE incoming' = incoming
  <2>1. ctxDone /\ sentNew' = sentNew
    BY <1>1, <1>3, AppendFacts DEF SendNewStream, SendRPC, SendClosedStream, Typed
  <2>2. PICK label \in {"leave", "finish"} : Goto(s, label)
    BY <1>1, <1>3, AppendFacts DEF SendNewStream, SendRPC, SendClosedStream, Typed
  <2>3. pc' \in [Streams -> Labels]
    BY <1>1, <2>2, GotoTyped, LabelSets
  <2>4. Typed'
    BY <1>1, <1>2, <1>3, <2>1, <2>3 DEF Typed
  <2> QED BY <1>2, <2>1, <2>4 DEF IInv
<1>4. ASSUME NEW e \in Events, e.s = s, incoming' = Append(incoming, e), sentNew' = sentNew \cup {s} \/ sentNew' = sentNew,
             NEW label \in {"read", "finish"}, Goto(s, label),
             \/ e.kind = "new" /\ pc[s] = "announce" /\ label = "read" /\ sentNew' = sentNew \cup {s}
             \/ e.kind = "rpc" /\ pc[s] = "send" /\ label = "read"
             \/ e.kind = "closed" /\ pc[s] = "notify" /\ label = "finish"
      PROVE  IInv'
  <2>1. pc' \in [Streams -> Labels] /\ pc'[s] = label /\ \A t \in Streams \ {s} : pc'[t] = pc[t]
    BY <1>1, <1>4, GotoTyped, LabelSets
  <2>2. incoming' \in Seq(Events)
    BY <1>1, <1>4, AppendFacts DEF Typed
  <2>3. Typed'
    BY <1>1, <1>2, <1>4, <2>1, <2>2 DEF Typed
  <2>4. ASSUME ~ ctxDone' PROVE Running'
    <3>1. Handlers /\ Ordered /\ Known /\ Introduced /\ Subscriber
      BY <1>1, <1>2, <2>4 DEF Running
    <3>2. sentNew' = sentNew \cup {s}
      BY <1>4, <3>1, LabelSets DEF Handlers
    <3>3. \/ e.kind = "new" /\ pc[s] = "announce" /\ pc'[s] = "read"
          \/ e.kind = "rpc" /\ pc[s] = "send" /\ pc'[s] = "read"
          \/ e.kind = "closed" /\ pc[s] = "notify" /\ pc'[s] = "finish"
      BY <1>4, <2>1
    <3>4. Ordered' /\ Known' /\ Introduced' /\ Subscriber'
      BY <1>1, <1>2, <1>4, <2>1, <2>3, <3>1, <3>2, <3>3, SendStep
    <3>5. Handlers'
      BY <1>1, <1>2, <2>1, <3>1, <3>2, <3>3, LabelSets DEF Handlers, Typed
    <3> QED BY <3>4, <3>5 DEF Running
  <2> QED BY <2>3, <2>4 DEF IInv
<1>5. CASE SendNewStream(s) /\ incoming' # incoming
  <2> DEFINE e == [kind |-> "new", s |-> s]
  <2>1. e \in Events /\ e.s = s /\ e.kind = "new"
    BY DEF Events, Kinds
  <2>2. incoming' = Append(incoming, e) /\ sentNew' = sentNew \cup {s}
        /\ pc[s] = "announce" /\ Goto(s, "read")
    BY <1>5 DEF SendNewStream
  <2> HIDE DEF e
  <2> QED BY <1>4, <2>1, <2>2
<1>6. CASE SendRPC(s) /\ incoming' # incoming
  <2> DEFINE e == [kind |-> "rpc", s |-> s, sub |-> hand[s]]
  <2>1. hand[s] \in BOOLEAN
    BY <1>1 DEF Typed
  <2>2. e \in Events /\ e.s = s /\ e.kind = "rpc"
    BY <2>1 DEF Events, Kinds
  <2>3. incoming' = Append(incoming, e) /\ sentNew' = sentNew /\ pc[s] = "send" /\ Goto(s, "read")
    BY <1>6 DEF SendRPC
  <2> HIDE DEF e
  <2> QED BY <1>4, <2>2, <2>3
<1>7. CASE SendClosedStream(s) /\ incoming' # incoming
  <2> DEFINE e == [kind |-> "closed", s |-> s]
  <2>1. e \in Events /\ e.s = s /\ e.kind = "closed"
    BY DEF Events, Kinds
  <2>2. incoming' = Append(incoming, e) /\ sentNew' = sentNew /\ pc[s] = "notify" /\ Goto(s, "finish")
    BY <1>7 DEF SendClosedStream
  <2> HIDE DEF e
  <2> QED BY <1>4, <2>1, <2>2
<1> QED BY <1>3, <1>5, <1>6, <1>7

LEMMA ProcessInv ==
    ASSUME IInv, Process PROVE IInv'
<1>1. Typed /\ ~ ctxDone /\ Handlers /\ Ordered /\ Known /\ Introduced /\ Subscriber
  BY DEF IInv, Running, Process
<1>2. PICK e : e = incoming[1]
  OBVIOUS
<1>3. PICK n : n = Len(incoming) - 1
  OBVIOUS
<1>4. /\ n \in Nat /\ Len(incoming) = n + 1 /\ Len(incoming') = n /\ incoming' \in Seq(Events)
      /\ Head(incoming) = e /\ \A i \in 1 .. n : incoming'[i] = incoming[i + 1]
  <2>1. incoming \in Seq(Events) /\ incoming # <<>> /\ incoming' = Tail(incoming)
    BY <1>1 DEF Typed, Process
  <2>2. /\ Tail(incoming) \in Seq(Events) /\ Len(incoming) \in Nat \ {0}
        /\ Len(Tail(incoming)) = Len(incoming) - 1
        /\ \A i \in 1 .. Len(incoming) - 1 : Tail(incoming)[i] = incoming[i + 1]
        /\ Head(incoming) = incoming[1]
    BY <2>1, TailFacts
  <2> QED BY <1>2, <1>3, <2>1, <2>2
<1>5. Places = 1 .. n + 1 /\ Places' = 1 .. n /\ 1 \in Places
  BY <1>4 DEF Places
<1>6. UNCHANGED <<pc, entry, prev, done, sentNew, hand, ctxDone>>
  BY DEF Process
<1>7. \/ e.kind = "new" /\ open' = open \cup {e.s} /\ subscribed' = subscribed
      \/ e.kind = "rpc" /\ open' = open
      \/ e.kind = "closed" /\ open' = open \ {e.s} /\ subscribed' = FALSE
  BY <1>4 DEF Process, SubscribedAfterClose
<1>8. /\ e.s \in Streams
      /\ \A i \in 1 .. n + 1 : incoming[i] \in Events
  <2>1. \A i \in 1 .. n + 1 : incoming[i] \in Events
    BY <1>1, <1>4 DEF Typed
  <2>2. e \in Events
    BY <1>2, <1>4, <2>1
  <2> QED BY <2>1, <2>2, EventFields
<1>9. Typed'
  <2>1. open' \subseteq Streams
    BY <1>1, <1>7, <1>8 DEF Typed
  <2> QED BY <1>1, <1>4, <1>6, <2>1 DEF Typed
<1>10. Handlers'
  BY <1>1, <1>6 DEF Handlers
\* What Ordered says of the event that is handled
<1>11. /\ e.s \in sentNew
       /\ e.kind = "closed" =>
             pc[e.s] \in Reported /\ \A j \in 1 .. n + 1 : incoming[j].s = e.s => j <= 1
       /\ e.kind = "rpc" => e.s \in open
       /\ e.kind = "new" /\ pc[e.s] \in Reported =>
             \E j \in 1 .. n + 1 : 1 < j /\ incoming[j].kind = "closed" /\ incoming[j].s = e.s
  <2>1. /\ e.s \in sentNew
        /\ e.kind = "closed" =>
              pc[e.s] \in Reported /\ \A j \in 1 .. n + 1 : incoming[j].s = e.s => j <= 1
    BY <1>1, <1>2, <1>5 DEF Ordered
  <2>2. e.kind = "rpc" => e.s \in open
    BY <1>1, <1>2, <1>4, <1>5 DEF Ordered
  <2>3. e.kind = "new" /\ pc[e.s] \in Reported =>
             \E j \in 1 .. n + 1 : 1 < j /\ incoming[j].kind = "closed" /\ incoming[j].s = e.s
    BY <1>1, <1>2, <1>5 DEF Ordered, At
  <2> QED BY <2>1, <2>2, <2>3
<1>12. \A i \in 1 .. n + 1 : prev[e.s] # incoming[i].s
  BY <1>1, <1>2, <1>4, <1>5 DEF Ordered
<1>13. \A i \in 1 .. n : i + 1 \in 1 .. n + 1
  BY <1>4
<1>14. ASSUME NEW j \in 1 .. n + 1, j # 1
       PROVE  j - 1 \in 1 .. n /\ incoming'[j - 1] = incoming[j]
  <2>1. j - 1 \in 1 .. n /\ (j - 1) + 1 = j
    BY <1>4, <1>14
  <2>2. incoming'[j - 1] = incoming[(j - 1) + 1]
    BY <1>4, <2>1
  <2> QED BY <2>1, <2>2
<1>15. Ordered'
  <2> SUFFICES ASSUME NEW i \in 1 .. n
               PROVE  /\ incoming'[i].s \in sentNew'
                      /\ incoming'[i].kind = "closed" =>
                            /\ pc'[incoming'[i].s] \in Reported
                            /\ \A j \in 1 .. n : incoming'[j].s = incoming'[i].s => j <= i
                      /\ incoming'[i].kind = "rpc" =>
                            \/ incoming'[i].s \in open'
                            \/ \E j \in 1 .. n : j < i /\ At(j, "new", incoming[i].s)'
                      /\ incoming'[i].kind = "new" /\ pc'[incoming'[i].s] \in Reported =>
                            \E j \in 1 .. n : i < j /\ At(j, "closed", incoming[i].s)'
                      /\ \A j \in 1 .. n : prev'[incoming'[j].s] = incoming'[i].s => i < j
    BY <1>5 DEF Ordered
  <2>1. PICK f : f = incoming[i + 1]
    OBVIOUS
  <2>2. incoming'[i] = f /\ i + 1 \in 1 .. n + 1
    BY <1>4, <1>13, <2>1
  <2>3. f.s \in sentNew
    BY <1>1, <1>5, <2>1, <2>2 DEF Ordered
  <2>4. ASSUME f.kind = "closed"
        PROVE  pc[f.s] \in Reported /\ \A j \in 1 .. n : incoming'[j].s = f.s => j <= i
    <3>1. pc[f.s] \in Reported /\ \A j \in 1 .. n + 1 : incoming[j].s = f.s => j <= i + 1
      BY <1>1, <1>5, <2>1, <2>2, <2>4 DEF Ordered
    <3> QED BY <1>4, <1>13, <3>1
  <2>5. ASSUME f.kind = "rpc", f.s \notin open'
        PROVE  \E j \in 1 .. n : j < i /\ incoming'[j].kind = "new" /\ incoming'[j].s = f.s
    <3>1. f.s \notin open
      <4>1. ASSUME f.s \in open PROVE FALSE
        <5>1. e.kind = "closed" /\ e.s = f.s
          BY <1>7, <2>5, <4>1
        <5>2. i + 1 <= 1
          BY <1>11, <2>1, <2>2, <5>1
        <5> QED BY <1>4, <5>2
      <4> QED BY <4>1
    <3>2. PICK j \in 1 .. n + 1 : j < i + 1 /\ incoming[j].kind = "new" /\ incoming[j].s = f.s
      BY <1>1, <1>5, <2>1, <2>2, <2>5, <3>1 DEF Ordered, At
    <3>3. j # 1
      BY <1>2, <1>7, <2>5, <3>1, <3>2
    <3>4. j - 1 \in 1 .. n /\ incoming'[j - 1] = incoming[j] /\ j - 1 < i
      BY <1>4, <1>14, <3>2, <3>3
    <3> QED BY <3>2, <3>4
  <2>6. ASSUME f.kind = "new", pc[f.s] \in Reported
        PROVE  \E j \in 1 .. n : i < j /\ incoming'[j].kind = "closed" /\ incoming'[j].s = f.s
    <3>1. PICK j \in 1 .. n + 1 : i + 1 < j /\ incoming[j].kind = "closed" /\ incoming[j].s = f.s
      BY <1>1, <1>5, <2>1, <2>2, <2>6 DEF Ordered, At
    <3>2. j # 1
      BY <1>4, <3>1
    <3>3. j - 1 \in 1 .. n /\ incoming'[j - 1] = incoming[j] /\ i < j - 1
      BY <1>4, <1>14, <3>1, <3>2
    <3> QED BY <3>1, <3>3
  <2>7. \A j \in 1 .. n : prev[incoming'[j].s] = f.s => i < j
    <3> SUFFICES ASSUME NEW j \in 1 .. n, prev[incoming'[j].s] = f.s PROVE i < j
      OBVIOUS
    <3>1. j + 1 \in 1 .. n + 1 /\ prev[incoming[j + 1].s] = f.s
      BY <1>4, <1>13
    <3>2. i + 1 < j + 1
      BY <1>1, <1>5, <2>1, <2>2, <3>1 DEF Ordered
    <3> QED BY <1>4, <3>2
  <2> QED BY <1>6, <2>2, <2>3, <2>4, <2>5, <2>6, <2>7 DEF At
<1>16. Known'
  <2> SUFFICES ASSUME NEW s \in open'
               PROVE  /\ s \in sentNew
                      /\ pc[s] \in Reported =>
                            \E i \in 1 .. n : incoming'[i].kind = "closed" /\ incoming'[i].s = s
                      /\ prev[s] \notin open'
                      /\ \A i \in 1 .. n : incoming'[i].s # prev[s]
    BY <1>5, <1>6 DEF Known, At
  <2>1. CASE s \in open
    <3>1. s \in sentNew /\ prev[s] \notin open /\ \A i \in 1 .. n + 1 : incoming[i].s # prev[s]
      BY <1>1, <1>5, <2>1 DEF Known
    <3>2. e.s # prev[s]
      BY <1>2, <1>5, <3>1
    <3>3. prev[s] \notin open'
      BY <1>7, <3>1, <3>2
    <3>4. \A i \in 1 .. n : incoming'[i].s # prev[s]
      BY <1>4, <1>13, <3>1
    <3>5. ASSUME pc[s] \in Reported
          PROVE  \E i \in 1 .. n : incoming'[i].kind = "closed" /\ incoming'[i].s = s
      <4>1. PICK i \in 1 .. n + 1 : incoming[i].kind = "closed" /\ incoming[i].s = s
        BY <1>1, <1>5, <2>1, <3>5 DEF Known, At
      <4>2. i # 1
        BY <1>2, <1>7, <4>1
      <4>3. i - 1 \in 1 .. n /\ incoming'[i - 1] = incoming[i]
        BY <1>14, <4>2
      <4> QED BY <4>1, <4>3
    <3> QED BY <3>1, <3>3, <3>4, <3>5
  <2>2. CASE s \notin open
    <3>1. e.kind = "new" /\ e.s = s /\ open' = open \cup {s}
      BY <1>7, <2>2
    <3>2. \A i \in 1 .. n : incoming'[i].s # prev[s]
      BY <1>4, <1>12, <1>13, <3>1
    <3>3. prev[s] # s
      BY <1>2, <1>5, <1>12, <3>1
    <3>4. prev[s] \notin open
      <4> SUFFICES ASSUME prev[s] \in open PROVE FALSE
        OBVIOUS
      <4>1. prev[s] \in Streams /\ s \in Streams
        BY <1>1, <1>8, <3>1 DEF Typed
      <4>2. prev[s] \in done
        BY <1>1, <1>11, <3>1, <4>1, StreamAssumption DEF Handlers
      <4>3. pc[prev[s]] \in Reported
        BY <1>1, <4>1, <4>2, LabelSets DEF Handlers
      <4>4. PICK i \in 1 .. n + 1 : incoming[i].s = prev[s]
        BY <1>1, <1>5, <4>3 DEF Known, At
      <4> QED BY <1>12, <3>1, <4>4
    <3>5. ASSUME pc[s] \in Reported
          PROVE  \E i \in 1 .. n : incoming'[i].kind = "closed" /\ incoming'[i].s = s
      <4>1. PICK i \in 1 .. n + 1 : 1 < i /\ incoming[i].kind = "closed" /\ incoming[i].s = s
        BY <1>11, <3>1, <3>5
      <4>2. i - 1 \in 1 .. n /\ incoming'[i - 1] = incoming[i]
        BY <1>14, <4>1
      <4> QED BY <4>1, <4>2
    <3> QED BY <1>11, <3>1, <3>2, <3>3, <3>4, <3>5
  <2> QED BY <2>1, <2>2
<1>17. Introduced'
  <2> SUFFICES ASSUME NEW s \in sentNew, pc[s] \notin Reported, s \notin open'
               PROVE  \E i \in 1 .. n : incoming'[i].kind = "new" /\ incoming'[i].s = s
    BY <1>5, <1>6 DEF Introduced, At
  <2>1. s \notin open
    BY <1>7, <1>11
  <2>2. PICK i \in 1 .. n + 1 : incoming[i].kind = "new" /\ incoming[i].s = s
    BY <1>1, <1>5, <2>1 DEF Introduced, At
  <2>3. i # 1
    BY <1>2, <1>7, <2>2
  <2>4. i - 1 \in 1 .. n /\ incoming'[i - 1] = incoming[i]
    BY <1>14, <2>3
  <2> QED BY <2>2, <2>4
<1>18. Subscriber'
  BY <1>1, <1>7, <1>11 DEF Subscriber
<1> QED BY <1>9, <1>10, <1>15, <1>16, <1>17, <1>18 DEF IInv, Running

LEMMA InboundStepInv == IInv /\ [InboundNext]_inboundVars => IInv'
<1> SUFFICES ASSUME IInv, [InboundNext]_inboundVars PROVE IInv'
  OBVIOUS
<1>1. CASE UNCHANGED inboundVars
  BY <1>1 DEF inboundVars, IInv, Typed, Running, Handlers, Ordered, Known, Introduced, Subscriber,
              At, Places
<1>2. CASE Shutdown
  <2>1. Typed
    BY DEF IInv
  <2>2. Typed' /\ ctxDone'
    BY <1>2, <2>1 DEF Shutdown, Typed
  <2> QED BY <2>2 DEF IInv
<1>3. ASSUME NEW s \in Streams, Handler(s) PROVE IInv'
  <2>1. TRUE \in BOOLEAN
    OBVIOUS
  <2> QED BY <1>3, <2>1, RegisterInv, AwaitInv, SendInv, ReadInv, UnregisterInv, CloseDoneInv DEF Handler
<1>4. ASSUME NEW s \in Streams, RemoteClose(s) PROVE IInv'
  <2>1. TRUE \in BOOLEAN
    OBVIOUS
  <2> QED BY <1>4, <2>1, ReadInv
<1> QED BY <1>1, <1>2, <1>3, <1>4, OpenInv, ReadInv, ProcessInv DEF InboundNext

\* handleNewStream only announces a stream after <-prev.done, so that processLoop has
\* forgotten the stream it replaced, whose end can then not clear the state of the new one.
THEOREM ReplacedFirstHolds == InboundSpec => []ReplacedFirst
<1>1. IInv => ReplacedFirst
  <2> SUFFICES ASSUME IInv, ~ ctxDone, NEW s \in open, prev[s] # None
               PROVE  /\ prev[s] \notin open
                      /\ ~ \E i \in DOMAIN incoming : incoming[i] = [kind |-> "closed", s |-> prev[s]]
    BY DEF ReplacedFirst
  <2>1. prev[s] \notin open /\ \A i \in Places : incoming[i].s # prev[s]
    BY DEF IInv, Running, Known
  <2>2. DOMAIN incoming = Places
    BY DEF IInv, Typed, Places
  <2> QED BY <2>1, <2>2
<1> QED BY <1>1, InboundInitInv, InboundStepInv, PTL DEF InboundSpec

\* When every handler has exited and p.incoming is drained, onClosedIncomingStream has
\* run for every stream: the peer is in no topic, and no handler is registered.
THEOREM NoTopicLeakHolds == InboundSpec => []NoTopicLeak
<1>1. IInv => NoTopicLeak
  <2> SUFFICES ASSUME IInv, ~ ctxDone, incoming = <<>>,
                      \A s \in Streams : pc[s] \in {"unopened", "exited"}
               PROVE  ~ subscribed /\ open = {} /\ entry = None
    BY DEF NoTopicLeak
  <2>1. Typed /\ Handlers /\ Known /\ Subscriber
    BY DEF IInv, Running
  <2>2. entry = None
    BY <2>1, LabelSets DEF Handlers, Typed
  <2>3. ASSUME NEW s \in open PROVE FALSE
    <3>1. s \in Streams /\ s \in sentNew
      BY <2>1 DEF Typed, Known
    <3>2. pc[s] \in Reported
      BY <2>1, <3>1, LabelSets DEF Handlers
    <3>3. PICK i \in Places : At(i, "closed", s)
      BY <2>1, <3>2 DEF Known
    <3> QED BY <3>3 DEF Places
  <2> QED BY <2>1, <2>2, <2>3 DEF Subscriber
<1> QED BY <1>1, InboundInitInv, InboundStepInv, PTL DEF InboundSpec

-----------------------------------------------------------------------------
(* The outbound queue and its peer.                                        *)

\* Queues are numbered in the order of their creation, and nothing runs yet for a
\* number that was not given out.
Fresh ==
    /\ closed \subseteq 1 .. last
    /\ queue <= last
    /\ \A i \in Queues : i > last => attempt[i] = "none" /\ watcher[i] = "none"

\* A stream that was opened has a watcher, and the end of the watcher of the current
\* queue is still pending: it is the queue that handleDeadPeers will close.
Watched ==
    /\ \A i \in Queues : attempt[i] = "opened" => watcher[i] # "none"
    /\ queue # 0 => attempt[queue] # "none"
    /\ queue # 0 /\ attempt[queue] = "done" => watcher[queue] # "none"
    /\ queue # 0 /\ watcher[queue] = "done" => deadPend

Flags ==
    /\ connected \in BOOLEAN /\ blacklisted \in BOOLEAN /\ gsPeer \in BOOLEAN
    /\ newPend \in BOOLEAN /\ newSignal \in BOOLEAN /\ newNotifier \in BOOLEAN
    /\ deadPend \in BOOLEAN /\ deadSignal \in BOOLEAN /\ deadNotifier \in BOOLEAN

Numbers ==
    /\ notices \in 0 .. MaxNotices /\ attempts \in 0 .. MaxBackoffAttempts
    /\ queue \in 0 .. MaxQueues /\ last \in 0 .. MaxQueues
    /\ closed \subseteq Queues

States ==
    /\ attempt \in [Queues -> {"none", "delayed", "opening", "opened", "failed", "done"}]
    /\ stream \in [Queues -> {"none", "open", "dead"}]
    /\ watcher \in [Queues -> {"none", "reading", "done"}]
    /\ writer \in [Queues -> {"none", "hello", "popping", "done"}]

Inv == TypeOK /\ Fresh /\ NoClosedQueue /\ PendingSignalled /\ Watched

LEMMA TypeSplit ==
    /\ TypeOK <=> Flags /\ Numbers /\ States
    /\ TypeOK' <=> Flags' /\ Numbers' /\ States'
BY DEF TypeOK, Flags, Numbers, States

LEMMA Bounds == MaxQueues \in Nat /\ MaxNotices \in Nat /\ MaxBackoffAttempts \in Nat
BY BoundAssumption

LEMMA InvInit == Init => Inv
<1> SUFFICES ASSUME Init PROVE Inv
  OBVIOUS
<1>1. Flags
  BY Zenon DEF Init, Flags
<1>2. Numbers
  BY Bounds DEF Init, Numbers
<1>3. States
  BY DEF Init, States
<1>4. Fresh /\ NoClosedQueue
  BY DEF Init, Fresh, NoClosedQueue
<1>5. PendingSignalled /\ Watched
  BY DEF Init, PendingSignalled, Watched
<1> QED BY <1>1, <1>2, <1>3, <1>4, <1>5, TypeSplit DEF Inv

\* Only queues that were created are closed.
LEMMA ClosedGrows ==
    ASSUME Numbers, Fresh, closed' = closed \/ closed' = closed \cup ({queue} \ {0})
    PROVE  closed' \subseteq 1 .. last
<1>1. queue \in 0 .. MaxQueues /\ last \in 0 .. MaxQueues /\ queue <= last
  BY DEF Numbers, Fresh
<1>2. queue = 0 \/ queue \in 1 .. last
  BY <1>1, Bounds
<1>3. {queue} \ {0} \subseteq 1 .. last
  BY <1>2
<1> QED BY <1>3 DEF Fresh

\* A new queue has a new number: it is not closed, and nothing watches it yet.
LEMMA SpawnSound ==
    ASSUME Numbers, States, Fresh, Watched, NEW st \in {"opening", "delayed"}, Spawn(st),
           closed' = closed \/ closed' = closed \cup ({queue} \ {0}), UNCHANGED watcher
    PROVE  /\ queue' \in 0 .. MaxQueues /\ last' \in 0 .. MaxQueues /\ closed' \subseteq Queues
           /\ attempt' \in [Queues -> {"none", "delayed", "opening", "opened", "failed", "done"}]
           /\ Fresh' /\ NoClosedQueue' /\ Watched'
<1> DEFINE n == last + 1
<1>1. last \in 0 .. MaxQueues /\ last < MaxQueues /\ n \in Queues /\ n # 0 /\ queue \in Int
  BY Bounds DEF Spawn, Numbers, Queues
<1>2. queue' = n /\ last' = n /\ attempt' = [attempt EXCEPT ![n] = st]
  BY DEF Spawn
<1>3. closed' \subseteq 1 .. last
  BY ClosedGrows
<1>4. attempt' \in [Queues -> {"none", "delayed", "opening", "opened", "failed", "done"}]
  BY <1>2 DEF States
<1>5. Fresh'
  BY <1>1, <1>2, <1>3 DEF Fresh, States, Queues
<1>6. NoClosedQueue'
  BY <1>1, <1>2, <1>3 DEF NoClosedQueue
<1>7. watcher'[n] = "none" /\ attempt'[n] = st
  BY <1>1, <1>2 DEF Fresh, States
<1>8. Watched'
  <2>1. \A i \in Queues : attempt'[i] = "opened" => watcher'[i] # "none"
    BY <1>1, <1>2, <1>7 DEF Watched, States
  <2> QED BY <1>2, <1>7, <2>1 DEF Watched
<1> QED BY <1>1, <1>2, <1>3, <1>4, <1>5, <1>6, <1>8, Bounds DEF Queues

\* When the current queue is given up, nothing is left to be watched for it.
LEMMA GiveUpSound ==
    ASSUME Numbers, Fresh, Watched, queue' = 0, UNCHANGED <<last, watcher>>,
           closed' = closed \/ closed' = closed \cup ({queue} \ {0}),
           \A i \in Queues : /\ i > last => attempt'[i] = attempt[i]
                             /\ attempt'[i] = "opened" => attempt[i] = "opened"
    PROVE  /\ queue' \in 0 .. MaxQueues /\ closed' \subseteq Queues
           /\ Fresh' /\ NoClosedQueue' /\ Watched'
<1>1. closed' \subseteq 1 .. last /\ last \in 0 .. MaxQueues
  BY ClosedGrows DEF Numbers
<1>2. 0 \notin 1 .. last /\ 0 <= last
  BY <1>1, Bounds
<1>3. Fresh'
  BY <1>1, <1>2 DEF Fresh
<1>4. NoClosedQueue'
  BY <1>1, <1>2 DEF NoClosedQueue
<1>5. Watched'
  BY DEF Watched
<1> QED BY <1>1, <1>3, <1>4, <1>5, Bounds DEF Queues

\* The invariant, action by action.
LEMMA InvStep == Inv /\ [Next]_vars => Inv'
<1> SUFFICES ASSUME Inv, [Next]_vars PROVE Inv'
  OBVIOUS
<1>0. Flags /\ Numbers /\ States /\ Fresh /\ NoClosedQueue /\ PendingSignalled /\ Watched
  BY TypeSplit DEF Inv
<1>1. CASE HandlePendingPeers
  <2>1. Flags'
    BY <1>0, <1>1, Zenon DEF HandlePendingPeers, Flags, netVars, deadVars
  <2>2. PendingSignalled'
    BY <1>0, <1>1 DEF HandlePendingPeers, PendingSignalled, deadVars
  <2>3. UNCHANGED <<notices, attempts, closed, stream, watcher, writer, deadPend>>
    BY <1>1 DEF HandlePendingPeers, netVars, deadVars
  <2>4. CASE Spawn("opening")
    <3>1. /\ queue' \in 0 .. MaxQueues /\ last' \in 0 .. MaxQueues /\ closed' \subseteq Queues
          /\ attempt' \in [Queues -> {"none", "delayed", "opening", "opened", "failed", "done"}]
          /\ Fresh' /\ NoClosedQueue' /\ Watched'
      BY <1>0, <2>3, <2>4, SpawnSound
    <3>2. Numbers' /\ States'
      BY <1>0, <2>3, <3>1 DEF Numbers, States
    <3> QED BY <2>1, <2>2, <3>1, <3>2, TypeSplit DEF Inv
  <2>5. CASE UNCHANGED <<queue, last, attempt>>
    <3>1. Numbers' /\ States'
      BY <1>0, <2>3, <2>5 DEF Numbers, States
    <3>2. Fresh' /\ NoClosedQueue' /\ Watched'
      BY <1>0, <2>3, <2>5 DEF Fresh, NoClosedQueue, Watched
    <3> QED BY <2>1, <2>2, <3>1, <3>2, TypeSplit DEF Inv
  <2> QED BY <1>1, <2>4, <2>5 DEF HandlePendingPeers
<1>2. CASE HandleDeadPeers
  <2>1. Flags'
    BY <1>0, <1>2, Zenon DEF HandleDeadPeers, Flags, netVars, newVars
  <2>2. PendingSignalled'
    BY <1>0, <1>2 DEF HandleDeadPeers, PendingSignalled, newVars
  <2>3. UNCHANGED <<notices, stream, watcher, writer>> /\ deadPend' = FALSE
    BY <1>2 DEF HandleDeadPeers, netVars
  <2>4. CASE ~ deadPend \/ queue = 0
    <3>1. UNCHANGED <<queue, last, closed, attempt, attempts>>
      BY <1>2, <2>4 DEF HandleDeadPeers, queueVars
    <3>2. Numbers' /\ States'
      BY <1>0, <2>3, <3>1 DEF Numbers, States
    <3>3. Fresh' /\ NoClosedQueue' /\ Watched'
      BY <1>0, <2>3, <2>4, <3>1 DEF Fresh, NoClosedQueue, Watched
    <3> QED BY <2>1, <2>2, <3>2, <3>3, TypeSplit DEF Inv
  <2>5. CASE ~(~ deadPend \/ queue = 0) /\ Respawns
    <3>1. Spawn("delayed") /\ attempts' = attempts + 1 /\ closed' = closed \cup ({queue} \ {0})
      BY <1>2, <2>5 DEF HandleDeadPeers
    <3>2. /\ queue' \in 0 .. MaxQueues /\ last' \in 0 .. MaxQueues /\ closed' \subseteq Queues
          /\ attempt' \in [Queues -> {"none", "delayed", "opening", "opened", "failed", "done"}]
          /\ Fresh' /\ NoClosedQueue' /\ Watched'
      BY <1>0, <2>3, <3>1, SpawnSound
    <3>3. attempts' \in 0 .. MaxBackoffAttempts
      BY <1>0, <2>5, <3>1, Bounds DEF Respawns, Numbers
    <3>4. Numbers' /\ States'
      BY <1>0, <2>3, <3>2, <3>3 DEF Numbers, States
    <3> QED BY <2>1, <2>2, <3>2, <3>4, TypeSplit DEF Inv
  <2>6. CASE ~(~ deadPend \/ queue = 0) /\ ~ Respawns
    <3>1. /\ queue' = 0 /\ UNCHANGED <<last, attempt, attempts>>
          /\ closed' = closed \cup ({queue} \ {0})
      BY <1>2, <2>6 DEF HandleDeadPeers, QueueAfterDeath
    <3>2. /\ queue' \in 0 .. MaxQueues /\ closed' \subseteq Queues
          /\ Fresh' /\ NoClosedQueue' /\ Watched'
      BY <1>0, <2>3, <3>1, GiveUpSound
    <3>3. Numbers' /\ States'
      BY <1>0, <2>3, <3>1, <3>2 DEF Numbers, States
    <3> QED BY <2>1, <2>2, <3>2, <3>3, TypeSplit DEF Inv
  <2> QED BY <2>4, <2>5, <2>6
<1>3. ASSUME NEW i \in Queues, NewPeerStream(i) PROVE Inv'
  <2>0. UNCHANGED <<netVars, newVars, deadVars, blacklisted, last, watcher, attempts>>
    BY <1>3 DEF NewPeerStream
  <2>1. Flags'
    BY <1>0, <1>3, Zenon DEF NewPeerStream, Flags, netVars, newVars, deadVars
  <2>2. PendingSignalled'
    BY <1>0, <2>0 DEF PendingSignalled, newVars, deadVars
  <2>3. attempt' = [attempt EXCEPT ![i] = "done"] /\ attempt[i] = "opened"
    BY <1>3 DEF NewPeerStream
  <2>4. States'
    BY <1>0, <1>3, <2>0, <2>3 DEF NewPeerStream, States
  <2>5. \A j \in Queues : /\ j > last => attempt'[j] = attempt[j]
                          /\ attempt'[j] = "opened" => attempt[j] = "opened"
    BY <1>0, <2>3 DEF States, Fresh
  <2>6. CASE queue = 0 \/ blacklisted
    <3>1. queue' = 0 /\ closed' = closed \cup ({queue} \ {0})
      BY <1>3, <2>6 DEF NewPeerStream
    <3>2. /\ queue' \in 0 .. MaxQueues /\ closed' \subseteq Queues
          /\ Fresh' /\ NoClosedQueue' /\ Watched'
      BY <1>0, <2>0, <2>5, <3>1, GiveUpSound
    <3>3. Numbers'
      BY <1>0, <2>0, <3>2 DEF Numbers, netVars
    <3> QED BY <2>1, <2>2, <2>4, <3>2, <3>3, TypeSplit DEF Inv
  <2>7. CASE ~(queue = 0 \/ blacklisted)
    <3>1. UNCHANGED <<queue, closed>>
      BY <1>3, <2>7 DEF NewPeerStream
    <3>2. Numbers'
      BY <1>0, <2>0, <3>1 DEF Numbers, netVars
    <3>3. Fresh' /\ NoClosedQueue'
      BY <1>0, <2>0, <2>5, <3>1 DEF Fresh, NoClosedQueue
    <3>4. queue \in Queues
      BY <1>0, <2>7, Bounds DEF Numbers, Queues
    <3>5. Watched'
      BY <1>0, <2>0, <2>3, <2>5, <3>1, <3>4 DEF Watched, States, deadVars
    <3> QED BY <2>1, <2>2, <2>4, <3>2, <3>3, <3>5, TypeSplit DEF Inv
  <2> QED BY <2>6, <2>7
<1>4. CASE BlacklistPeer
  <2>0. UNCHANGED <<netVars, newVars, deadVars, last, streamVars, attempts>>
    BY <1>4 DEF BlacklistPeer
  <2>1. Flags'
    BY <1>0, <1>4, Zenon DEF BlacklistPeer, Flags, netVars, newVars, deadVars
  <2>2. PendingSignalled'
    BY <1>0, <2>0 DEF PendingSignalled, newVars, deadVars
  <2>3. queue' = 0 /\ (closed' = closed \/ closed' = closed \cup ({queue} \ {0}))
    BY <1>4 DEF BlacklistPeer
  <2>4. /\ queue' \in 0 .. MaxQueues /\ closed' \subseteq Queues
        /\ Fresh' /\ NoClosedQueue' /\ Watched'
    BY <1>0, <2>0, <2>3, GiveUpSound DEF streamVars
  <2>5. Numbers' /\ States'
    BY <1>0, <2>0, <2>4 DEF Numbers, States, netVars, streamVars
  <2> QED BY <2>1, <2>2, <2>4, <2>5, TypeSplit DEF Inv
<1> USE BoundAssumption DEF Inv, TypeOK, Fresh, NoClosedQueue, PendingSignalled, Watched, Queues
<1>5. CASE Connect
  BY <1>5 DEF Connect, newVars, deadVars, queueVars, streamVars
<1>6. CASE NotifyNewPeer
  BY <1>6 DEF NotifyNewPeer, deadVars, queueVars, streamVars
<1>7. CASE Disconnect
  BY <1>7 DEF Disconnect, newVars, deadVars, queueVars
<1>8. CASE SignalNew
  BY <1>8 DEF SignalNew, netVars, deadVars, queueVars, streamVars
<1>9. CASE SignalDead
  BY <1>9 DEF SignalDead, netVars, newVars, queueVars, streamVars
<1>10. ASSUME NEW i \in Queues, NewPeerError(i) PROVE Inv'
  BY <1>10 DEF NewPeerError, netVars, newVars, deadVars
<1>11. CASE BlacklistExpires
  BY <1>11 DEF BlacklistExpires, netVars, newVars, deadVars, queueVars, streamVars
<1>12. ASSUME NEW i \in Queues, StreamDies(i) PROVE Inv'
  BY <1>12 DEF StreamDies, netVars, newVars, deadVars, queueVars
<1>13. ASSUME NEW i \in Queues, BackoffOver(i) PROVE Inv'
  BY <1>13 DEF BackoffOver, netVars, newVars, deadVars, queueVars
<1>14. ASSUME NEW i \in Queues, OpenStream(i) PROVE Inv'
  BY <1>14 DEF OpenStream, netVars, newVars, deadVars, queueVars
<1>15. ASSUME NEW i \in Queues, OpenFails(i) PROVE Inv'
  BY <1>15 DEF OpenFails, netVars, newVars, deadVars, queueVars
<1>16. ASSUME NEW i \in Queues, WatcherNotifies(i) PROVE Inv'
  BY <1>16 DEF WatcherNotifies, netVars, newVars, queueVars
<1>17. ASSUME NEW i \in Queues, WriterExits(i) PROVE Inv'
  BY <1>17 DEF WriterExits, netVars, newVars, deadVars, queueVars
<1>18. CASE UNCHANGED vars
  BY <1>18 DEF vars
<1>19. CASE AttemptsForgotten
  BY <1>19 DEF AttemptsForgotten, netVars, newVars, deadVars, queueVars, streamVars
<1> QED
  BY <1>1, <1>2, <1>3, <1>4, <1>5, <1>6, <1>7, <1>8, <1>9, <1>10, <1>11, <1>12, <1>13,
     <1>14, <1>15, <1>16, <1>17, <1>18, <1>19 DEF Next, ProcessLoop, Goroutines

LEMMA Invariant == Spec => []Inv
BY InvInit, InvStep, PTL DEF Spec

\* The state of a peer keeps its types: in particular a peer is respawned at most
\* MaxBackoffAttempts times before it is given up or its attempts are forgotten.
THEOREM TypeCorrect == Spec => []TypeOK
<1>1. Inv => TypeOK
  BY DEF Inv
<1> QED BY <1>1, Invariant, PTL

\* p.peers never holds a closed queue, whatever the order in which streams open, die
\* and are reported.
THEOREM QueueOpen == Spec => []NoClosedQueue
<1>1. Inv => NoClosedQueue
  BY DEF Inv
<1> QED BY <1>1, Invariant, PTL

\* No notification of a new or a dead peer is lost though the signals of notifyNewPeer
\* and notifyPeerDead are dropped when their channels are full.
THEOREM NoLostSignal == Spec => []PendingSignalled
<1>1. Inv => PendingSignalled
  BY DEF Inv
<1> QED BY <1>1, Invariant, PTL

\* The queue in p.peers is served, or its end is about to be reported, also when the
\* events of an older stream of the same peer are handled after it was created.
THEOREM QueueHasServer == Spec => []QueueServed
<1>1. Inv => QueueServed
  <2> SUFFICES ASSUME Inv, queue # 0
               PROVE  \/ attempt[queue] \in {"delayed", "opening", "opened", "failed"}
                      \/ watcher[queue] = "reading" \/ deadPend
    BY DEF QueueServed
  <2>1. queue \in Queues
    BY Bounds, TypeSplit DEF Inv, Numbers, Queues
  <2>2. attempt[queue] \in {"none", "delayed", "opening", "opened", "failed", "done"}
        /\ watcher[queue] \in {"none", "reading", "done"}
    BY <2>1, TypeSplit DEF Inv, States
  <2> QED BY <2>2 DEF Inv, Watched
<1> QED BY <1>1, Invariant, PTL
=============================================================================
