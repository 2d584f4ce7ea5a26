----------------------------- MODULE MessageBatch -----------------------------
(***************************************************************************)
(* Batch publishing: messages collected in a MessageBatch by goroutines of *)
(* the application, taken by calls of PublishBatch, handed to processLoop  *)
(* and scheduled round robin (topic.go, pubsub.go, messagebatch.go).       *)
(***************************************************************************)
EXTENDS Naturals, FiniteSets, Sequences, SequencesExt

CONSTANTS
    Texts,       \* messages
    LocalOnly,   \* the ones published WithLocalPublication(true)
    Callers,     \* goroutines that call PublishBatch
    MaxBatch,    \* bound: messages in a batch
    Fanout       \* RPCs that gs.rpcs(msg) makes of each message

ASSUME BatchAssumption ==
    /\ IsFiniteSet(Texts) /\ LocalOnly \subseteq Texts /\ IsFiniteSet(Callers) /\ MaxBatch \in Nat
    /\ Fanout \in [Texts -> Nat]

VARIABLES
    batch,      \* MessageBatch.messages
    taken,      \* what a caller of PublishBatch took and has not yet handed over
    channel,    \* sendMessageBatch, of capacity 1
    rpcs,       \* the scheduler's map: RPCs left of each message id in it
    visit,      \* message ids the current round has still to visit
    delivered,  \* messages whose ids markDelivered has recorded
    local,      \* messages that reached the in-process subscribers, as often as they did
    sent        \* RPCs sent for each message

batchVars == <<batch, taken, channel, rpcs, visit, delivered, local, sent>>
Idle == "idle"

BatchInit ==
    /\ batch = <<>>
    /\ taken = [c \in Callers |-> <<Idle>>]
    /\ channel = <<>>
    /\ rpcs = << >> /\ visit = {}
    /\ delivered = {}
    /\ local = [m \in Texts |-> 0]
    /\ sent = [m \in Texts |-> 0]

-----------------------------------------------------------------------------
\* AddToBatch, after validation; with ids made of the content a message may come again
AddToBatch(m) ==
    /\ Len(batch) < MaxBatch
    /\ batch' = Append(batch, m)
    /\ UNCHANGED <<taken, channel, rpcs, visit, delivered, local, sent>>

\* Publish of the same message on its own, so that processLoop has it before the batch
PublishAlone(m) ==
    /\ m \notin delivered /\ DOMAIN rpcs = {}
    /\ delivered' = delivered \cup {m}
    /\ local' = [local EXCEPT ![m] = @ + 1]
    /\ sent' = [sent EXCEPT ![m] = IF m \in LocalOnly THEN 0 ELSE Fanout[m]]
    /\ UNCHANGED <<batch, taken, channel, rpcs, visit>>

\* PublishBatch: batch.take
Take(c) ==
    /\ taken[c] = <<Idle>>
    /\ taken' = [taken EXCEPT ![c] = batch]
    /\ batch' = <<>>
    /\ UNCHANGED <<channel, rpcs, visit, delivered, local, sent>>

\* ... and the send on the channel, which blocks while it is full
HandOver(c) ==
    /\ taken[c] # <<Idle>> /\ channel = <<>>
    /\ channel' = <<taken[c]>>
    /\ taken' = [taken EXCEPT ![c] = <<Idle>>]
    /\ UNCHANGED <<batch, rpcs, visit, delivered, local, sent>>

\* Faulty variant: a message delivered before is published again
FreshAlways(msgs) == Range(msgs)

\* markDelivered: the messages of a batch that have not been delivered before
Fresh(msgs) == Range(msgs) \ delivered

\* publishMessageBatch: notifySubs, then AddRPC for every RPC of every message
PublishMessageBatch ==
    /\ channel # <<>> /\ DOMAIN rpcs = {}
    /\ channel' = <<>>
    /\ delivered' = delivered \cup Range(channel[1])
    /\ local' = [m \in Texts |-> IF m \in Fresh(channel[1]) THEN local[m] + 1 ELSE local[m]]
    /\ rpcs' = [m \in {f \in Fresh(channel[1]) : Fanout[f] > 0} |-> Fanout[m]]
    /\ visit' = DOMAIN rpcs'
    /\ UNCHANGED <<batch, taken, sent>>

\* The ids of the round that are left after m was visited
NextVisit(m) == visit \ {m}

\* RoundRobinMessageIDScheduler.All: one RPC of a message id, in any order
ScheduleOne(m) ==
    /\ m \in visit /\ rpcs[m] > 0
    /\ sent' = [sent EXCEPT ![m] = @ + 1]
    /\ rpcs' = [rpcs EXCEPT ![m] = @ - 1]
    /\ visit' = NextVisit(m)
    /\ UNCHANGED <<batch, taken, channel, delivered, local>>

\* ... an id without RPCs is removed from the map
ScheduleDelete(m) ==
    /\ m \in visit /\ rpcs[m] = 0
    /\ rpcs' = [k \in DOMAIN rpcs \ {m} |-> rpcs[k]]
    /\ visit' = visit \ {m}
    /\ UNCHANGED <<batch, taken, channel, delivered, local, sent>>

\* ... and the next round begins
ScheduleRound ==
    /\ visit = {} /\ DOMAIN rpcs # {}
    /\ visit' = DOMAIN rpcs
    /\ UNCHANGED <<batch, taken, channel, rpcs, delivered, local, sent>>

-----------------------------------------------------------------------------
BatchNext ==
    \/ \E m \in Texts : AddToBatch(m) \/ PublishAlone(m) \/ ScheduleOne(m) \/ ScheduleDelete(m)
    \/ \E c \in Callers : Take(c) \/ HandOver(c)
    \/ PublishMessageBatch \/ ScheduleRound

-----------------------------------------------------------------------------
\* However calls of AddToBatch, Publish and PublishBatch interleave, a message reaches
\* the subscribers once, and the network once for each RPC made of it.  One that is for
\* this process only is sent all the same if it comes in a batch (publishMessageBatch does
\* not look at msg.Local), and never if it was published on its own.
BatchOnce ==
    /\ \A m \in delivered : /\ local[m] = 1
                            /\ m \in DOMAIN rpcs => sent[m] + rpcs[m] = Fanout[m]
                            /\ m \notin DOMAIN rpcs =>
                                 sent[m] = Fanout[m] \/ (m \in LocalOnly /\ sent[m] = 0)
    /\ \A m \in Texts \ delivered : local[m] = 0 /\ sent[m] = 0
=============================================================================
