---------------------------- MODULE PeerLifecycle ----------------------------
(***************************************************************************)
(* The outbound side of one peer: its send queue in p.peers, the goroutine *)
(* that opens a stream for a queue (handleNewPeer), the one that watches   *)
(* the stream for its end (handlePeerDead), the one that writes to it      *)
(* (handleSendingMessages), and the events processLoop gets from them      *)
(* (comm.go, pubsub.go, peer_notify.go).                                   *)
(*                                                                         *)
(* Queue i, the attempt to open a stream for it and that stream, if any,   *)
(* share the number i.                                                     *)
(***************************************************************************)
EXTENDS Integers, FiniteSets

CONSTANTS
    MaxQueues,         \* bound: queues created for the peer
    MaxBackoffAttempts,\* respawns before the peer is given up
    MaxNotices         \* bound: how often notifyNewPeer is called for the peer

ASSUME BoundAssumption ==
    /\ MaxQueues \in Nat /\ MaxNotices \in Nat /\ MaxBackoffAttempts \in Nat \ {0}
    /\ MaxQueues >= MaxNotices + MaxBackoffAttempts  \* so that Spawn is never short

Queues == 1 .. MaxQueues

VARIABLES
    connected,   \* host.Network().Connectedness(pid) = Connected
    notices,     \* calls of notifyNewPeer so far
    newPend, newSignal, newNotifier,     \* newPeersPend, newPeers, notifyNewPeer under way
    deadPend, deadSignal, deadNotifier,  \* peerDeadPend, peerDead, notifyPeerDead under way
    blacklisted, \* p.blacklist.Contains(pid)
    queue,       \* p.peers[pid], 0 if there is none
    last,        \* the last queue created
    closed,      \* queues that were closed
    attempt,     \* the goroutine of handleNewPeer
    stream,      \* the stream it opened
    watcher,     \* the goroutine of handlePeerDead
    writer,      \* the goroutine of handleSendingMessages
    attempts,    \* deadPeerBackoff
    gsPeer       \* the router has the peer in gs.peers

netVars    == <<connected, notices>>
newVars    == <<newPend, newSignal, newNotifier>>
deadVars   == <<deadPend, deadSignal, deadNotifier>>
queueVars  == <<queue, last, closed>>
streamVars == <<attempt, stream, watcher, writer>>
vars == <<connected, notices, newPend, newSignal, newNotifier, deadPend, deadSignal,
          deadNotifier, blacklisted, queue, last, closed, attempt, stream, watcher, writer,
          attempts, gsPeer>>

Init ==
    /\ connected = FALSE /\ notices = 0
    /\ newPend = FALSE /\ newSignal = FALSE /\ newNotifier = FALSE
    /\ deadPend = FALSE /\ deadSignal = FALSE /\ deadNotifier = FALSE
    /\ blacklisted = FALSE
    /\ queue = 0 /\ last = 0 /\ closed = {}
    /\ attempt = [i \in Queues |-> "none"]
    /\ stream = [i \in Queues |-> "none"]
    /\ watcher = [i \in Queues |-> "none"]
    /\ writer = [i \in Queues |-> "none"]
    /\ attempts = 0
    /\ gsPeer = FALSE

-----------------------------------------------------------------------------
(* The network and the notifications.                                      *)

\* The first connection to the peer comes up
Connect ==
    /\ ~ connected
    /\ connected' = TRUE
    /\ UNCHANGED <<notices, newVars, deadVars, blacklisted, queueVars, streamVars, attempts, gsPeer>>

\* The peer is identified, or says that it speaks another protocol: notifyNewPeer
\* adds it to newPeersPend
NotifyNewPeer ==
    /\ ~ newNotifier /\ notices < MaxNotices
    /\ notices' = notices + 1
    /\ newPend' = TRUE
    /\ newNotifier' = TRUE
    /\ UNCHANGED <<connected, newSignal, deadVars, blacklisted, queueVars, streamVars, attempts,
                   gsPeer>>

\* Faulty variant: the signal is not sent
SignalNewDropped ==
    /\ newNotifier
    /\ newNotifier' = FALSE
    /\ UNCHANGED <<newSignal, netVars, newPend, deadVars, blacklisted, queueVars, streamVars,
                   attempts, gsPeer>>

\* ... and signals newPeers, without blocking
SignalNew ==
    /\ newNotifier
    /\ newSignal' = TRUE
    /\ newNotifier' = FALSE
    /\ UNCHANGED <<netVars, newPend, deadVars, blacklisted, queueVars, streamVars, attempts, gsPeer>>

\* The connection is lost, and every stream with it
Disconnect ==
    /\ connected
    /\ connected' = FALSE
    /\ stream' = [i \in Queues |-> IF stream[i] = "open" THEN "dead" ELSE stream[i]]
    /\ UNCHANGED <<notices, newVars, deadVars, blacklisted, queueVars, attempt, watcher, writer,
                   attempts, gsPeer>>

\* One of several connections, or the stream alone, goes away
StreamDies(i) ==
    /\ stream[i] = "open"
    /\ stream' = [stream EXCEPT ![i] = "dead"]
    /\ UNCHANGED <<netVars, newVars, deadVars, blacklisted, queueVars, attempt, watcher, writer,
                   attempts, gsPeer>>

\* handlePeerDead: the read returns, notifyPeerDead adds the peer to peerDeadPend
WatcherNotifies(i) ==
    /\ watcher[i] = "reading" /\ stream[i] = "dead"
    /\ watcher' = [watcher EXCEPT ![i] = "done"]
    /\ deadPend' = TRUE
    /\ deadNotifier' = TRUE
    /\ UNCHANGED <<netVars, newVars, deadSignal, blacklisted, queueVars, attempt, stream, writer,
                   attempts, gsPeer>>

SignalDead ==
    /\ deadNotifier
    /\ deadSignal' = TRUE
    /\ deadNotifier' = FALSE
    /\ UNCHANGED <<netVars, newVars, deadPend, blacklisted, queueVars, streamVars, attempts, gsPeer>>

-----------------------------------------------------------------------------
(* The goroutines of a queue.                                              *)

\* handleNewPeerWithBackoff: the delay is over
BackoffOver(i) ==
    /\ attempt[i] = "delayed"
    /\ attempt' = [attempt EXCEPT ![i] = "opening"]
    /\ UNCHANGED <<netVars, newVars, deadVars, blacklisted, queueVars, stream, watcher, writer,
                   attempts, gsPeer>>

\* handleNewPeer: host.NewStream succeeds, writer and watcher start
OpenStream(i) ==
    /\ attempt[i] = "opening" /\ connected
    /\ attempt' = [attempt EXCEPT ![i] = "opened"]
    /\ stream' = [stream EXCEPT ![i] = "open"]
    /\ watcher' = [watcher EXCEPT ![i] = "reading"]
    /\ writer' = [writer EXCEPT ![i] = "hello"]
    /\ UNCHANGED <<netVars, newVars, deadVars, blacklisted, queueVars, attempts, gsPeer>>

\* handleNewPeer: host.NewStream fails
OpenFails(i) ==
    /\ attempt[i] = "opening"
    /\ attempt' = [attempt EXCEPT ![i] = "failed"]
    /\ UNCHANGED <<netVars, newVars, deadVars, blacklisted, queueVars, stream, watcher, writer,
                   attempts, gsPeer>>

\* handleSendingMessages: Pop returns since the queue is closed, or the write fails;
\* in both cases our side of the stream ends
WriterExits(i) ==
    /\ writer[i] = "popping"
    /\ i \in closed \/ stream[i] = "dead"
    /\ writer' = [writer EXCEPT ![i] = "done"]
    /\ stream' = [stream EXCEPT ![i] = "dead"]
    /\ UNCHANGED <<netVars, newVars, deadVars, blacklisted, queueVars, attempt, watcher, attempts,
                   gsPeer>>

-----------------------------------------------------------------------------
(* processLoop.                                                            *)

\* A new queue and a goroutine that opens a stream for it
Spawn(state) ==
    /\ last < MaxQueues
    /\ last' = last + 1
    /\ queue' = last + 1
    /\ attempt' = [attempt EXCEPT ![last + 1] = state]

\* handlePendingPeers
HandlePendingPeers ==
    /\ newSignal
    /\ newSignal' = FALSE
    /\ newPend' = FALSE
    /\ IF newPend /\ connected /\ queue = 0 /\ ~ blacklisted
       THEN Spawn("opening")
       ELSE UNCHANGED <<queue, last, attempt>>
    /\ UNCHANGED <<netVars, newNotifier, deadVars, blacklisted, closed, stream, watcher, writer,
                   attempts, gsPeer>>

\* newPeerStream: Cancel and Reset for a peer that is gone or blacklisted, else the
\* router is told and the writer gets its first message
NewPeerStream(i) ==
    /\ attempt[i] = "opened"
    /\ attempt' = [attempt EXCEPT ![i] = "done"]
    /\ IF queue = 0 \/ blacklisted
       THEN /\ stream' = [stream EXCEPT ![i] = "dead"]
            /\ writer' = [writer EXCEPT ![i] = "done"]
            /\ closed' = closed \cup ({queue} \ {0})
            /\ queue' = 0
            /\ UNCHANGED gsPeer
       ELSE /\ gsPeer' = TRUE
            /\ writer' = [writer EXCEPT ![i] = "popping"]
            /\ UNCHANGED <<stream, closed, queue>>
    /\ UNCHANGED <<netVars, newVars, deadVars, blacklisted, last, watcher, attempts>>

\* Faulty variant: the queue stays
NewPeerErrorIgnored(i) ==
    /\ attempt[i] = "failed"
    /\ attempt' = [attempt EXCEPT ![i] = "done"]
    /\ UNCHANGED <<queue, netVars, newVars, deadVars, blacklisted, last, closed, stream, watcher,
                   writer, attempts, gsPeer>>

\* newPeerError
NewPeerError(i) ==
    /\ attempt[i] = "failed"
    /\ attempt' = [attempt EXCEPT ![i] = "done"]
    /\ queue' = 0
    /\ UNCHANGED <<netVars, newVars, deadVars, blacklisted, last, closed, stream, watcher, writer,
                   attempts, gsPeer>>

\* Whether a dead peer gets another queue; updateAndGet fails after MaxBackoffAttempts
Respawns == connected /\ attempts < MaxBackoffAttempts

\* The last respawn is longer ago than TimeToLive: updateAndGet, or cleanup, forgets
\* it.  The bound leaves enough queues for what can follow.
AttemptsForgotten ==
    /\ attempts # 0
    /\ last + MaxNotices + MaxBackoffAttempts <= MaxQueues
    /\ attempts' = 0
    /\ UNCHANGED <<netVars, newVars, deadVars, blacklisted, queueVars, streamVars, gsPeer>>

\* What handleDeadPeers leaves in p.peers if it does not respawn
QueueAfterDeath == 0

\* Faulty variant: the notification is swallowed
HandleDeadPeersIgnored ==
    /\ deadSignal
    /\ deadSignal' = FALSE
    /\ deadPend' = FALSE
    /\ UNCHANGED <<queueVars, attempt, attempts, gsPeer, netVars, newVars, deadNotifier,
                   blacklisted, stream, watcher, writer>>

\* handleDeadPeers
HandleDeadPeers ==
    /\ deadSignal
    /\ deadSignal' = FALSE
    /\ deadPend' = FALSE
    /\ IF ~ deadPend \/ queue = 0
       THEN UNCHANGED <<queueVars, attempt, attempts, gsPeer>>
       ELSE /\ closed' = closed \cup {queue}
            /\ gsPeer' = FALSE
            /\ IF Respawns THEN Spawn("delayed") /\ attempts' = attempts + 1
               ELSE queue' = QueueAfterDeath /\ UNCHANGED <<last, attempt, attempts>>
    /\ UNCHANGED <<netVars, newVars, deadNotifier, blacklisted, stream, watcher, writer>>

\* blacklistPeer
BlacklistPeer ==
    /\ ~ blacklisted
    /\ blacklisted' = TRUE
    /\ IF queue = 0 THEN UNCHANGED <<queue, closed, gsPeer>>
       ELSE /\ closed' = closed \cup {queue}
            /\ queue' = 0
            /\ gsPeer' = FALSE
    /\ UNCHANGED <<netVars, newVars, deadVars, last, streamVars, attempts>>

\* An entry of a TimeCachedBlacklist expires
BlacklistExpires ==
    /\ blacklisted
    /\ blacklisted' = FALSE
    /\ UNCHANGED <<netVars, newVars, deadVars, queueVars, streamVars, attempts, gsPeer>>

-----------------------------------------------------------------------------
Goroutines(i) ==
    BackoffOver(i) \/ OpenStream(i) \/ OpenFails(i) \/ WatcherNotifies(i) \/ WriterExits(i)

ProcessLoop ==
    \/ HandlePendingPeers \/ HandleDeadPeers
    \/ \E i \in Queues : NewPeerStream(i) \/ NewPeerError(i)

Next ==
    \/ Connect \/ NotifyNewPeer \/ Disconnect \/ SignalNew \/ SignalDead
    \/ ProcessLoop \/ BlacklistPeer \/ BlacklistExpires \/ AttemptsForgotten
    \/ \E i \in Queues : StreamDies(i) \/ Goroutines(i)

Spec == Init /\ [][Next]_vars

\* Goroutines run, and processLoop serves each of its channels eventually.  The
\* network, the peer and the application are free.
Fairness ==
    /\ WF_vars(SignalNew) /\ WF_vars(SignalDead)
    /\ WF_vars(HandlePendingPeers) /\ WF_vars(HandleDeadPeers)
    /\ \A i \in Queues : WF_vars(NewPeerStream(i)) /\ WF_vars(NewPeerError(i))
                         /\ WF_vars(Goroutines(i))

-----------------------------------------------------------------------------
\* The types of the state.
TypeOK ==
    /\ connected \in BOOLEAN /\ blacklisted \in BOOLEAN /\ gsPeer \in BOOLEAN
    /\ newPend \in BOOLEAN /\ newSignal \in BOOLEAN /\ newNotifier \in BOOLEAN
    /\ deadPend \in BOOLEAN /\ deadSignal \in BOOLEAN /\ deadNotifier \in BOOLEAN
    /\ notices \in 0 .. MaxNotices /\ attempts \in 0 .. MaxBackoffAttempts
    /\ queue \in 0 .. MaxQueues /\ last \in 0 .. MaxQueues
    /\ closed \subseteq Queues
    /\ attempt \in [Queues -> {"none", "delayed", "opening", "opened", "failed", "done"}]
    /\ stream \in [Queues -> {"none", "open", "dead"}]
    /\ watcher \in [Queues -> {"none", "reading", "done"}]
    /\ writer \in [Queues -> {"none", "hello", "popping", "done"}]

\* p.peers never holds a closed queue, to which a push would panic.
NoClosedQueue == queue \notin closed

\* A notification is not lost though its signal is dropped when the channel is full:
\* as long as the peer is pending, a signal is in the channel or on its way.
PendingSignalled ==
    /\ newPend => newSignal \/ newNotifier
    /\ deadPend => deadSignal \/ deadNotifier

\* The queue in p.peers has a goroutine that serves it, or that is about to report
\* its end: a queue nobody drains would fill up and swallow every RPC for the peer.
QueueServed ==
    queue # 0 =>
        \/ attempt[queue] \in {"delayed", "opening", "opened", "failed"}
        \/ writer[queue] = "popping" /\ stream[queue] = "open"
        \/ watcher[queue] = "reading" \/ deadPend

\* When the peer stays away, its queue goes away.
DisconnectedForgotten == (<>[]~connected) => <>[](queue = 0)
=============================================================================
