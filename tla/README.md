# Verification of go-libp2p-pubsub

TLA+ models of the parts of this library whose correctness depends on the order
of events: the gossipsub router's mesh maintenance and gossip, the way of a message
through validation, scoring, topic announcements and events, the outbound RPC queue,
the life cycle of a peer's streams, and the goroutines that connect them. The models
are checked with TLC on small instances; the safety properties, with few exceptions,
are proved with TLAPS for every instance. `PROJECT.json` maps every definition to the lines
it models, and lists the runs, the hazards they are aimed at and the findings.

## The system

A `PubSub` (pubsub.go) is an actor: `processLoop` owns the state (`p.peers`,
`p.topics`, `mySubs`, `myRelays`, ...) and serves a set of channels, one event at
a time. It calls a router (gossipsub.go, floodsub.go, randomsub.go), whose state
is only touched from there. Around the loop run goroutines:

| goroutine | code | talks to processLoop over |
|---|---|---|
| one reader per inbound stream | `handleNewStream`, comm.go | `incoming` |
| opener of an outbound stream | `handleNewPeer`, comm.go | `newPeerStream`, `newPeerError` |
| writer of an outbound stream | `handleSendingMessages`, comm.go | the peer's `rpcQueue` |
| watcher of an outbound stream | `handlePeerDead`, comm.go | `peerDeadPend` and `peerDead` |
| watcher of the host's peers | `watchForNewPeers`, peer_notify.go | `newPeersPend` and `newPeers` |
| heartbeat timer | `heartbeatTimer`, gossipsub.go | `eval` |
| announcement retries | `announceRetry`, pubsub.go | `eval` |
| validation workers | validation.go | `validateQ`, `sendMsg` |
| application | topic.go, subscription.go | `addSub`, `cancelCh`, `addRelay`, ... |

### Inventory

| component | state | operations | what is hard | what makes it correct |
|---|---|---|---|---|
| Gossipsub mesh and fanout (gossipsub.go) | `mesh`, `fanout`, `lastpub`, `backoff`, `peers`, `outbound`, `direct`, `control`, `gossip` | `Join`, `Leave`, `handleGraft`, `handlePrune`, `heartbeat`, `Publish`, `Preprocess`, `sendRPC`, stream events | long sequences of legal events; selections at the limits of D, Dlo, Dhi, Dscore, Dout; state chosen under an old score; dropped control messages | only eligible peers in a mesh, backoffs kept, degree bounds, outbound quota, no stale or lost GRAFT and PRUNE, the mesh recovers |
| RPC queue (rpc_queue.go) | two slices, `closed`, two condition variables | `Push`, `UrgentPush`, `Pop`, `Close` | lost wakeups, cancellation, close while blocked | a bounded two class queue; nobody sleeps on what is there |
| Inbound streams (comm.go) | `inboundStreams`, `done` channels, `incoming` | `handleNewStream` and its deferred function | streams that replace one another, shutdown | notifications in order, no entry or topic state left behind, no handler stuck |
| Outbound peers (comm.go, pubsub.go, peer_notify.go, backoff.go) | `p.peers`, pending sets and their signals, respawn counts | `handlePendingPeers`, `newPeerStream`, `newPeerError`, `handleDeadPeers`, blacklist | events of an old stream that are handled after a new queue was made | the queue in `p.peers` is open and served, no notification is lost, a peer that is gone is forgotten |
| Subscriptions and announcements (pubsub.go, subscription.go) | `mySubs`, `myRelays`, `myTopics` | add and remove subscription or relay, `announce`, `announceRetry`, hello packet | a retry that meets a newer announcement, a full queue | the peer's view converges to ours |
| Validation (validation.go) | `validateQ`, throttles, seen and delivered caches | `Push`, `validate`, `doValidateTopic`, `pushMsg`, `publishMessage` | asynchronous validation of copies, queues at their limit | a message is delivered at most once, and only when accepted |
| Gossip (mcache.go, gossip_tracer.go, gossipsub.go) | history window, promises, `peerhave`, `iasked`, `unwanted` | `emitGossip`, `handleIHave`, `handleIWant`, `handleIDontWant`, `Shift` | limits per heartbeat, promises that expire during validation | bounded work per peer, no penalty for a kept promise |
| Scoring and gating (score.go, peer_gater.go) | delivery records, per topic counters, IP sets | tracer callbacks, decay | records of a message whose validation is pending; peers that leave and return; shared addresses | rewards follow the outcome, penalties survive a reconnection, trackers and reference counts stay true |
| Topic events (topic.go) | the coalescing event log and its signal | `sendNotification`, `NextPeerEvent` | coalescing while a reader waits | events of a peer alternate, none is lost |
| Extensions, partial messages (extensions.go, partialmessages) | sent and received announcements, group state, counters of groups peers opened | hello exchange, `HandleRPC`, `PublishPartial`, heartbeat | the counters are kept apart from the groups | nobody is refused for groups that are gone |
| RPC splitting (pubsub.go) | | `split` | frames and entries at the limit | every entry once, in order, within the limits |
| Batches (messagebatch.go) | the batch, the scheduler's map | `AddToBatch`, `PublishBatch`, `All` | concurrent fill and take, duplicates | each message goes out once |
| Discovery, filters, signing | small | | | pure functions or I/O |

## Modules

| module | models | checked in |
|---|---|---|
| `GossipSubRouter` | the router of one node as `processLoop` drives it | `mesh`, `direct`, `links`, `lost_prune` |
| `Gossip` | seen caches, message cache, IHAVE, IWANT, IDONTWANT, promises | `gossip` |
| `Validation` | the way of a message: entry checks, queue, workers, validators, throttles, publication, delivery | `validation`, `double_count` |
| `MessageTracers` | the tracer callbacks of a message, as functions that `Validation` calls | `validation`, `double_count` |
| `PeerScore` | statistics, retention, IP tracking and score of peers, for one topic | `scoring` |
| `PeerGater` | statistics shared by address, their reference counts | `scoring` |
| `GatedStreams` | `PeerLifecycle` and `PeerGater` together: what the gater is told of one peer's streams | `twice_counted` |
| `Announcements` | our subscriptions and relays of a topic, and what a remote peer believes of them | `gossip`, `fanout_retry` |
| `TopicEvents` | remote subscriptions, the filter, event handlers and their readers | `gossip` |
| `InboundStreams` | `handleNewStream` for the streams of one peer | `streams` |
| `PeerLifecycle` | the outbound side of one peer | `streams` |
| `PartialMessages` | extensions and groups of partial messages of one topic | `sending` |
| `MessageBatch` | batches and their round robin scheduler | `sending` |
| `RpcSplit` | `split`, as a function on sequences | `sending` |
| `RpcQueue` | rpc_queue.go, goroutine by goroutine | `sending` |
| `BoundedQueue` | the abstract queue that `RpcQueue` implements | |
| `MC*` | instances for TLC | |
| `*_proofs` | theorems, see below | |
| `Inductions` | lemmas on loops, sequences and sums that the proofs share | |

`Validation` and `MessageTracers` are one composition: the callbacks run at the
points at which the pipeline makes them. Where a run covers several modules that
share no state (`streams`, `scoring`, `gossip`, `sending`), its MC module has a
variable `part` that says which of them moves in a behaviour; the others stay in
their initial states, so the run's states are the sum and not the product of the
parts. Fairness cannot be spoiled by that: in the initial states of the parts that
do not move nothing fair is enabled, or the fairness is restricted to the part.

A definition whose comment begins with "Faulty variant" is not part of a model:
it is a plausible mistake in the definition that follows, and is used to see that
the properties notice it ("mutants" in `PROJECT.json`).

### GossipSubRouter

Every action is one event of `processLoop`, with everything the handler does:
`JoinTopic` is `announce` followed by `Join`, `HandleControl` is `handleGraft`,
`handlePrune` and the reply of `HandleRPC`, `Heartbeat` is the whole `heartbeat`
including `sendGraftPrune`, `emitGossip` and `flush`.

* Maps with a domain that matters (`gs.mesh`, `gs.fanout`) are a set of keys
  (`joined`, `fanoutTopics`) and a total function that is empty elsewhere.
* Shuffles, random selections and map iteration are nondeterministic choices:
  `GetPeers`, `Trimmed`, `MeshOutcomes` and so on are the *sets* of possible
  outcomes, so that a property of the trimming is checked for every shuffle.
* Time: `backoff[t][p]` is the time left, `lastpub[t]` the time passed; `Tick` is
  the clock. `Expired` is as far in the past as matters, since all that
  `clearBackoff` asks is whether an entry is older than the slack. A PRUNE asks
  for a number of seconds that Go multiplies without an overflow test, so it can
  also give an expiry in the past; `PeerBackoffs` holds the results.
* Scores are integers that change at any moment (`ScoreChange`): the router
  compares them with zero, with thresholds and with one another, nothing else.
  Penalties given by the router are such changes.
* `link[p]`, for the peers in `LaggingPeers`, is the content of the send queue,
  `gs.control[p]` and, as a history variable, `told`: the last GRAFT or PRUNE of
  each topic that the writer has written. The other peers are as if their queues
  were always empty. The writer runs concurrently with a handler: `Drained` lets
  it take any number of RPCs before each push. Pending gossip only matters as a
  reason to send an RPC, and does not survive a heartbeat.
* RPCs are sent whole (`RpcSplit` models `split`), and the contents of IHAVE, IWANT
  and IDONTWANT are in `Gossip`; peer exchange is left out.
* The events of `StreamNext` can come in any order that `PeerLifecycle` and
  `InboundStreams` allow, and in some they do not allow: that is on the safe side
  for the invariants, and the findings do not depend on it.

### RpcQueue

One step per critical section, except that `Pop` is cut between its test of
`ctx.Done` and `dataAvailable.Wait` (`PopTest`, `PopWait`): the callback of
`context.AfterFunc` broadcasts without the mutex and can run there. `dataWait`
and `spaceWait` are the wait lists of the `sync.Cond`s, in order of arrival, as
the runtime keeps them.

### InboundStreams

One process per stream with the steps of `handleNewStream` as program counters;
the deferred function is three steps, because other handlers run between the
removal of the entry, the notification and `close(done)`. A `select` with
`ctx.Done` is a disjunction. `subscribed` stands for the peer's entries in
`p.topics`; `open` is what `processLoop` was told.

### PeerLifecycle

Queue i, the goroutine that opens a stream for it and that stream share a number.
`newPeerStream` and `newPeerError` are unbuffered: a goroutine whose `attempt` is
`opened` or `failed` is blocked in its send. As in the code, they carry the peer
and not the queue, so the handlers act on whatever is in `p.peers` then.
`deadNotifier` and `newNotifier` are calls of `notifyPeerDead` and `notifyNewPeer`
between their update of the pending set and their signal. The delay of a respawn
can be of any length. The shutdown of the PubSub is not modelled here.

### Gossip

One topic that we are subscribed to. The unit of time is the heartbeat; the caches
keep the time left of an entry, and the sweep of a time cache is an action of its own
(`SweepSeen`, `SweepDelivered`), since a first-seen cache goes on to report an expired
entry until it is swept. `handleIHave` is cut in two: validations run beside
`processLoop` and may mark a message as seen between the selection of the ids and the
promise. `handleIHave` is called for every RPC with a control message and counts it in
`peerhave`, so `HandleIHave` may come with no ids; the handlers of the rest of the RPC
are actions of their own. `stage` is what the validation of a copy has reached; a copy
that is rejected before it is validated (`RejectUnseen`) settles promises too, unless
its signature is missing or wrong. `HistoryLength <=
SeenTTL` is an assumption: with a cache window longer than the delivered cache a
message would be put twice and the window would take the newer entry along.

### Validation and MessageTracers

`processLoop`, the workers, the tasks of asynchronous validation and the publishing
goroutines are processes. A worker's step is cut where it blocks or where another
process can see the difference: the mark in the seen cache, the inline validators, the
send to `processLoop`. A validator's result is any of accept, ignore and reject; a
timeout is an ignore. A validator that outlives its validation (the loop that collects
the results stops at the first reject) keeps its slot (`Orphan`) until it is done.
What is wrong with a copy (`Flaw`) is an input: whether the signature is bad, the
policy violated, the source blacklisted or ourselves. The tracers keep a ledger per
peer and message of what score.go was asked to count.

### PeerScore and PeerGater

Counters are small integers: decay halves them, and a cap named in the constants stops
those the code does not cap. The formula of `Score` is kept with integer weights, for
one topic. Connections come and go with their addresses and are only seen by
`refreshIPs` and the stream events, as in the code. In `PeerGater` the objects behind the two maps of pointers are
numbers, so that one may outlive its entry in either map; `AcceptFrom`'s random draw
has no effect on the state. `open[p]` is the number of streams of p that the gater was
told of and not told the end of. `PeerGater` lets a new stream be announced at any time,
up to `MaxOpen`, since neither the gater nor its caller asks whether there is one
already; in `GatedStreams` the calls come exactly when `processLoop` makes them
(`StreamAnnounced`, `QueueDropped`).

### Announcements and TopicEvents

`Announcements` has both ends of one link: our handle, subscriptions, relays and send
queue, and our entry in the peer's topics map (`view`). The writer and the network are
one action, `Write`, since a stream keeps the order. When our stream dies, the peer
learns of it later: `closing` counts the closedStream notifications it has yet to handle,
which may come after the hello of our next stream (`ClosedStream`). `wiped` remembers
that the peer cleared our entry, through such a late notification or its own
`handleDeadPeers`, and has not heard an announcement since; `misjudged` that
`announceRetry` took the subscriptions of a fanout-only handle for interest. `MaxMoves` bounds the steps of the application and
the network in a behaviour, so that every one comes to rest. `TopicEvents` is the
other direction, for several peers: subscription changes reach us in bundles, through a
filter or not, and every change is logged for the event handlers, whose readers are
processes that wait for the signal channel.

### PartialMessages, MessageBatch, RpcSplit

`PartialMessages` has the two maps of extensions.go, and the groups of one topic with
the peers in their `peerState`. What `partialMessageRouter.MeshPeers` yields to
`PublishPartial` is any set of peers: it does not ask for the extension of a peer that
requests partial messages with its subscription, since `&&` binds tighter than `||`
there. `MessageBatch` has the
goroutines that fill and take a batch, the channel and the scheduler's rounds in any
order of a map. `RpcSplit` represents an RPC by the sizes of its parts: the messages,
the other entries with the list each is in (IWANT, IDONTWANT, the IHAVE of a topic), and
what only the fast path takes along (the partial message). The control
message and each list of ids take one unit as soon as they exist. `split` is a
function on sequences, with one recursive function for each of its two passes; the RPC is
any within the bounds, the only step is the call, and `called` says that it was made.

## What is checked

`PROJECT.json` has one entry per run. All passing runs finish within four
minutes with two workers.

| run | bounds | shows |
|---|---|---|
| `mesh` | 3 peers, one of which only speaks floodsub, 1 topic, D = Dlo = Dhi = 2, scores -1..1, a PRUNE of 1 or in the past | backoffs respected; mesh and fanout exclusive; every trimming keeps the best; a peer that enters a mesh is eligible |
| `direct` | 5 peers: a direct one, one refused by the filter, three ordinary ones, Dhi = 2 | neither of the first two enters a mesh, the second no fanout; peers that dialled us hold at most Dhi places |
| `links` | 1 peer whose streams come and go, whose writer lags and which is made direct at times; a queue of 1 | a dropped PRUNE is retried and not overtaken; expired backoffs are erased, a mesh below Dlo is refilled |
| `streams` | 3 inbound streams, channel of 1, 1 RPC each; 2 notices, 1 respawn, again after `TimeToLive`, 5 queues | order of notifications, no leak, a reset handler ends; no lost signal, a served queue, a peer that stays away is forgotten |
| `validation` | 2 peers, 2 messages (one published here too, one copy forged, one sent twice), 1 worker, 1 inline and 2 asynchronous validators, every queue and throttle of size 1 | delivery once and only when vetted; no suppression by a forged copy; records agree with the outcome; the pipeline drains |
| `scoring` | 2 peers, up to 2 connections each, 1 address; 2 gated peers on 2 addresses, up to 2 streams of each | trackers and mesh flags true, no whitewashing by reconnecting, no more connected peers counted than streams reported |
| `gossip` | 2 subscriptions, 1 relay, a queue of 1, 11 moves; 2 peers, 1 handler, 2 readers, bundles of 3 with a limit of 2; gossip of 2 messages with 1 peer, a window of 2 of which 1 is gossiped, limits of 1 and 2, both cache strategies | interest and its consequences agree; the peer's view converges, with the exceptions below; a fanout-only handle announces nothing of its own; events in order, no reader oversleeps; the window is served, promise indexes agree, IDONTWANT bounded, promises are settled |
| `sending` | 2 peers, 2 groups; 2 messages, one of them local when it is published alone, 2 callers; RPCs of up to 2 messages and 3 entries of 3 sizes, IHAVEs of 2 topics, with or without a partial message; 2 pushers, 2 poppers, 2 places | group counters true, `split` faithful, a batch goes out once, no lost wakeup, refinement of `BoundedQueue`, Close releases everybody |

Why these bounds are enough: the tests of the router compare the size of a mesh
with D, Dlo and Dhi, so that one peer more than Dhi reaches both sides of each;
one topic suffices where topics do not share state, and they only do so in
`gs.control`, which `lost_prune` checks with two. A wait list of two goroutines
distinguishes Signal from Broadcast and shows whether the right one is woken. A
chain of three streams has a handler that is replaced while it waits for its
predecessor. Five queues have events of older queues under way together with a
respawn. In the pipeline every queue is full with one element, and two messages,
three copies and a publication of ours keep them so; the second asynchronous
validator is the one that outlives a reject. Two peers and one address make a
colocation, two addresses a move. Eleven moves of `Announcements` suffice for a full queue,
two retries, a closed and reopened handle and a new stream in one behaviour. The
sizes of `RpcSplit` are one that fits, one that fits once and one that never fits.
For the properties that are proved the bounds do not matter.

Peers are symmetric in `mesh` (among those that speak gossipsub) and `direct` (among
the ordinary ones), the gated peers and their addresses in `scoring`; runs with liveness properties use no symmetry.

Deadlock is checked for the router and for `scoring`, which always have a heartbeat or
a refresh to do. It is not checked where the system may come to rest:
all messages handled, all pushes done, all streams closed, the moves used up.

### Fairness

* `GossipSubRouter`: weak fairness of `Heartbeat` (the timer goroutine sends one
  per interval and `processLoop` serves `eval`) and of `Tick`. Nothing is assumed
  of peers, the application or scores.
* `Gossip`: weak fairness of the heartbeat and of the second half of `handleIHave`.
* `Validation`: weak fairness of the pipeline as a whole (workers, tasks, validators,
  publishers in their send, `processLoop`): that something in it which can run does.
  Validators end because of their timeout. Peers and the application are free.
* `Announcements`: weak fairness of the writer, of the opening of a stream, of a
  retry, whose delay is at most a second, and of the peer's handling of a closedStream.
* `RpcQueue`: weak fairness of a goroutine that wants the mutex and of the callback.
  Nobody has to call anything. With finitely many pushes every behaviour comes to
  rest, so that the handover of `sync.Mutex` to a starving waiter is not needed.
* `InboundStreams`: weak fairness of `processLoop` and of a handler. The remote side
  is free. With finitely many RPCs no handler can be overtaken for ever, so that the
  order in which senders on a channel are served does not matter.
* `PeerLifecycle`: weak fairness of goroutines and of each event that waits for
  `processLoop` (its `select` picks among ready channels at random). The network,
  the peer and the application are free.

## Findings

Each of these is a run that expects a violation; `PROJECT.json` quotes the text that
the code contradicts.

| run | what happens |
|---|---|
| `lost_prune` | `pushControl` overwrites the pending control message of another topic, whose PRUNE is lost |
| `fanout_retry` | a topic with an announcement to be retried is closed and joined again as fanout-only: `announceRetry` looks at the subscriptions only and announces it |
| `twice_counted` | a stream dies before `processLoop` takes its newPeerStream; peerDead is served first and respawns the queue; then the stale stream and the respawned one are both accepted, and the gater's `connected` is 2 for one peer. A single close leaves 1, so that the statistics are never retired |
| `double_count` | the first deliverer of a message is not entered into `drec.peers`: its second copy, after the message is valid, is credited as a near first delivery (score.go:819) |

Other places at which a stronger property than the checked one does not hold, met
while looking for the properties that do:

* RPC queue: the callback of a cancelled context broadcasts without the mutex
  (rpc_queue.go:119) and can run between a Pop's test of `ctx.Done` and its `Wait`: the
  Pop sleeps until a push or Close. The writer that calls Pop is also woken by Close,
  so nothing of the library hangs on it.
* Inbound streams: the entry of a handler is deleted before its closedStream
  notification is sent (comm.go:63), so a stream opened in between is announced first,
  and the late notification clears its topic state, for good unless the peer announces
  something new. `ReplacedFirst` is about handlers that found their predecessor, and
  `ViewConverges` excludes the links on which this happened (`wiped`).
* RPC splitting: the slow path of `split` visits only subscriptions and control entries
  (pubsub.go:415). When the RPC without its messages is too large, its partial message
  is in no part, not even in an oversized one, and no drop is traced: `SplitFaithful`
  promises it for the fast path only.
* Batches: `publishMessageBatch` (pubsub.go:1696) has no test of `msg.Local`, so that a
  message added with `WithLocalPublication` is sent to peers; `BatchOnce` says so.
* `handleDeadPeers` (pubsub.go:1164) clears the subscriptions of a peer whose inbound
  stream is alive; the peer does not announce them again. `ViewConverges` excludes the
  links on which the other side did so (`wiped`).
* The other side of `fanout_retry`: a retry of an earlier handle's unsubscription is
  dropped when the topic is open fanout-only with a subscription, and the peer goes on to
  believe in the old one. `ViewConverges` excludes both sides (`misjudged`).
* `Join` moves a fanout into the mesh without a look at `gs.direct`, so
  `NoDirectGraft` needs a fixed set of direct peers (publish, `AddDirectPeer`, `Join`).
* `TrimKeepsBest` needs Dscore + Dout <= D: beyond it, outbound peers displace some of
  the best scoring ones. `validate` only asks for Dscore <= Dhi.
* A mesh may hold a peer that is gone: a GRAFT that is accepted before the peer has a
  send queue, then the end of the inbound stream, and no event is left to remove it.
* The last loop of `flush` sends a pending GRAFT without the test for staleness that
  `piggybackControl` makes.
* The router may keep a peer without a stream: a dead notification overtakes
  `newPeerStream`, the respawn fails, and `newPeerError` only deletes from `p.peers`.
* Partial messages: `OnClosedOutboundStream` forgets a peer's count but not its groups,
  so that a peer that reconnects may open more than its limit (partialmsgs.go:95, 358);
  `NoPhantomGroups` is the direction that holds.
* Gossip: a promise made after the message was seen, by a validation that ran beside
  `handleIHave`, is broken though nothing is missing: `Settles` says that it ends, not
  that it ends well.
* The gater's count of connected peers may fall below the truth when a peer's address
  changes or a callback comes late, and its statistics then expire while it is
  connected. It may also exceed the number of peers (`twice_counted`); what holds is
  `StreamsBound`: it does not exceed the number of streams that were reported.

## What is proved

The theorems hold for all values of the constants that satisfy the named assumptions:
finite sets of peers, `GossipSubParams.validate` (`ParamAssumption`), the ranges of
backoffs and scores; any number of goroutines, streams, copies of a message,
validators, subscriptions, respawns and any size of a queue or throttle. Where the
specification a run uses is a composition or has fairness, the proof module names the
component's own (`InboundSpec`, `ScoreSpec`, `EvtSpec`, `PartialSpec`, ...): its initial states
and its next-state relation. Each theorem is an induction over the steps, with one step
of the proof per action.

* `GossipSubRouter_proofs`
  * `TypeCorrect`: `TypeOK`, including the bound of the send queues. It rests on
    lemmas on what the selection operators can return (`GetPeersSound`,
    `TrimmedSubset`, `MeshOutcomesSound`, `JoinMeshesSound`, `FanoutOutcomesSound`)
    and on what the sending operators make of a link (`SendRPCSound`,
    `HeartbeatLinksSound`, ...).
  * `BackoffSafe`: `BackoffRespected`, which is inductive together with `TypeOK`.
    The argument: whoever is added to a mesh has no running backoff, whoever gets a
    backoff is not in the mesh after the step, and time only shortens backoffs.
  * `FanoutSafe` and `FilterSafe`: `FanoutExclusive` and `FanoutFiltered`, from one
    induction over both with `TypeOK`.
  * `GraftSafe`: the action property `GraftEligible`. For `Join` it needs
    `FanoutFiltered` in the state before; for the heartbeat it needs that the
    median of a mesh without negative members is not negative.
  * `DirectSafe`: `NoDirectGraft`, if the application leaves the direct peers alone
    (`DirectCandidates = {}`). `Join` does not look at `gs.direct`, so the invariant is
    about the fanout it takes over (`FanoutApart`).
  * `TrimSafe`: `TrimKeepsBest` for Dscore + Dout <= D, which the defaults satisfy
    (4 + 2 <= 6). With D = Dhi = 4, Dscore = 4 and Dout = 1, which `validate` accepts,
    it does not hold, though gossipsub.go:109 says that at least Dscore of the retained
    peers are high-scoring: the outbound peer that is moved up displaces one of them.
  * `TakeoverSafe`: `TakeoverBound`. The bound on the fanout (`FanoutBound`) is part of
    the induction, for `Join`; the heartbeat's part is a lemma on `MeshOutcomes`. D and
    OpportunisticGraftPeers must be positive, because `getPeers` takes a count of zero
    for no limit. `SteadyDirection` is a condition on the behaviour: a peer of a mesh
    does not turn from one that we dialled into one that dialled us. The code sets
    `outbound` anew with each `newPeerStream`, and one of an earlier attempt may come late.
  * `PruneSafe`: `PendingPruneKept`, if there is only one topic. Every way of sending keeps
    `PruneDue`: the PRUNE waits in `gs.control`, or no GRAFT waits there and the last word
    that the peer has been or will be told is PRUNE. `piggybackControl` drops a GRAFT
    that waits, since the peer is in no mesh; what waits is queued before the RPC it rides
    on, or returns to `gs.control` if the queue is full; and the writer, which may run in
    between, does not change what the last word will be (`WrittenTold`). With two topics
    this fails: `pushControl` replaces the entry of the peer, and with it what waits for
    the other topic (`lost_prune`).
* `Sending_proofs`
  * `TypeCorrect`: `TypeOK` with the bound maxSize. The inductive invariant adds
    `Counted`: a pusher that is in a call, or in the wait list, has an item.
  * `QueueImplemented`: `Spec => ImplementsQueue`; every step is an `Enqueue`, a
    `Dequeue`, a `Close` or leaves the queue as it is.
  * `NoLostWakeupHolds`: `NoLostWakeup`. The invariant adds that the wait lists hold
    exactly goroutines that wait, each once (`Listed`), that a Pop between its test and
    its wait has seen an empty, open queue (`Held`), and that nobody waits on a closed
    one (`Released`). The counting is about the cardinalities of the woken.
  * `BatchOnceHolds`: `BatchOnce`, with `Scheduled`: the scheduler only holds messages
    that were delivered. A message that is neither in the scheduler nor local went out
    completely.
  * `NoPhantomGroupsHolds`: `NoPhantomGroups`, which is inductive with the types: no
    action counts a group without opening it, and `Dec` goes by the groups that end or
    become ours. That the total stays the sum of the counts is the lemma
    `TotalDifference`. `Cardinality(A \ B)` bounds the counts after `PublishPartial` and
    the heartbeat.
  * `SplitFaithfulHolds`: `SplitFaithful`, for every RPC and every limit of at least 2 (a
    control message with an empty list takes two units). Both loops of `split` have an
    invariant, `Packed` for the messages and `Holding` for the other entries: after i
    rounds the parts yielded and the one that is being filled hold exactly the first i,
    in order, and each of them is within the limits or holds a single one. The parts of
    the two passes are then put together (`FlattenConcat`, `CombinedIsFaithful`). That the
    partial message is kept is part of it as far as the fast path goes; the slow
    path loses it.
* `Streams_proofs`, inbound: `ReplacedFirstHolds` and `NoTopicLeakHolds`, from one invariant
  that holds until shutdown: what each program counter implies for the handler's entry,
  its predecessor and its `done` channel (`Handlers`), that in the channel the events of
  a stream are in order and those of a replaced stream come before those of its successor
  (`Ordered`), and that `processLoop` knows of every announced stream or will learn of its
  beginning and its end (`Known`, `Introduced`).
* `Streams_proofs`, outbound: `TypeCorrect`, `QueueOpen`, `NoLostSignal` and
  `QueueHasServer`, from the invariant `Inv`. It adds to the properties that queue
  numbers are used once (`Fresh`) and that a queue in `p.peers` has an attempt under
  way, a watcher that still reads, or a dead notification pending (`Watched`), which
  is what makes `QueueServed` inductive: the writer alone does not guarantee it.
* `Validation_proofs`
  * `DeliveredOnceHolds`: `DeliveredOnce`; a message that was not delivered has count 0.
  * `VettedHolds`: `Vetted`. The invariant describes the copies in every place of the
    pipeline (`Entry`, `Working`, `Lanes`, `Leaving`): in particular, a validation whose
    results so far are all accepting has heard from all validators but those it waits
    for, and each of these holds exactly one slot of its throttle for it.
  * `NoSuppressionHolds`: `NoSuppression`; what is in the queue has come in.
  * `RecordAgreesHolds`: `RecordAgrees`. A message that a worker or a task carries, or
    that waits to be delivered, is carried once and its record is undecided (`Row`,
    `Single`): so a verdict always meets the record it is about. A near delivery is
    credited once to a peer in the record's set; that the first deliverer can get into it
    is the finding `double_count`.
* `Scoring_proofs`
  * `IPsConsistentHolds` and `MeshAgreesHolds`: with `Forgotten` (nothing is left of a
    peer without statistics) and `Meshed`.
  * `NoWhitewashHolds`: the action property `NoWhitewash`. It needs `Dormant`: a peer that
    is away has no deficit that could disappear when it returns.
  * `StreamsBoundHolds`: `StreamsBound`, by the sum of the open streams of the peers bound
    to an object (`Share`): a step changes the share of one peer, by what it adds to or
    takes from the count, or binds a peer anew to an object, which only adds.
* `Gossip_proofs`
  * `PromisesIndexedHolds`: `PromisesIndexed`.
  * `WindowServedHolds`: `WindowServed`. The invariant ties the window to the delivered
    cache: a message in slot i is remembered for SeenTTL - i more heartbeats at least
    (`Remembered`), so it is not put a second time, so the slots are disjoint (`Apart`),
    so that dropping the last one drops what it should.
  * `UnwantedBoundHolds`: `UnwantedBound`, from a bound for each remaining time to live
    (`Metered`): what expires in k heartbeats or later was asked for in the last TTL - k.
* `Topics_proofs`
  * `InterestSafe`: `InterestAgrees`, which is inductive with the types and
    `QuietFanout`: a fanout-only handle has no relay.
  * `FanoutSilent`: the action property `FanoutQuiet`, without a condition on when topics
    are joined. It says exactly what a fanout-only handle does not announce: nothing by the
    hello packet or by `announce`, and no retry is begun. The retries that an earlier
    handle has left are what remains, and `fanout_retry` shows that they do announce.
  * `EventsInOrderHolds` and `WakeupPendingHolds`: `EventsInOrder` and `WakeupPending`,
    with `Attached`: a handler that works belongs to a known topic, and one that was not
    made yet has no history. The subscriptions of an RPC are a loop over the topics map,
    the logs and the signals, as one record; each entry keeps the record fit (`Fit`: log
    and history add up to the map, no signal is taken back, and a log that was empty
    before gets its signal with the first event), and so does the whole RPC (`LoopFit`).
* `Inductions` has the inductions over data that these need. The library's theorems take
  a predicate, which the provers cannot instantiate; here a set stands for it, and
  induction is that a set of natural numbers has a least one (`NatsIn`). `LoopExists`,
  `LoopIs`, `LoopsAgree`, `LoopEnds` and `LoopEndsAt` are about the recursive functions that
  stand for loops, `PrefixGrows` and `JoinIs` about sequences, `TotalDifference`,
  `TotalOfOne`, `TotalOfNone` and `TotalNat` about `MapThenSumSet`.

`Validation` assumes that only a signed message can have a bad signature: `validate`
checks nothing else, and a signature that must be absent is a matter of policy.

Only model-checked: the liveness properties, which are out of the prover's reach. Every
safety invariant and every action property of a passing run is the subject of a
theorem, under the conditions given above.

## Not modelled

Not modelled: the wire format and generated code (a byte level parser); cryptography
and message ids (sign.go, midgen.go), whose outcome is an input of `Validation`; the
floating point arithmetic of scores, for which integers stand in; the validation of
parameters (score_params.go), which the assumptions on constants state; trace output
and connection tags, which have no influence on the protocol; discovery, which is
calls to an external service from timers; floodsub and randomsub, which have no state
beyond a peer set; peer exchange and `directConnect`, which ask the host for
connections; the application's RPC inspector; the shutdown of `processLoop`, except for
the inbound handlers.
