------------------------------ MODULE Validation ------------------------------
(***************************************************************************)
(* The way of a message of one topic through the node: the entry checks of *)
(* PubSub (shouldPush, pushMsg), the validation pipeline (validation.go),  *)
(* local publishing (topic.go) and the delivery by processLoop, with the   *)
(* tracers that reward and penalise the peers it came from.                *)
(*                                                                         *)
(* processLoop, the workers, the asynchronous validations and the          *)
(* publishing goroutines run concurrently.  A message is its id: copies of *)
(* it come from several peers, and some of them are flawed.                *)
(***************************************************************************)
EXTENDS Naturals, Sequences, FiniteSets, MessageTracers

CONSTANTS
    Self,           \* this node, as the source of its own messages
    Flaw,           \* [Peers \X Msgs -> Flaws]: what is wrong with a peer's copy
    Signed,         \* messages that carry a signature
    InlineVals, AsyncVals,   \* inline and asynchronous validators
    DefaultChoices, \* sets of validators that WithDefaultValidator may have registered
    TopicVals,      \* validators that may be registered for the topic
    Workers,        \* validateWorkers
    QueueSize,      \* capacity of validateQ
    Throttle,       \* validateThrottle: the slots for asynchronous validations
    ValThrottle,    \* validatorImpl.validateThrottle: slots per validator
    SendSize,       \* capacity of sendMsg
    Published,      \* messages that the application publishes as well
    Copies          \* [Peers \X Msgs -> Nat]: copies of a message that a peer sends

Flaws == {"none", "signature", "policy", "selfOrigin", "blacklisted"}
Vals  == InlineVals \cup AsyncVals
Slots == 1 .. Throttle

ASSUME ValidationAssumption ==
    /\ Self \notin Peers
    /\ Flaw \in [Peers \X Msgs -> Flaws]
    \* validate checks the signature only of a message that has one
    /\ \A x \in Peers \X Msgs : Flaw[x] = "signature" => x[2] \in Signed
    /\ Copies \in [Peers \X Msgs -> Nat]
    /\ Signed \subseteq Msgs
    /\ InlineVals \cap AsyncVals = {}
    /\ DefaultChoices \subseteq SUBSET Vals /\ TopicVals \subseteq Vals
    /\ {QueueSize, Throttle, ValThrottle, SendSize} \subseteq Nat
    /\ Published \subseteq Msgs

VARIABLES
    arrived,    \* [Peers \X Msgs -> Nat]: copies received so far
    defaults,   \* defaultVals, fixed at the start
    vals,       \* validators that apply to the topic
    seen,       \* seenMessages
    delivered,  \* deliveredMessages
    queue,      \* validateQ
    worker,     \* what each worker does
    task,       \* [Slots -> ...]: the asynchronous validations
    lane,       \* [AsyncVals -> ...]: the slots of each validator's throttle
    sendMsg,    \* messages that wait for processLoop
    author,     \* [Published -> ...]: the goroutine that publishes the message
    batch,      \* the message batches that were handed to processLoop
    count,      \* how often each message was delivered to the subscribers
    tr          \* the state of the tracers

flow == <<queue, worker, task, lane, sendMsg, author, batch>>
vars == <<arrived, defaults, vals, seen, delivered, flow, count, tr>>

\* A validateReq: a copy of message id from src, the validators it was queued with and
\* what they said so far
Copy(p, m, V) == [src |-> p, id |-> m, vals |-> V, said |-> {}]

Idle == [pc |-> "idle"]
Free == 0       \* a slot of a throttle that nobody holds
Orphan == Throttle + 1   \* held by a validator whose result nobody waits for

\* Traces are for the raw tracers only if the message is not our own.
Remote(it, ts) == IF it.src = Self THEN tr ELSE ts

Said(it, v, r) == [it EXCEPT !.said = @ \cup {<<v, r>>}]

-----------------------------------------------------------------------------
(* The entry, in processLoop.                                              *)

\* Faulty variant: the message is delivered whenever it comes
PublishMessageAlways(it) ==
    /\ delivered' = delivered \cup {it.id}
    /\ count' = [count EXCEPT ![it.id] = @ + 1]
    /\ tr' = Remote(it, TraceDeliver(tr, it.src, it.id))

\* publishMessage: a message is delivered and routed unless it was before
PublishMessage(it) ==
    IF it.id \in delivered THEN UNCHANGED <<delivered, count, tr>>
    ELSE /\ delivered' = delivered \cup {it.id}
         /\ count' = [count EXCEPT ![it.id] = @ + 1]
         /\ tr' = Remote(it, TraceDeliver(tr, it.src, it.id))

\* pushMsg and Push: without validators and signature a message is published at once,
\* otherwise it goes to the queue, if there is room
PushMsg(p, m) ==
    IF vals = {} /\ m \notin Signed
    THEN /\ IF m \in seen THEN UNCHANGED <<seen, delivered, count, tr>>
            ELSE seen' = seen \cup {m} /\ PublishMessage(Copy(p, m, {}))
         /\ UNCHANGED queue
    ELSE /\ IF Len(queue) < QueueSize
            THEN queue' = Append(queue, Copy(p, m, vals)) /\ UNCHANGED tr
            ELSE UNCHANGED queue /\ tr' = TraceRejectEarly(tr, p, m, "queueFull")
         /\ UNCHANGED <<seen, delivered, count>>

\* handleIncomingRPC and shouldPush, for a message that AcceptFrom lets through while
\* we are subscribed to the topic or relay it; any other leaves no trace.
HandleIncomingRPC(p, m) ==
    /\ arrived[<<p, m>>] < Copies[<<p, m>>]
    /\ arrived' = [arrived EXCEPT ![<<p, m>>] = @ + 1]
    /\ \/ /\ Flaw[<<p, m>>] \notin {"none", "signature"}
          /\ tr' = TraceRejectEarly(tr, p, m, Flaw[<<p, m>>])
          /\ UNCHANGED <<seen, delivered, count, queue>>
       \/ /\ Flaw[<<p, m>>] \in {"none", "signature"} /\ m \in seen
          /\ tr' = TraceDuplicate(tr, p, m)
          /\ UNCHANGED <<seen, delivered, count, queue>>
       \/ /\ Flaw[<<p, m>>] \in {"none", "signature"} /\ m \notin seen
          /\ PushMsg(p, m)
    /\ UNCHANGED <<defaults, vals, worker, task, lane, sendMsg, author, batch>>

\* AddValidator and RemoveValidator: a topic has at most one validator of its own.
\* What is queued keeps the validators it has.
AddValidator(v) ==
    /\ v \notin defaults /\ vals = defaults
    /\ vals' = vals \cup {v}
    /\ UNCHANGED <<arrived, defaults, seen, delivered, flow, count, tr>>

RemoveValidator(v) ==
    /\ v \in vals \ defaults
    /\ vals' = vals \ {v}
    /\ UNCHANGED <<arrived, defaults, seen, delivered, flow, count, tr>>

-----------------------------------------------------------------------------
(* The workers.                                                            *)

\* Faulty variant: the id is marked before the signature is checked
MarkedAtFront(it) == {it.id}

\* The ids that the start of a validation marks as seen: those with a good signature
Marked(it) ==
    IF it.src # Self /\ Flaw[<<it.src, it.id>>] = "signature" THEN {} ELSE {it.id}

\* validate up to the trace of ValidateMessage, for the message at the head of the queue
ValidateBegin(w) ==
    LET it == Head(queue)
    IN  /\ worker[w] = Idle /\ queue # <<>>
        /\ queue' = Tail(queue)
        /\ seen' = seen \cup Marked(it)
        /\ \/ /\ Flaw[<<it.src, it.id>>] = "signature"
              /\ tr' = TraceRejectEarly(tr, it.src, it.id, "signature")
              /\ UNCHANGED worker
           \/ /\ Flaw[<<it.src, it.id>>] # "signature" /\ it.id \in seen \cup delivered
              /\ tr' = TraceDuplicate(tr, it.src, it.id)
              /\ UNCHANGED worker
           \/ /\ Flaw[<<it.src, it.id>>] # "signature" /\ it.id \notin seen \cup delivered
              /\ tr' = TraceValidate(tr, it.id)
              /\ worker' = [worker EXCEPT ![w] = [pc |-> "inline", item |-> it]]
        /\ UNCHANGED <<arrived, defaults, vals, delivered, task, lane, sendMsg, author, batch, count>>

\* The two kinds of validators; the first to reject ends the loop over the inline ones.
Inline(it) == it.vals \cap InlineVals
Async(it)  == it.vals \cap AsyncVals

InlineResult(V, r) ==
    IF \E v \in V : r[v] = "reject" THEN "reject"
    ELSE IF \E v \in V : r[v] = "ignore" THEN "ignore" ELSE "accept"

\* doValidateTopic starts in slot s of the throttle: every validator that has room
\* begins, the others count as throttled.
Room(v)  == \E k \in 1 .. ValThrottle : lane[v][k] = Free
First(v) == CHOOSE k \in 1 .. ValThrottle : lane[v][k] = Free
Busy(it) == {v \in Async(it) : ~ Room(v)}

\* Validation `it`, of which the inline validators said res, waits for its other ones
Waits(it, res, busy) ==
    [pc |-> "wait", inline |-> res,
     result |-> IF busy = {} THEN "accept" ELSE "throttled",
     waiting |-> Async(it) \ busy,
     item |-> [it EXCEPT !.said = @ \cup {<<v, "throttled">> : v \in busy}]]

Start(s, it, res) ==
    /\ lane' = [v \in AsyncVals |->
          IF v \in Async(it) \ Busy(it) THEN [lane[v] EXCEPT ![First(v)] = s] ELSE lane[v]]
    /\ task' = [task EXCEPT ![s] = Waits(it, res, Busy(it))]

\* validate goes on with the result of the inline validators: it hands over to an
\* asynchronous validation, rejects, or has the worker send.
Proceed(w, it, res) ==
    LET free == {s \in Slots : task[s] = Idle}
    IN  \/ /\ res # "reject" /\ Async(it) # {} /\ free # {}
           /\ Start(CHOOSE s \in free : TRUE, it, res)
           /\ worker' = [worker EXCEPT ![w] = Idle]
           /\ UNCHANGED tr
        \/ /\ \/ res = "reject"
              \/ res # "reject" /\ Async(it) # {} /\ free = {}
              \/ res = "ignore" /\ Async(it) = {}
           /\ tr' = TraceReject(tr, it.src, it.id,
                       IF res = "reject" THEN "failed"
                       ELSE IF Async(it) # {} THEN "throttled" ELSE "ignored")
           /\ worker' = [worker EXCEPT ![w] = Idle]
           /\ UNCHANGED <<task, lane>>
        \/ /\ res = "accept" /\ Async(it) = {}
           /\ worker' = [worker EXCEPT ![w] = [pc |-> "send", item |-> it]]
           /\ UNCHANGED <<task, lane, tr>>

\* The worker has run the inline validators.
ValidateInline(w) ==
    LET it == worker[w].item
    IN  /\ worker[w].pc = "inline"
        /\ \E r \in [Inline(it) -> {"accept", "reject", "ignore"}] :
             Proceed(w, [it EXCEPT !.said = {<<v, r[v]>> : v \in Inline(it)}],
                     InlineResult(Inline(it), r))
        /\ UNCHANGED <<arrived, defaults, vals, seen, delivered, queue, sendMsg, author, batch, count>>

\* sendMsgBlocking by a worker
WorkerSend(w) ==
    /\ worker[w].pc = "send" /\ Len(sendMsg) < SendSize
    /\ sendMsg' = Append(sendMsg, worker[w].item)
    /\ worker' = [worker EXCEPT ![w] = Idle]
    /\ UNCHANGED <<arrived, defaults, vals, seen, delivered, queue, task, lane, author, batch, count, tr>>

-----------------------------------------------------------------------------
(* The asynchronous validations.                                           *)

\* The loop of validateTopic: a throttled validator outweighs one that ignores
Merge(result, r) ==
    IF r = "accept" \/ (r = "ignore" /\ result = "throttled") THEN result ELSE r

\* Faulty variant: the result of the inline validators is forgotten
VerdictAsyncOnly(t) == t.result

\* doValidateTopic: the verdict on both kinds of validators
Verdict(t) == IF t.result = "accept" THEN t.inline ELSE t.result

\* The validation in slot s is over, or waits to send.
Conclude(s, t) ==
    IF Verdict(t) = "accept"
    THEN task' = [task EXCEPT ![s] = [pc |-> "send", item |-> t.item]] /\ UNCHANGED tr
    ELSE /\ task' = [task EXCEPT ![s] = Idle]
         /\ tr' = TraceReject(tr, t.item.src, t.item.id,
                    IF Verdict(t) = "reject" THEN "failed"
                    ELSE IF Verdict(t) = "ignore" THEN "ignored" ELSE "throttled")

\* Validation t has heard from validator v
Heard(t, v, r) ==
    [pc |-> "wait", inline |-> t.inline, result |-> Merge(t.result, r),
     waiting |-> t.waiting \ {v}, item |-> Said(t.item, v, r)]
Over(t) == t.result = "reject" \/ t.waiting = {}

\* Validator v, in slot k of its throttle, returns r to the validation that waits for
\* it.  A rejection ends the validation, and the other validators run on.
ValidatorDone(v, k, r) ==
    LET s == lane[v][k]
        t == Heard(task[s], v, r)
    IN  /\ s \in Slots
        /\ lane' = [u \in AsyncVals |-> [j \in 1 .. ValThrottle |->
              IF u = v /\ j = k THEN Free
              ELSE IF Over(t) /\ lane[u][j] = s THEN Orphan ELSE lane[u][j]]]
        /\ IF Over(t) THEN Conclude(s, t)
           ELSE task' = [task EXCEPT ![s] = t] /\ UNCHANGED tr
        /\ UNCHANGED <<arrived, defaults, vals, seen, delivered, queue, worker, sendMsg, author, batch, count>>

\* All validators were throttled: there is nothing to wait for.
AllThrottled(s) ==
    /\ task[s].pc = "wait" /\ task[s].waiting = {}
    /\ Conclude(s, task[s])
    /\ UNCHANGED <<arrived, defaults, vals, seen, delivered, queue, worker, lane, sendMsg, author, batch, count>>

\* A validator ends whose result is not needed any more.
OrphanDone(v, k) ==
    /\ lane[v][k] = Orphan
    /\ lane' = [lane EXCEPT ![v][k] = Free]
    /\ UNCHANGED <<arrived, defaults, vals, seen, delivered, queue, worker, task, sendMsg, author, batch, count, tr>>

\* Faulty variant: the slot is not given back
TaskSendHeld(s) ==
    /\ task[s].pc = "send" /\ Len(sendMsg) < SendSize
    /\ sendMsg' = Append(sendMsg, task[s].item)
    /\ task' = [task EXCEPT ![s].pc = "held"]
    /\ UNCHANGED <<arrived, defaults, vals, seen, delivered, queue, worker, lane, author, batch, count, tr>>

\* sendMsgBlocking by an asynchronous validation, which then gives its slot back
TaskSend(s) ==
    /\ task[s].pc = "send" /\ Len(sendMsg) < SendSize
    /\ sendMsg' = Append(sendMsg, task[s].item)
    /\ task' = [task EXCEPT ![s] = Idle]
    /\ UNCHANGED <<arrived, defaults, vals, seen, delivered, queue, worker, lane, author, batch, count, tr>>

-----------------------------------------------------------------------------
(* Local publishing.                                                       *)

\* Topic.validate and ValidateLocal: all validators run in the calling goroutine; a
\* message that was delivered before passes without them.
ValidateLocal(m) ==
    LET it == Copy(Self, m, vals)
    IN  /\ author[m] = "idle"
        /\ seen' = seen \cup {m}
        /\ IF m \in delivered
           THEN author' = [author EXCEPT ![m] = "send"]
           ELSE \E r \in [vals -> {"accept", "reject", "ignore"}] :
                   author' = [author EXCEPT ![m] =
                      IF InlineResult(vals, r) = "accept" THEN "send" ELSE "done"]
        /\ UNCHANGED <<arrived, defaults, vals, delivered, queue, worker, task, lane, sendMsg, batch, count, tr>>

\* Publish sends to processLoop; AddToBatch and PublishBatch hand a batch over.
AuthorSend(m, viaBatch) ==
    /\ author[m] = "send"
    /\ IF viaBatch THEN batch = {} /\ batch' = {m} /\ UNCHANGED sendMsg
       ELSE /\ Len(sendMsg) < SendSize
            /\ sendMsg' = Append(sendMsg, Copy(Self, m, {}))
            /\ UNCHANGED batch
    /\ author' = [author EXCEPT ![m] = "done"]
    /\ UNCHANGED <<arrived, defaults, vals, seen, delivered, queue, worker, task, lane, count, tr>>

-----------------------------------------------------------------------------
(* The delivery, in processLoop.                                           *)

ProcessSend ==
    /\ sendMsg # <<>>
    /\ sendMsg' = Tail(sendMsg)
    /\ PublishMessage(Head(sendMsg))
    /\ UNCHANGED <<arrived, defaults, vals, seen, queue, worker, task, lane, author, batch>>

\* publishMessageBatch, for a batch of one
ProcessBatch ==
    /\ batch # {}
    /\ batch' = {}
    /\ \A m \in batch : PublishMessage(Copy(Self, m, {}))
    /\ UNCHANGED <<arrived, defaults, vals, seen, queue, worker, task, lane, sendMsg, author>>

-----------------------------------------------------------------------------
Init ==
    /\ arrived = [x \in Peers \X Msgs |-> 0]
    /\ defaults \in DefaultChoices
    /\ vals = defaults
    /\ seen = {} /\ delivered = {}
    /\ queue = <<>> /\ sendMsg = <<>> /\ batch = {}
    /\ worker = [w \in Workers |-> Idle]
    /\ task = [s \in Slots |-> Idle]
    /\ lane = [v \in AsyncVals |-> [k \in 1 .. ValThrottle |-> Free]]
    /\ author = [m \in Published |-> "idle"]
    /\ count = [m \in Msgs |-> 0]
    /\ tr = NoTraces

\* What runs by itself once a message has come in
Pipeline ==
    \/ \E w \in Workers : ValidateBegin(w) \/ ValidateInline(w) \/ WorkerSend(w)
    \/ \E v \in AsyncVals, k \in 1 .. ValThrottle :
          OrphanDone(v, k) \/ \E r \in {"accept", "reject", "ignore"} : ValidatorDone(v, k, r)
    \/ \E s \in Slots : AllThrottled(s) \/ TaskSend(s)
    \/ \E m \in Published, viaBatch \in BOOLEAN : AuthorSend(m, viaBatch)
    \/ ProcessSend
    \/ ProcessBatch

Next ==
    \/ \E p \in Peers, m \in Msgs : HandleIncomingRPC(p, m)
    \/ \E v \in TopicVals : AddValidator(v) \/ RemoveValidator(v)
    \/ \E m \in Published : ValidateLocal(m)
    \/ Pipeline

Spec == Init /\ [][Next]_vars

\* Goroutines that can take a step do so eventually; validators return.
FairSpec == Spec /\ WF_vars(Pipeline)

-----------------------------------------------------------------------------
(* Properties.                                                             *)

\* A message is delivered to the subscribers and routed at most once, though copies of
\* it are validated by workers, bypass validation, and race with our own publication.
DeliveredOnce == \A m \in Msgs : count[m] <= 1

\* A message of a peer that waits for delivery was accepted by every validator that
\* was registered when it came, inline and asynchronous, and has a good signature:
\* none was skipped, throttled or outvoted.
Vetted ==
    \A i \in DOMAIN sendMsg : LET it == sendMsg[i] IN
        it.src # Self => /\ it.said = it.vals \X {"accept"}
                         /\ Flaw[<<it.src, it.id>>] = "none"

\* A copy with a forged signature does not suppress the message: what is marked as
\* seen has come in with a good copy or was published here.
NoSuppression ==
    \A m \in seen : \/ m \in Published /\ author[m] # "idle"
                    \/ \E p \in Peers : Flaw[<<p, m>>] = "none" /\ arrived[<<p, m>>] > 0

\* The rewards and penalties of the peers agree with what became of the message,
\* whatever the order in which copies, verdicts and our own publication come: only a
\* valid message earns a delivery, which is the first one for at most one peer and a
\* near-first one at most once for a peer whose further copy is noted in the record,
\* only a rejected one counts against a peer, and throttling or ignoring does neither.
RecordAgrees ==
    \A m \in Msgs :
        LET L(p) == tr.ledger[<<p, m>>]
        IN  /\ tr.status[m] = "valid" => m \in delivered
            /\ \A p \in Peers :
                 /\ L(p).first + L(p).near > 0 => tr.status[m] = "valid"
                 /\ L(p).bad > 0 => tr.status[m] = "invalid"
                 /\ L(p).near <= IF p \in tr.peers[m] THEN 1 ELSE 0
            /\ Cardinality({p \in Peers : L(p).first > 0}) <= 1

\* A peer cannot send a message twice and be counted twice if its delivery is the first
\* one, as the comment in DeliverMessage has it.
NoDoubleCount ==
    \A x \in Peers \X Msgs : tr.ledger[x].first > 0 => tr.ledger[x].near = 0

Quiet ==
    /\ queue = <<>> /\ sendMsg = <<>> /\ batch = {}
    /\ \A w \in Workers : worker[w] = Idle
    /\ \A s \in Slots : task[s] = Idle
    /\ \A v \in AsyncVals, k \in 1 .. ValThrottle : lane[v][k] = Free
    /\ \A m \in Published : author[m] # "send"

\* The pipeline drains: whatever fills it, workers, validations, publishers and
\* processLoop do not block one another for ever, and every slot of a throttle is
\* given back, those of validators that outlive their validation included.
Drains == []<>Quiet
=============================================================================
