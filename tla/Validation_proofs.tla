-------------------------- MODULE Validation_proofs --------------------------
(***************************************************************************)
(* Proofs about Validation, for any peers, messages, validators, workers,  *)
(* and any capacities of the queue, the throttles and sendMsg.             *)
(***************************************************************************)
EXTENDS Validation, FiniteSetTheorems, TLAPS

-----------------------------------------------------------------------------
(* A message is delivered once.                                            *)

Once ==
    /\ count \in [Msgs -> Nat]
    /\ \A m \in Msgs : count[m] <= 1 /\ (m \notin delivered => count[m] = 0)

LEMMA PublishOnce == ASSUME Once, NEW it, PublishMessage(it) PROVE Once'
<1>1. CASE it.id \in delivered
  BY <1>1 DEF PublishMessage, Once
<1>2. CASE it.id \notin delivered
  <2>1. delivered' = delivered \cup {it.id} /\ count' = [count EXCEPT ![it.id] = @ + 1]
    BY <1>2 DEF PublishMessage
  <2>2. \A m \in Msgs : count'[m] = IF m = it.id THEN count[m] + 1 ELSE count[m]
    BY <2>1 DEF Once
  <2>3. count' \in [Msgs -> Nat]
    <3>1. count' = [m \in Msgs |-> count'[m]]
      BY <2>1 DEF Once
    <3>2. \A m \in Msgs : count'[m] \in Nat
      BY <2>2 DEF Once
    <3> QED BY <3>1, <3>2
  <2> QED BY <1>2, <2>1, <2>2, <2>3 DEF Once
<1> QED BY <1>1, <1>2

\* pushMsg publishes at most one message, or delivers none.
LEMMA PushPublishes ==
    ASSUME NEW p, NEW m, PushMsg(p, m)
    PROVE  (\E it : PublishMessage(it)) \/ UNCHANGED <<delivered, count>>
BY DEF PushMsg

LEMMA Publishes ==
    [Next]_vars => (\E it : PublishMessage(it)) \/ UNCHANGED <<delivered, count>>
<1> SUFFICES ASSUME [Next]_vars
             PROVE  (\E it : PublishMessage(it)) \/ UNCHANGED <<delivered, count>>
  OBVIOUS
<1>1. ASSUME NEW p \in Peers, NEW m \in Msgs, HandleIncomingRPC(p, m)
      PROVE  (\E it : PublishMessage(it)) \/ UNCHANGED <<delivered, count>>
  <2>1. PushMsg(p, m) \/ UNCHANGED <<delivered, count>>
    BY <1>1 DEF HandleIncomingRPC
  <2> QED BY <2>1, PushPublishes
<1>2. CASE Pipeline
  <2>1. CASE \E w \in Workers : ValidateBegin(w) \/ ValidateInline(w) \/ WorkerSend(w)
    BY <2>1 DEF ValidateBegin, ValidateInline, WorkerSend
  <2>2. CASE ProcessSend
    BY <2>2 DEF ProcessSend
  <2>3. CASE ProcessBatch
    BY <2>3 DEF ProcessBatch
  <2>4. CASE \/ \E v \in AsyncVals, k \in 1 .. ValThrottle :
                 OrphanDone(v, k) \/ \E r \in {"accept", "reject", "ignore"} : ValidatorDone(v, k, r)
             \/ \E s \in Slots : AllThrottled(s) \/ TaskSend(s)
             \/ \E m \in Published, viaBatch \in BOOLEAN : AuthorSend(m, viaBatch)
    BY <2>4 DEF OrphanDone, ValidatorDone, AllThrottled, TaskSend, AuthorSend
  <2> QED BY <1>2, <2>1, <2>2, <2>3, <2>4 DEF Pipeline
<1>3. CASE \/ \E v \in TopicVals : AddValidator(v) \/ RemoveValidator(v)
           \/ \E m \in Published : ValidateLocal(m)
           \/ UNCHANGED vars
  BY <1>3 DEF AddValidator, RemoveValidator, ValidateLocal, vars
<1> QED BY <1>1, <1>2, <1>3 DEF Next

\* publishMessage delivers a message once, however its copies come to processLoop.
THEOREM DeliveredOnceHolds == Spec => []DeliveredOnce
<1>1. Init => Once
  BY DEF Init, Once
<1>2. Once /\ [Next]_vars => Once'
  <2>1. Once /\ UNCHANGED <<delivered, count>> => Once'
    BY DEF Once
  <2> QED BY <2>1, PublishOnce, Publishes
<1>3. Once => DeliveredOnce
  BY DEF Once, DeliveredOnce
<1> QED BY <1>1, <1>2, <1>3, PTL DEF Spec
-----------------------------------------------------------------------------
(* What is where in the pipeline.                                          *)

Results == {"accept", "reject", "ignore", "throttled"}

\* The copies of messages that came from a peer
Foreign == [src : Peers, id : Msgs, vals : SUBSET Vals, said : SUBSET (Vals \X Results)]

\* ... before validation, past the signature check, and accepted by all validators
Queued == {it \in Foreign : it.said = {} /\ Flaw[<<it.src, it.id>>] \in {"none", "signature"}}
Begun  == {it \in Foreign : Flaw[<<it.src, it.id>>] = "none"}
Good   == {it \in Begun : it.said = it.vals \X {"accept"}}

\* Our own messages
Own == [src : {Self}, id : Msgs, vals : {{}}, said : {{}}]

WorkerStates ==
    {Idle} \cup [pc : {"inline"}, item : {it \in Begun : it.said = {}}]
           \cup [pc : {"send"}, item : Good]

\* While no validator has objected, those that have answered are the ones not waited for.
Agreeing(t) ==
    t.inline = "accept" /\ t.result = "accept"
        => t.item.said = (t.item.vals \ t.waiting) \X {"accept"}

Validations ==
    {t \in [pc : {"wait"}, inline : {"accept", "ignore"}, result : Results,
            waiting : SUBSET AsyncVals, item : Begun] :
        t.waiting \subseteq t.item.vals /\ Agreeing(t)}
TaskStates == {Idle} \cup Validations \cup [pc : {"send"}, item : Good]

Entry ==
    /\ vals \subseteq Vals /\ defaults \subseteq Vals
    /\ queue \in Seq(Queued)

Working ==
    /\ worker \in [Workers -> WorkerStates]
    /\ task \in [Slots -> TaskStates]

\* A slot of a validator's throttle is held for a validation that waits for it, and a
\* validation holds one slot of each.
Lanes ==
    /\ lane \in [AsyncVals -> [1 .. ValThrottle -> 0 .. Throttle + 1]]
    /\ \A v \in AsyncVals, k \in 1 .. ValThrottle :
          lane[v][k] \in Slots =>
             /\ task[lane[v][k]].pc = "wait" /\ v \in task[lane[v][k]].waiting
             /\ \A j \in 1 .. ValThrottle : lane[v][j] = lane[v][k] => j = k

Leaving == sendMsg \in Seq(Good \cup Own)

VInv == Entry /\ Working /\ Lanes /\ Leaving

LEMMA Sizes ==
    /\ Throttle \in Nat /\ ValThrottle \in Nat /\ Slots = 1 .. Throttle /\ Free = 0
    /\ Orphan = Throttle + 1 /\ Orphan \notin Slots /\ Free \notin Slots
    /\ Self \notin Peers /\ InlineVals \cap AsyncVals = {}
    /\ InlineVals \subseteq Vals /\ AsyncVals \subseteq Vals /\ Vals = InlineVals \cup AsyncVals
    /\ TopicVals \subseteq Vals /\ Published \subseteq Msgs
    /\ Flaw \in [Peers \X Msgs -> Flaws]
BY ValidationAssumption DEF Slots, Free, Orphan, Vals

LEMMA StatesApart ==
    /\ \A x \in WorkerStates : /\ x.pc \in {"idle", "inline", "send"}
                               /\ x.pc = "idle" <=> x = Idle
                               /\ x.pc = "inline" => x.item \in Begun /\ x.item.said = {}
                               /\ x.pc = "send" => x.item \in Good
    /\ \A x \in TaskStates : /\ x.pc \in {"idle", "wait", "send"}
                             /\ x.pc = "idle" <=> x = Idle
                             /\ x.pc = "wait" => x \in Validations
                             /\ x.pc = "send" => x.item \in Good
BY DEF WorkerStates, TaskStates, Validations, Idle

LEMMA VInit == Init => VInv
<1> SUFFICES ASSUME Init PROVE VInv
  OBVIOUS
<1>1. Entry
  BY ValidationAssumption DEF Init, Entry
<1>2. Working
  BY DEF Init, Working, WorkerStates, TaskStates
<1>3. Lanes
  BY Sizes DEF Init, Lanes
<1>4. Leaving
  BY DEF Init, Leaving
<1> QED BY <1>1, <1>2, <1>3, <1>4 DEF VInv

-----------------------------------------------------------------------------
(* The operators of the pipeline keep to those sets.                       *)

\* What a copy of a peer looks like when it is queued.
LEMMA CopyQueued ==
    ASSUME NEW p \in Peers, NEW m \in Msgs, Flaw[<<p, m>>] \in {"none", "signature"},
           NEW V \in SUBSET Vals
    PROVE  Copy(p, m, V) \in Queued
<1>1. Copy(p, m, V) = [src |-> p, id |-> m, vals |-> V, said |-> {}]
  BY DEF Copy
<1>2. [src |-> p, id |-> m, vals |-> V, said |-> {}] \in Foreign
  BY DEF Foreign
<1> QED BY <1>1, <1>2 DEF Queued

LEMMA CopyOwn == ASSUME NEW m \in Msgs PROVE Copy(Self, m, {}) \in Own
BY DEF Copy, Own

\* The item that the inline validators have answered for.
LEMMA Answered ==
    ASSUME NEW it \in Begun, NEW S \in SUBSET (Vals \X Results)
    PROVE  /\ [it EXCEPT !.said = S] \in Begun
           /\ [it EXCEPT !.said = S].said = S
           /\ [it EXCEPT !.said = S].vals = it.vals
           /\ [it EXCEPT !.said = S].src = it.src
           /\ [it EXCEPT !.said = S].id = it.id
<1>1. [it EXCEPT !.said = S] = [src |-> it.src, id |-> it.id, vals |-> it.vals, said |-> S]
  BY DEF Begun, Foreign
<1> QED BY <1>1 DEF Begun, Foreign

\* The record of a validation that starts.
LEMMA WaitsSound ==
    ASSUME NEW it \in Begun, NEW res \in {"accept", "ignore"}, NEW busy \in SUBSET Async(it),
           res = "accept" => it.said = Inline(it) \X {"accept"}
    PROVE  Waits(it, res, busy) \in Validations
<1> DEFINE S == it.said \cup {<<v, "throttled">> : v \in busy}
           it1 == [it EXCEPT !.said = S]
           t == Waits(it, res, busy)
<1>0. Async(it) \subseteq AsyncVals /\ Async(it) \subseteq it.vals /\ it.vals \subseteq Vals
      /\ it.said \in SUBSET (Vals \X Results)
  BY DEF Async, Begun, Foreign
<1>1. S \in SUBSET (Vals \X Results)
  BY <1>0 DEF Results
<1>2. it1 \in Begun /\ it1.said = S /\ it1.vals = it.vals
  BY <1>1, Answered
<1>3. t = [pc |-> "wait", inline |-> res,
           result |-> IF busy = {} THEN "accept" ELSE "throttled",
           waiting |-> Async(it) \ busy, item |-> it1]
  BY DEF Waits
<1>4. busy = {} => S = it.said
  OBVIOUS
<1> HIDE DEF S, it1, t
<1>5. /\ t \in [pc : {"wait"}, inline : {"accept", "ignore"}, result : Results,
                waiting : SUBSET AsyncVals, item : Begun]
      /\ t.waiting = Async(it) \ busy /\ t.item = it1 /\ t.inline = res
      /\ t.result = "accept" => busy = {}
  BY <1>0, <1>2, <1>3 DEF Results
<1>6. Agreeing(t)
  <2> SUFFICES ASSUME t.inline = "accept", t.result = "accept"
               PROVE  t.item.said = (t.item.vals \ t.waiting) \X {"accept"}
    BY DEF Agreeing
  <2>1. busy = {} /\ t.item.said = Inline(it) \X {"accept"}
    BY <1>2, <1>4, <1>5
  <2>2. it.vals \ Async(it) = Inline(it)
    BY <1>0, Sizes DEF Async, Inline
  <2> QED BY <1>2, <1>5, <2>1, <2>2
<1>7. t.waiting \subseteq t.item.vals
  BY <1>0, <1>2, <1>5
<1> QED BY <1>5, <1>6, <1>7 DEF Validations, t

\* The record of a validation that has heard from one more validator.
LEMMA HeardSound ==
    ASSUME NEW t \in Validations, NEW v \in t.waiting, NEW r \in {"accept", "reject", "ignore"}
    PROVE  /\ Heard(t, v, r) \in Validations
           /\ Heard(t, v, r).waiting = t.waiting \ {v} /\ Heard(t, v, r).pc = "wait"
           /\ Heard(t, v, r).item.src = t.item.src /\ Heard(t, v, r).item.id = t.item.id
<1> DEFINE S == t.item.said \cup {<<v, r>>}
           it1 == [t.item EXCEPT !.said = S]
           u == Heard(t, v, r)
<1>0. /\ t.item \in Begun /\ t.waiting \subseteq AsyncVals /\ t.waiting \subseteq t.item.vals
      /\ t.item.said \in SUBSET (Vals \X Results) /\ t.result \in Results
      /\ t.inline \in {"accept", "ignore"} /\ Agreeing(t)
  BY DEF Validations, Begun, Foreign
<1>1. S \in SUBSET (Vals \X Results)
  BY <1>0, Sizes DEF Results
<1>2. it1 \in Begun /\ it1.said = S /\ it1.vals = t.item.vals
      /\ it1.src = t.item.src /\ it1.id = t.item.id
  BY <1>0, <1>1, Answered
<1>3. u = [pc |-> "wait", inline |-> t.inline, result |-> Merge(t.result, r),
           waiting |-> t.waiting \ {v}, item |-> it1]
  BY DEF Heard, Said
<1>4. Merge(t.result, r) \in Results
      /\ (Merge(t.result, r) = "accept" => r = "accept" /\ t.result = "accept")
  BY <1>0 DEF Merge, Results
<1> HIDE DEF it1, u
<1>5. /\ u \in [pc : {"wait"}, inline : {"accept", "ignore"}, result : Results,
                waiting : SUBSET AsyncVals, item : Begun]
      /\ u.waiting = t.waiting \ {v} /\ u.item = it1 /\ u.inline = t.inline
      /\ u.result = Merge(t.result, r) /\ u.pc = "wait"
  BY <1>0, <1>2, <1>3, <1>4
<1>6. Agreeing(u)
  <2> SUFFICES ASSUME u.inline = "accept", u.result = "accept"
               PROVE  u.item.said = (u.item.vals \ u.waiting) \X {"accept"}
    BY DEF Agreeing
  <2>1. t.item.said = (t.item.vals \ t.waiting) \X {"accept"} /\ r = "accept"
    BY <1>0, <1>4, <1>5 DEF Agreeing
  <2>2. (t.item.vals \ (t.waiting \ {v})) = (t.item.vals \ t.waiting) \cup {v}
    BY <1>0
  <2>3. S = ((t.item.vals \ t.waiting) \cup {v}) \X {"accept"}
    BY <2>1
  <2> QED BY <1>2, <1>5, <2>2, <2>3
<1>7. u.waiting \subseteq u.item.vals
  BY <1>0, <1>2, <1>5
<1> QED BY <1>2, <1>5, <1>6, <1>7 DEF Validations, u

\* A validation that is over and accepts has been accepted by all.
LEMMA VerdictSound ==
    ASSUME NEW t \in Validations, Over(t), Verdict(t) = "accept"
    PROVE  t.item \in Good
<1>1. t.result = "accept" /\ t.inline = "accept" /\ t.waiting = {}
  BY DEF Verdict, Over, Validations
<1>2. t.item \in Begun /\ Agreeing(t)
  BY DEF Validations
<1>3. t.item.said = t.item.vals \X {"accept"}
  BY <1>1, <1>2 DEF Agreeing
<1> QED BY <1>2, <1>3 DEF Good
-----------------------------------------------------------------------------
(* The steps of the pipeline.                                              *)

\* handleIncomingRPC and pushMsg
LEMMA IncomingPlaces ==
    ASSUME VInv, NEW p \in Peers, NEW m \in Msgs, HandleIncomingRPC(p, m) PROVE VInv'
<1>1. UNCHANGED <<defaults, vals, worker, task, lane, sendMsg>>
  BY DEF HandleIncomingRPC
<1>2. queue' = queue \/ (queue' = Append(queue, Copy(p, m, vals))
                         /\ Flaw[<<p, m>>] \in {"none", "signature"})
  BY DEF HandleIncomingRPC, PushMsg
<1>3. queue' \in Seq(Queued)
  <2>1. CASE queue' = queue
    BY <2>1 DEF VInv, Entry
  <2>2. CASE queue' = Append(queue, Copy(p, m, vals)) /\ Flaw[<<p, m>>] \in {"none", "signature"}
    <3>1. Copy(p, m, vals) \in Queued /\ queue \in Seq(Queued)
      BY <2>2, CopyQueued DEF VInv, Entry
    <3> QED BY <2>2, <3>1
  <2> QED BY <1>2, <2>1, <2>2
<1> QED BY <1>1, <1>3 DEF VInv, Entry, Working, Lanes, Leaving

LEMMA ValidatorsPlaces ==
    ASSUME VInv, NEW v \in TopicVals, AddValidator(v) \/ RemoveValidator(v) PROVE VInv'
<1>1. UNCHANGED <<defaults, queue, worker, task, lane, sendMsg>> /\ vals' \subseteq Vals
  BY Sizes DEF AddValidator, RemoveValidator, flow, VInv, Entry
<1> QED BY <1>1 DEF VInv, Entry, Working, Lanes, Leaving

\* A worker takes the head of the queue.
LEMMA BeginPlaces == ASSUME VInv, NEW w \in Workers, ValidateBegin(w) PROVE VInv'
<1> DEFINE it == Head(queue)
<1>1. /\ UNCHANGED <<defaults, vals, task, lane, sendMsg>> /\ queue' = Tail(queue) /\ queue # <<>>
      /\ \/ worker' = worker
         \/ /\ worker' = [worker EXCEPT ![w] = [pc |-> "inline", item |-> it]]
            /\ Flaw[<<it.src, it.id>>] # "signature"
  BY DEF ValidateBegin
<1>2. it \in Queued /\ queue' \in Seq(Queued)
  BY <1>1 DEF VInv, Entry
<1> HIDE DEF it
<1>3. worker' \in [Workers -> WorkerStates]
  <2>1. CASE worker' = worker
    BY <2>1 DEF VInv, Working
  <2>2. CASE /\ worker' = [worker EXCEPT ![w] = [pc |-> "inline", item |-> it]]
             /\ Flaw[<<it.src, it.id>>] # "signature"
    <3>1. it \in Begun /\ it.said = {}
      BY <1>2, <2>2 DEF Queued, Begun
    <3>2. [pc |-> "inline", item |-> it] \in WorkerStates
      BY <3>1 DEF WorkerStates
    <3> QED BY <2>2, <3>2 DEF VInv, Working
  <2> QED BY <1>1, <2>1, <2>2
<1> QED BY <1>1, <1>2, <1>3 DEF VInv, Entry, Working, Lanes, Leaving

\* The asynchronous validation starts in a free slot, which no validator holds.
LEMMA StartPlaces ==
    ASSUME Working, Lanes, NEW s \in Slots, task[s] = Idle, NEW it \in Begun,
           NEW res \in {"accept", "ignore"}, Start(s, it, res),
           res = "accept" => it.said = Inline(it) \X {"accept"}
    PROVE  task' \in [Slots -> TaskStates] /\ Lanes'
<1> DEFINE t == Waits(it, res, Busy(it))
<1>1. Busy(it) \in SUBSET Async(it) /\ Async(it) \subseteq AsyncVals
  BY DEF Busy, Async
<1>2. t \in Validations
  BY <1>1, WaitsSound
<1>3. task' = [task EXCEPT ![s] = t]
      /\ t.pc = "wait" /\ t.waiting = Async(it) \ Busy(it)
  BY DEF Start, Waits
<1>4. lane' = [v \in AsyncVals |->
          IF v \in Async(it) \ Busy(it) THEN [lane[v] EXCEPT ![First(v)] = s] ELSE lane[v]]
  BY DEF Start
<1> HIDE DEF t
<1>5. task' \in [Slots -> TaskStates] /\ task'[s] = t
      /\ \A x \in Slots : x # s => task'[x] = task[x]
  BY <1>2, <1>3 DEF Working, TaskStates
<1>6. \A v \in AsyncVals, k \in 1 .. ValThrottle : lane[v][k] # s
  <2>1. task[s].pc # "wait"
    BY DEF Idle
  <2> QED BY <2>1 DEF Lanes
<1>7. ASSUME NEW v \in AsyncVals, v \in Async(it) \ Busy(it)
      PROVE  First(v) \in 1 .. ValThrottle
  <2>1. \E k \in 1 .. ValThrottle : lane[v][k] = Free
    BY <1>7 DEF Busy, Room
  <2> QED BY <2>1 DEF First
<1>8. ASSUME NEW v \in AsyncVals
      PROVE  /\ lane'[v] \in [1 .. ValThrottle -> 0 .. Throttle + 1]
             /\ \A k \in 1 .. ValThrottle :
                   lane'[v][k] = IF v \in Async(it) \ Busy(it) /\ k = First(v) THEN s ELSE lane[v][k]
  <2>1. lane[v] \in [1 .. ValThrottle -> 0 .. Throttle + 1] /\ s \in 0 .. Throttle + 1
    BY Sizes DEF Lanes
  <2>2. CASE v \in Async(it) \ Busy(it)
    <3>1. lane'[v] = [lane[v] EXCEPT ![First(v)] = s]
      BY <1>4, <2>2
    <3> QED BY <1>7, <2>1, <2>2, <3>1
  <2>3. CASE v \notin Async(it) \ Busy(it)
    <3>1. lane'[v] = lane[v]
      BY <1>4, <2>3
    <3> QED BY <2>1, <2>3, <3>1
  <2> QED BY <2>2, <2>3
<1>9. lane' \in [AsyncVals -> [1 .. ValThrottle -> 0 .. Throttle + 1]]
  <2>1. lane' = [v \in AsyncVals |-> lane'[v]]
    BY <1>4
  <2> QED BY <1>8, <2>1
<1>10. ASSUME NEW v \in AsyncVals, NEW k \in 1 .. ValThrottle, lane'[v][k] \in Slots
       PROVE  /\ task'[lane'[v][k]].pc = "wait" /\ v \in task'[lane'[v][k]].waiting
              /\ \A j \in 1 .. ValThrottle : lane'[v][j] = lane'[v][k] => j = k
  <2>1. CASE lane'[v][k] = s
    <3>1. v \in Async(it) \ Busy(it) /\ k = First(v)
      BY <1>6, <1>8, <2>1
    <3>2. \A j \in 1 .. ValThrottle : lane'[v][j] = s => j = First(v)
      BY <1>6, <1>8
    <3> QED BY <1>3, <1>5, <2>1, <3>1, <3>2
  <2>2. CASE lane'[v][k] # s
    <3>1. lane'[v][k] = lane[v][k]
      BY <1>8, <2>2
    <3>2. \A j \in 1 .. ValThrottle : lane'[v][j] = lane[v][k] => lane[v][j] = lane[v][k]
      BY <1>8, <2>2, <3>1
    <3>3. task'[lane'[v][k]] = task[lane[v][k]]
      BY <1>5, <1>10, <2>2, <3>1
    <3> QED BY <1>10, <3>1, <3>2, <3>3 DEF Lanes
  <2> QED BY <2>1, <2>2
<1> QED BY <1>5, <1>9, <1>10 DEF Lanes

\* validate after the inline validators
LEMMA InlinePlaces == ASSUME VInv, NEW w \in Workers, ValidateInline(w) PROVE VInv'
<1> DEFINE it == worker[w].item
<1>1. worker[w] \in WorkerStates /\ worker[w].pc = "inline"
  BY DEF ValidateInline, VInv, Working
<1>2. it \in Begun /\ it.said = {} /\ it.vals \subseteq Vals
  BY <1>1, StatesApart DEF Begun, Foreign
<1>3. UNCHANGED <<defaults, vals, queue, sendMsg>>
  BY DEF ValidateInline
<1>4. PICK r \in [Inline(it) -> {"accept", "reject", "ignore"}] :
         Proceed(w, [it EXCEPT !.said = {<<v, r[v]>> : v \in Inline(it)}],
                 InlineResult(Inline(it), r))
  BY DEF ValidateInline
<1> DEFINE S == {<<v, r[v]>> : v \in Inline(it)}
           it1 == [it EXCEPT !.said = S]
           res == InlineResult(Inline(it), r)
<1>5. S \in SUBSET (Vals \X Results)
  BY <1>2 DEF Inline, Results
<1>6. it1 \in Begun /\ it1.said = S /\ it1.vals = it.vals
  BY <1>2, <1>5, Answered
<1>7. Async(it1) = Async(it) /\ Inline(it1) = Inline(it)
  BY <1>6 DEF Async, Inline
<1>8. res \in {"accept", "reject", "ignore"}
      /\ (res = "accept" => S = Inline(it) \X {"accept"})
  <2>1. res = "accept" => \A v \in Inline(it) : r[v] = "accept"
    BY DEF InlineResult
  <2> QED BY <2>1 DEF InlineResult
<1>9. Proceed(w, it1, res)
  BY <1>4
<1> HIDE DEF it, S, it1, res
<1>10. Idle \in WorkerStates
  BY DEF WorkerStates
<1>11. CASE /\ res # "reject"
            /\ Start(CHOOSE s \in {s \in Slots : task[s] = Idle} : TRUE, it1, res)
            /\ {s \in Slots : task[s] = Idle} # {}
            /\ worker' = [worker EXCEPT ![w] = Idle]
  <2> DEFINE s == CHOOSE s \in {s \in Slots : task[s] = Idle} : TRUE
  <2>1. s \in Slots /\ task[s] = Idle /\ Start(s, it1, res)
    BY <1>11
  <2> HIDE DEF s
  <2>2. task' \in [Slots -> TaskStates] /\ Lanes'
    BY <1>6, <1>7, <1>8, <1>11, <2>1, StartPlaces DEF VInv
  <2>3. worker' \in [Workers -> WorkerStates]
    BY <1>10, <1>11 DEF VInv, Working
  <2> QED BY <1>3, <2>2, <2>3 DEF VInv, Entry, Working, Leaving
<1>12. CASE worker' = [worker EXCEPT ![w] = Idle] /\ UNCHANGED <<task, lane>>
  <2>1. worker' \in [Workers -> WorkerStates]
    BY <1>10, <1>12 DEF VInv, Working
  <2> QED BY <1>3, <1>12, <2>1 DEF VInv, Entry, Working, Lanes, Leaving
<1>13. CASE /\ res = "accept" /\ Async(it1) = {}
            /\ worker' = [worker EXCEPT ![w] = [pc |-> "send", item |-> it1]]
            /\ UNCHANGED <<task, lane>>
  <2>1. Inline(it) = it.vals
    BY <1>2, <1>7, <1>13, Sizes DEF Inline, Async
  <2>2. it1 \in Good
    BY <1>6, <1>8, <1>13, <2>1 DEF Good
  <2>3. [pc |-> "send", item |-> it1] \in WorkerStates
    BY <2>2 DEF WorkerStates
  <2>4. worker' \in [Workers -> WorkerStates]
    BY <1>13, <2>3 DEF VInv, Working
  <2> QED BY <1>3, <1>13, <2>4 DEF VInv, Entry, Working, Lanes, Leaving
<1> QED BY <1>9, <1>11, <1>12, <1>13 DEF Proceed
\* sendMsgBlocking, by a worker, by an asynchronous validation and by a publisher
LEMMA SendPlaces ==
    ASSUME VInv, NEW it \in Good \cup Own, sendMsg' = Append(sendMsg, it),
           UNCHANGED <<vals, defaults, queue, lane>>,
           \/ UNCHANGED <<worker, task>>
           \/ \E w \in Workers : worker' = [worker EXCEPT ![w] = Idle] /\ UNCHANGED task
           \/ \E s \in Slots : /\ task' = [task EXCEPT ![s] = Idle] /\ UNCHANGED worker
                               /\ task[s].pc = "send"
    PROVE  VInv'
<1>1. sendMsg' \in Seq(Good \cup Own)
  <2>1. sendMsg \in Seq(Good \cup Own)
    BY DEF VInv, Leaving
  <2> QED BY <2>1
<1>2. Working'
  <2>1. Idle \in WorkerStates /\ Idle \in TaskStates
    BY DEF WorkerStates, TaskStates
  <2> QED BY <2>1 DEF VInv, Working
<1>3. ASSUME NEW v \in AsyncVals, NEW k \in 1 .. ValThrottle, lane[v][k] \in Slots
      PROVE  task'[lane[v][k]] = task[lane[v][k]]
  <2>1. task[lane[v][k]].pc = "wait"
    BY <1>3 DEF VInv, Lanes
  <2> QED BY <1>3, <2>1 DEF VInv, Working
<1>4. Lanes'
  BY <1>3 DEF VInv, Lanes
<1> QED BY <1>1, <1>2, <1>4 DEF VInv, Entry, Leaving

LEMMA SendersPlaces ==
    ASSUME VInv,
           \/ \E w \in Workers : WorkerSend(w)
           \/ \E s \in Slots : TaskSend(s)
           \/ \E m \in Published, viaBatch \in BOOLEAN : AuthorSend(m, viaBatch)
    PROVE  VInv'
<1>1. ASSUME NEW w \in Workers, WorkerSend(w) PROVE VInv'
  <2>1. worker[w].item \in Good
    BY <1>1, StatesApart DEF WorkerSend, VInv, Working
  <2> QED BY <1>1, <2>1, SendPlaces DEF WorkerSend
<1>2. ASSUME NEW s \in Slots, TaskSend(s) PROVE VInv'
  <2>1. task[s].item \in Good
    BY <1>2, StatesApart DEF TaskSend, VInv, Working
  <2> QED BY <1>2, <2>1, SendPlaces DEF TaskSend
<1>3. ASSUME NEW m \in Published, NEW viaBatch \in BOOLEAN, AuthorSend(m, viaBatch) PROVE VInv'
  <2>1. UNCHANGED <<vals, defaults, queue, lane, worker, task>>
        /\ (UNCHANGED sendMsg \/ sendMsg' = Append(sendMsg, Copy(Self, m, {})))
    BY <1>3 DEF AuthorSend
  <2>2. Copy(Self, m, {}) \in Own
    BY CopyOwn, Sizes
  <2>3. CASE UNCHANGED sendMsg
    BY <2>1, <2>3 DEF VInv, Entry, Working, Lanes, Leaving
  <2>4. CASE sendMsg' = Append(sendMsg, Copy(Self, m, {}))
    BY <2>1, <2>2, <2>4, SendPlaces
  <2> QED BY <2>1, <2>3, <2>4
<1> QED BY <1>1, <1>2, <1>3

\* doValidateTopic ends
LEMMA ConcludePlaces ==
    ASSUME Working, NEW s \in Slots, NEW t \in Validations, Over(t), Conclude(s, t)
    PROVE  /\ task' \in [Slots -> TaskStates]
           /\ \A x \in Slots : x # s => task'[x] = task[x]
<1>1. CASE Verdict(t) = "accept"
  <2>1. task' = [task EXCEPT ![s] = [pc |-> "send", item |-> t.item]] /\ t.item \in Good
    BY <1>1, VerdictSound DEF Conclude
  <2>2. [pc |-> "send", item |-> t.item] \in TaskStates
    BY <2>1 DEF TaskStates
  <2> QED BY <2>1, <2>2 DEF Working
<1>2. CASE Verdict(t) # "accept"
  <2>1. task' = [task EXCEPT ![s] = Idle] /\ Idle \in TaskStates
    BY <1>2 DEF Conclude, TaskStates
  <2> QED BY <2>1 DEF Working
<1> QED BY <1>1, <1>2

\* A validator returns: its slot is free, and if the validation is over the others that
\* it waited for are on their own.
LEMMA DonePlaces ==
    ASSUME VInv, NEW v \in AsyncVals, NEW k \in 1 .. ValThrottle,
           NEW r \in {"accept", "reject", "ignore"}, ValidatorDone(v, k, r)
    PROVE  VInv'
<1> DEFINE s == lane[v][k]
           t == Heard(task[s], v, r)
<1>1. s \in Slots /\ UNCHANGED <<vals, defaults, queue, worker, sendMsg>>
  BY DEF ValidatorDone
<1>2. lane' = [u \in AsyncVals |-> [j \in 1 .. ValThrottle |->
              IF u = v /\ j = k THEN Free
              ELSE IF Over(t) /\ lane[u][j] = s THEN Orphan ELSE lane[u][j]]]
  BY DEF ValidatorDone
<1>3. Over(t) => Conclude(s, t)
  BY DEF ValidatorDone
<1>3a. ~ Over(t) => task' = [task EXCEPT ![s] = t]
  BY DEF ValidatorDone
<1>4. task[s] \in Validations /\ v \in task[s].waiting
  <2>1. task[s].pc = "wait" /\ v \in task[s].waiting /\ task[s] \in TaskStates
    BY <1>1 DEF VInv, Lanes, Working
  <2> QED BY <2>1, StatesApart
<1>5. t \in Validations /\ t.pc = "wait" /\ t.waiting = task[s].waiting \ {v}
  BY <1>4, HeardSound
<1> HIDE DEF s, t
<1>6. task' \in [Slots -> TaskStates] /\ \A x \in Slots : x # s => task'[x] = task[x]
  <2>1. CASE Over(t)
    BY <1>1, <1>3, <1>5, <2>1, ConcludePlaces DEF VInv
  <2>2. CASE ~ Over(t)
    <3>1. t \in TaskStates
      BY <1>5 DEF TaskStates
    <3> QED BY <1>1, <1>3a, <2>2, <3>1 DEF VInv, Working
  <2> QED BY <2>1, <2>2
<1>7. ASSUME NEW u \in AsyncVals, NEW j \in 1 .. ValThrottle
      PROVE  /\ lane'[u][j] = IF u = v /\ j = k THEN Free
                              ELSE IF Over(t) /\ lane[u][j] = s THEN Orphan ELSE lane[u][j]
             /\ lane'[u][j] \in 0 .. Throttle + 1
  <2>1. lane'[u][j] = IF u = v /\ j = k THEN Free
                      ELSE IF Over(t) /\ lane[u][j] = s THEN Orphan ELSE lane[u][j]
    BY <1>2
  <2>2. lane[u][j] \in 0 .. Throttle + 1
    <3>1. lane \in [AsyncVals -> [1 .. ValThrottle -> 0 .. Throttle + 1]]
      BY DEF VInv, Lanes
    <3> QED BY <3>1
  <2> QED BY <2>1, <2>2, Sizes
<1>8. lane' \in [AsyncVals -> [1 .. ValThrottle -> 0 .. Throttle + 1]]
  <2> DEFINE g(u, j) == IF u = v /\ j = k THEN Free
                        ELSE IF Over(t) /\ lane[u][j] = s THEN Orphan ELSE lane[u][j]
  <2>1. \A u \in AsyncVals, j \in 1 .. ValThrottle : g(u, j) \in 0 .. Throttle + 1
    BY <1>7
  <2>2. lane' = [u \in AsyncVals |-> [j \in 1 .. ValThrottle |-> g(u, j)]]
    BY <1>2
  <2> HIDE DEF g
  <2> QED BY <2>1, <2>2
<1>9. ASSUME NEW u \in AsyncVals, NEW j \in 1 .. ValThrottle, lane'[u][j] \in Slots
      PROVE  /\ task'[lane'[u][j]].pc = "wait" /\ u \in task'[lane'[u][j]].waiting
             /\ \A i \in 1 .. ValThrottle : lane'[u][i] = lane'[u][j] => i = j
  <2>1. lane'[u][j] = lane[u][j] /\ ~ (u = v /\ j = k) /\ (Over(t) => lane[u][j] # s)
    BY <1>7, <1>9, Sizes
  <2>2. lane[u][j] \in Slots /\ task[lane[u][j]].pc = "wait" /\ u \in task[lane[u][j]].waiting
        /\ \A i \in 1 .. ValThrottle : lane[u][i] = lane[u][j] => i = j
    BY <1>9, <2>1 DEF VInv, Lanes
  <2>3. \A i \in 1 .. ValThrottle : lane'[u][i] = lane'[u][j] => lane[u][i] = lane[u][j]
    <3>1. lane'[u][j] # Free /\ lane'[u][j] # Orphan
      BY <1>9, Sizes
    <3> QED BY <1>7, <2>1, <3>1
  <2>4. CASE lane[u][j] # s
    BY <1>6, <2>1, <2>2, <2>3, <2>4
  <2>5. CASE lane[u][j] = s
    <3>1. u # v
      <4>1. u = v => lane[v][k] = lane[v][j]
        BY <2>5 DEF s
      <4>2. u = v => k = j
        BY <4>1, <2>2
      <4> QED BY <4>2, <2>1
    <3>2. task'[s] = t
      BY <1>1, <1>3a, <2>1, <2>5 DEF VInv, Working
    <3> QED BY <1>5, <2>1, <2>2, <2>3, <2>5, <3>1, <3>2
  <2> QED BY <2>4, <2>5
<1>10. Lanes'
  BY <1>8, <1>9 DEF Lanes
<1> QED BY <1>1, <1>6, <1>10 DEF VInv, Entry, Working, Leaving

\* All validators were throttled, so that none of them holds a slot for the validation.
LEMMA ThrottledPlaces == ASSUME VInv, NEW s \in Slots, AllThrottled(s) PROVE VInv'
<1>1. /\ task[s].pc = "wait" /\ task[s].waiting = {} /\ Conclude(s, task[s])
      /\ UNCHANGED <<vals, defaults, queue, worker, lane, sendMsg>>
  BY DEF AllThrottled
<1>2. task[s] \in Validations /\ Over(task[s])
  BY <1>1, StatesApart DEF VInv, Working, Over
<1>3. task' \in [Slots -> TaskStates] /\ \A x \in Slots : x # s => task'[x] = task[x]
  BY <1>1, <1>2, ConcludePlaces DEF VInv
<1>4. \A v \in AsyncVals, k \in 1 .. ValThrottle : lane[v][k] # s
  BY <1>1 DEF VInv, Lanes
<1>5. Lanes'
  BY <1>1, <1>3, <1>4 DEF VInv, Lanes
<1> QED BY <1>1, <1>3, <1>5 DEF VInv, Entry, Working, Leaving

LEMMA OrphanPlaces ==
    ASSUME VInv, NEW v \in AsyncVals, NEW k \in 1 .. ValThrottle, OrphanDone(v, k) PROVE VInv'
<1>1. /\ lane' = [lane EXCEPT ![v][k] = Free] /\ lane[v][k] = Orphan
      /\ UNCHANGED <<vals, defaults, queue, worker, task, sendMsg>>
  BY DEF OrphanDone
<1>2. lane' \in [AsyncVals -> [1 .. ValThrottle -> 0 .. Throttle + 1]]
  BY <1>1, Sizes DEF VInv, Lanes
<1>3. \A u \in AsyncVals, j \in 1 .. ValThrottle :
         lane'[u][j] = lane[u][j] \/ lane'[u][j] \notin Slots
  BY <1>1, Sizes DEF VInv, Lanes
<1>4. ASSUME NEW u \in AsyncVals, NEW j \in 1 .. ValThrottle, lane'[u][j] \in Slots
      PROVE  /\ task'[lane'[u][j]].pc = "wait" /\ u \in task'[lane'[u][j]].waiting
             /\ \A i \in 1 .. ValThrottle : lane'[u][i] = lane'[u][j] => i = j
  <2>1. lane'[u][j] = lane[u][j]
    BY <1>3, <1>4
  <2>2. \A i \in 1 .. ValThrottle : lane'[u][i] = lane'[u][j] => lane[u][i] = lane[u][j]
    BY <1>3, <1>4, <2>1
  <2> QED BY <1>1, <1>4, <2>1, <2>2 DEF VInv, Lanes
<1> QED BY <1>1, <1>2, <1>4 DEF VInv, Entry, Working, Lanes, Leaving

LEMMA VStep == VInv /\ [Next]_vars => VInv'
<1> SUFFICES ASSUME VInv, [Next]_vars PROVE VInv'
  OBVIOUS
<1>1. CASE UNCHANGED <<vals, defaults, queue, worker, task, lane, sendMsg>>
  BY <1>1 DEF VInv, Entry, Working, Lanes, Leaving
<1>2. ASSUME ProcessSend PROVE VInv'
  <2>1. UNCHANGED <<vals, defaults, queue, worker, task, lane>>
        /\ sendMsg' = Tail(sendMsg) /\ sendMsg # <<>>
    BY <1>2 DEF ProcessSend
  <2>2. sendMsg' \in Seq(Good \cup Own)
    <3>1. sendMsg \in Seq(Good \cup Own)
      BY DEF VInv, Leaving
    <3> QED BY <2>1, <3>1
  <2> QED BY <2>1, <2>2 DEF VInv, Entry, Working, Lanes, Leaving
<1>3. ASSUME ProcessBatch \/ (\E m \in Published : ValidateLocal(m)) \/ UNCHANGED vars
      PROVE  UNCHANGED <<vals, defaults, queue, worker, task, lane, sendMsg>>
  BY <1>3 DEF ProcessBatch, ValidateLocal, vars, flow
<1>4. ASSUME Pipeline PROVE VInv'
  BY <1>1, <1>2, <1>3, <1>4, BeginPlaces, InlinePlaces, SendersPlaces, DonePlaces,
     ThrottledPlaces, OrphanPlaces DEF Pipeline
<1> QED BY <1>1, <1>3, <1>4, IncomingPlaces, ValidatorsPlaces DEF Next

\* validate, validateTopic and doValidateTopic let a message through only if every
\* validator it was queued with accepts it: none is skipped, throttled or outvoted, though
\* some run in the worker, others beside it, and late ones after the verdict.
THEOREM VettedHolds == Spec => []Vetted
<1>1. Init => VInv
  BY VInit
<1>2. VInv /\ [Next]_vars => VInv'
  BY VStep
<1>3. VInv => Vetted
  <2> SUFFICES ASSUME VInv, NEW i \in DOMAIN sendMsg, sendMsg[i].src # Self
               PROVE  /\ sendMsg[i].said = sendMsg[i].vals \X {"accept"}
                      /\ Flaw[<<sendMsg[i].src, sendMsg[i].id>>] = "none"
    BY DEF Vetted
  <2>1. sendMsg[i] \in Good \cup Own
    BY DEF VInv, Leaving
  <2>2. sendMsg[i] \in Good
    BY <2>1 DEF Own
  <2> QED BY <2>2 DEF Good, Begun
<1> QED BY <1>1, <1>2, <1>3, PTL DEF Spec

-----------------------------------------------------------------------------
(* Forged copies suppress nothing.                                         *)

\* What is queued has come in, and a message is seen for a reason.
Reasons ==
    /\ arrived \in [Peers \X Msgs -> Nat]
    /\ author \in [Published -> {"idle", "send", "done"}]
    /\ \A i \in 1 .. Len(queue) : arrived[<<queue[i].src, queue[i].id>>] > 0

SInv == Reasons /\ NoSuppression

\* Steps that only forget copies that wait, and undo nothing.
LEMMA SFewer ==
    ASSUME SInv, UNCHANGED arrived,
           \/ queue' = queue
           \/ queue' = Tail(queue) /\ queue # <<>> /\ queue \in Seq(Queued),
           author' \in [Published -> {"idle", "send", "done"}],
           \A m \in Published : author[m] # "idle" => author'[m] # "idle",
           \A m \in seen' : \/ m \in seen
                            \/ m \in Published /\ author'[m] # "idle"
                            \/ \E p \in Peers : Flaw[<<p, m>>] = "none" /\ arrived[<<p, m>>] > 0
    PROVE  SInv'
<1>1. \A i \in 1 .. Len(queue') : arrived'[<<queue'[i].src, queue'[i].id>>] > 0
  <2>1. CASE queue' = queue
    BY <2>1 DEF SInv, Reasons
  <2>2. CASE queue' = Tail(queue) /\ queue # <<>> /\ queue \in Seq(Queued)
    <3>1. \A i \in 1 .. Len(queue') : i + 1 \in 1 .. Len(queue) /\ queue'[i] = queue[i + 1]
      BY <2>2
    <3> QED BY <3>1 DEF SInv, Reasons
  <2> QED BY <2>1, <2>2
<1>2. NoSuppression'
  BY DEF SInv, NoSuppression
<1> QED BY <1>1, <1>2 DEF SInv, Reasons

LEMMA IncomingReasons ==
    ASSUME VInv, SInv, NEW p \in Peers, NEW m \in Msgs, HandleIncomingRPC(p, m) PROVE SInv'
<1>1. /\ arrived' = [arrived EXCEPT ![<<p, m>>] = @ + 1] /\ UNCHANGED author
      /\ \/ queue' = queue /\ seen' = seen
         \/ /\ seen' = seen \cup {m} /\ m \notin Signed /\ queue' = queue
            /\ Flaw[<<p, m>>] \in {"none", "signature"}
         \/ queue' = Append(queue, Copy(p, m, vals)) /\ seen' = seen
  BY DEF HandleIncomingRPC, PushMsg
<1>2. <<p, m>> \in Peers \X Msgs /\ arrived \in [Peers \X Msgs -> Nat]
  BY DEF SInv, Reasons
<1>3. /\ arrived' \in [Peers \X Msgs -> Nat] /\ arrived'[<<p, m>>] > 0
      /\ \A x \in Peers \X Msgs : arrived[x] > 0 => arrived'[x] > 0
  BY <1>1, <1>2
<1>4. queue \in Seq(Queued) /\ \A it \in Queued : <<it.src, it.id>> \in Peers \X Msgs
  BY DEF VInv, Entry, Queued, Foreign
<1>5. \A i \in 1 .. Len(queue) : arrived'[<<queue[i].src, queue[i].id>>] > 0
  <2> SUFFICES ASSUME NEW i \in 1 .. Len(queue)
               PROVE  arrived'[<<queue[i].src, queue[i].id>>] > 0
    OBVIOUS
  <2>1. queue[i] \in Queued /\ arrived[<<queue[i].src, queue[i].id>>] > 0
    BY <1>4 DEF SInv, Reasons
  <2> QED BY <1>3, <1>4, <2>1
<1>6. \A i \in 1 .. Len(queue') : arrived'[<<queue'[i].src, queue'[i].id>>] > 0
  <2>1. CASE queue' = queue
    BY <1>5, <2>1
  <2>2. CASE queue' = Append(queue, Copy(p, m, vals))
    <3> DEFINE c == Copy(p, m, vals)
    <3>1. c.src = p /\ c.id = m
      BY DEF Copy
    <3> HIDE DEF c
    <3>2. \A i \in 1 .. Len(queue') : queue'[i] = c \/ (i \in 1 .. Len(queue) /\ queue'[i] = queue[i])
      BY <1>4, <2>2 DEF c
    <3> QED BY <1>3, <1>5, <3>1, <3>2
  <2> QED BY <1>1, <2>1, <2>2
<1>7. NoSuppression'
  <2> SUFFICES ASSUME NEW x \in seen'
               PROVE  \/ x \in Published /\ author'[x] # "idle"
                      \/ \E q \in Peers : Flaw[<<q, x>>] = "none" /\ arrived'[<<q, x>>] > 0
    BY DEF NoSuppression
  <2>1. CASE x \in seen
    <3>1. CASE x \in Published /\ author[x] # "idle"
      BY <1>1, <3>1
    <3>2. ASSUME NEW q \in Peers, Flaw[<<q, x>>] = "none", arrived[<<q, x>>] > 0
          PROVE  \E y \in Peers : Flaw[<<y, x>>] = "none" /\ arrived'[<<y, x>>] > 0
      <4>1. arrived'[<<q, x>>] > 0
        <5>1. CASE <<q, x>> = <<p, m>>
          BY <1>3, <5>1
        <5>2. CASE <<q, x>> # <<p, m>>
          BY <1>1, <1>2, <3>2, <5>2
        <5> QED BY <5>1, <5>2
      <4> QED BY <3>2, <4>1
    <3> QED BY <2>1, <3>1, <3>2 DEF SInv, NoSuppression
  <2>2. CASE x \notin seen
    <3>1. x = m /\ m \notin Signed /\ Flaw[<<p, m>>] \in {"none", "signature"}
      BY <1>1, <2>2
    <3>2. Flaw[<<p, m>>] # "signature"
      <4>1. <<p, m>>[2] = m
        OBVIOUS
      <4> QED BY <1>2, <3>1, <4>1, ValidationAssumption
    <3> QED BY <1>3, <3>1, <3>2
  <2> QED BY <2>1, <2>2
<1> QED BY <1>1, <1>3, <1>6, <1>7 DEF SInv, Reasons

LEMMA BeginReasons == ASSUME VInv, SInv, NEW w \in Workers, ValidateBegin(w) PROVE SInv'
<1> DEFINE it == Head(queue)
<1>1. /\ UNCHANGED <<arrived, author>> /\ queue' = Tail(queue) /\ queue # <<>>
      /\ seen' = seen \cup Marked(it)
  BY DEF ValidateBegin
<1>2. queue \in Seq(Queued) /\ it = queue[1] /\ 1 \in 1 .. Len(queue) /\ it \in Queued
  BY <1>1 DEF VInv, Entry
<1>3. arrived[<<it.src, it.id>>] > 0
  BY <1>2 DEF SInv, Reasons
<1> HIDE DEF it
<1>4. it.src \in Peers /\ it.src # Self /\ Flaw[<<it.src, it.id>>] \in {"none", "signature"}
  BY <1>2, Sizes DEF Queued, Foreign
<1>5. \A m \in seen' : m \in seen \/ (m = it.id /\ Flaw[<<it.src, it.id>>] = "none")
  BY <1>1, <1>4 DEF Marked
<1>6. \A m \in seen' : m \in seen
         \/ \E p \in Peers : Flaw[<<p, m>>] = "none" /\ arrived[<<p, m>>] > 0
  BY <1>3, <1>4, <1>5
<1>7. author' \in [Published -> {"idle", "send", "done"}]
      /\ \A m \in Published : author[m] # "idle" => author'[m] # "idle"
  BY <1>1 DEF SInv, Reasons
<1> QED BY <1>1, <1>2, <1>6, <1>7, SFewer

LEMMA SStep == VInv /\ SInv /\ [Next]_vars => SInv'
<1> SUFFICES ASSUME VInv, SInv, [Next]_vars PROVE SInv'
  OBVIOUS
<1>1. CASE UNCHANGED <<arrived, queue, author, seen>>
  BY <1>1, SFewer DEF SInv, Reasons
<1>2. ASSUME NEW m \in Published, ValidateLocal(m) PROVE SInv'
  <2>1. /\ UNCHANGED <<arrived, queue>> /\ seen' = seen \cup {m}
        /\ \E st \in {"send", "done"} : author' = [author EXCEPT ![m] = st]
    BY <1>2 DEF ValidateLocal
  <2>2. /\ author' \in [Published -> {"idle", "send", "done"}] /\ author'[m] # "idle"
        /\ \A x \in Published : author[x] # "idle" => author'[x] # "idle"
    BY <2>1 DEF SInv, Reasons
  <2> QED BY <2>1, <2>2, SFewer
<1>3. ASSUME NEW m \in Published, NEW viaBatch \in BOOLEAN, AuthorSend(m, viaBatch) PROVE SInv'
  <2>1. UNCHANGED <<arrived, queue, seen>> /\ author' = [author EXCEPT ![m] = "done"]
    BY <1>3 DEF AuthorSend
  <2>2. /\ author' \in [Published -> {"idle", "send", "done"}]
        /\ \A x \in Published : author[x] # "idle" => author'[x] # "idle"
    BY <2>1 DEF SInv, Reasons
  <2> QED BY <2>1, <2>2, SFewer
<1>4. ASSUME Pipeline PROVE SInv'
  <2>1. CASE \E w \in Workers : ValidateInline(w) \/ WorkerSend(w)
    BY <1>1, <2>1 DEF ValidateInline, WorkerSend
  <2>2. CASE \/ \E v \in AsyncVals, k \in 1 .. ValThrottle :
                   \/ OrphanDone(v, k)
                   \/ \E r \in {"accept", "reject", "ignore"} : ValidatorDone(v, k, r)
             \/ \E s \in Slots : AllThrottled(s) \/ TaskSend(s)
    BY <1>1, <2>2 DEF OrphanDone, ValidatorDone, AllThrottled, TaskSend
  <2>3. CASE ProcessSend \/ ProcessBatch
    BY <1>1, <2>3 DEF ProcessSend, ProcessBatch
  <2> QED BY <1>3, <1>4, <2>1, <2>2, <2>3, BeginReasons DEF Pipeline
<1>5. CASE (\E v \in TopicVals : AddValidator(v) \/ RemoveValidator(v)) \/ UNCHANGED vars
  BY <1>1, <1>5 DEF AddValidator, RemoveValidator, vars, flow
<1> QED BY <1>2, <1>4, <1>5, IncomingReasons DEF Next

\* validate marks a message as seen only after the signature of the copy was checked, so
\* that a forged copy does not keep the real message out.
THEOREM NoSuppressionHolds == Spec => []NoSuppression
<1>1. Init => VInv /\ SInv
  <2>1. Init => SInv
    BY DEF Init, SInv, Reasons, NoSuppression
  <2> QED BY <2>1, VInit
<1>2. VInv /\ SInv /\ [Next]_vars => VInv' /\ SInv'
  BY VStep, SStep
<1>3. SInv => NoSuppression
  BY DEF SInv
<1> QED BY <1>1, <1>2, <1>3, PTL DEF Spec
-----------------------------------------------------------------------------
(* The delivery records.                                                   *)

Status == {"none", "unknown", "valid", "invalid", "throttled", "ignored"}
Entries == [first : Nat, near : Nat, bad : Nat, plain : Nat]
Ledgers == [Peers \X Msgs -> Entries]
TraceStates ==
    [status : [Msgs -> Status], peers : [Msgs -> SUBSET Peers], tracking : SUBSET Msgs,
     ledger : Ledgers]

\* What the peers were given for message m agrees with the status of its record, and a
\* peer that has had its share of a valid message is noted in it.
Row(ts, m) ==
    /\ \A p \in Peers :
          LET e == ts.ledger[<<p, m>>] IN
             /\ e.first > 0 => ts.status[m] = "valid"
             /\ e.near > 0 => ts.status[m] = "valid" /\ p \in ts.peers[m]
             /\ e.near <= 1
             /\ e.bad > 0 => ts.status[m] = "invalid"
    /\ \A p, q \in Peers :
          ts.ledger[<<p, m>>].first > 0 /\ ts.ledger[<<q, m>>].first > 0 => p = q

\* Entry e counts the same as entry d, but for deliveries that are plainly invalid.
Alike(d, e) == d.first = e.first /\ d.near = e.near /\ d.bad = e.bad

\* The records of ts and us differ at most for message m.
But(ts, us, m) ==
    \A n \in Msgs : n # m =>
        /\ us.status[n] = ts.status[n] /\ us.peers[n] = ts.peers[n]
        /\ \A p \in Peers : Alike(us.ledger[<<p, n>>], ts.ledger[<<p, n>>])

LEMMA RowAlike ==
    ASSUME NEW ts \in TraceStates, NEW us \in TraceStates, NEW n \in Msgs, Row(ts, n),
           us.status[n] = ts.status[n], us.peers[n] = ts.peers[n],
           \A p \in Peers : Alike(us.ledger[<<p, n>>], ts.ledger[<<p, n>>])
    PROVE  Row(us, n)
BY DEF Row, Alike

\* The ledgers after the marks
LEMMA UpNat == ASSUME NEW n \in Nat PROVE Up(n) \in {n, n + 1}
BY MaxCountAssumption DEF Up

LEMMA MarkFirstSound ==
    ASSUME NEW led \in Ledgers, NEW p \in Peers, NEW m \in Msgs
    PROVE  /\ MarkFirst(led, p, m) \in Ledgers
           /\ \A q \in Peers, n \in Msgs :
                 LET d == led[<<q, n>>] IN LET e == MarkFirst(led, p, m)[<<q, n>>] IN
                    /\ e.first \in {d.first, d.first + 1} /\ e.near = d.near /\ e.bad = d.bad
                    /\ <<q, n>> # <<p, m>> => e.first = d.first
<1>1. <<p, m>> \in Peers \X Msgs /\ led[<<p, m>>] \in Entries
  BY DEF Ledgers
<1>2. MarkFirst(led, p, m) = [led EXCEPT ![<<p, m>>] = [led[<<p, m>>] EXCEPT !.first = Up(led[<<p, m>>].first)]]
  BY <1>1 DEF MarkFirst, Ledgers
<1>3. [led[<<p, m>>] EXCEPT !.first = Up(led[<<p, m>>].first)] \in Entries
  BY <1>1, UpNat DEF Entries
<1> DEFINE led1 == MarkFirst(led, p, m)
<1>4. led1 \in Ledgers
  BY <1>1, <1>2, <1>3 DEF Ledgers
<1>5. ASSUME NEW q \in Peers, NEW n \in Msgs
      PROVE  LET d == led[<<q, n>>] IN LET e == led1[<<q, n>>] IN
                    /\ e.first \in {d.first, d.first + 1} /\ e.near = d.near /\ e.bad = d.bad
                    /\ <<q, n>> # <<p, m>> => e.first = d.first
  <2>1. <<q, n>> \in Peers \X Msgs /\ led[<<q, n>>] \in Entries
    BY DEF Ledgers
  <2>2. CASE <<q, n>> = <<p, m>>
    <3>1. led1[<<q, n>>] = [led[<<q, n>>] EXCEPT !.first = Up(led[<<q, n>>].first)]
      BY <1>1, <1>2, <2>2 DEF Ledgers
    <3> QED BY <2>1, <2>2, <3>1, UpNat DEF Entries
  <2>3. CASE <<q, n>> # <<p, m>>
    <3>1. led1[<<q, n>>] = led[<<q, n>>]
      BY <1>1, <1>2, <2>1, <2>3 DEF Ledgers
    <3> QED BY <2>1, <2>3, <3>1 DEF Entries
  <2> QED BY <2>2, <2>3
<1> QED BY <1>4, <1>5

LEMMA MarkNearSound ==
    ASSUME NEW led \in Ledgers, NEW S, NEW m \in Msgs
    PROVE  /\ MarkNear(led, S, m) \in Ledgers
           /\ \A q \in Peers, n \in Msgs :
                 LET d == led[<<q, n>>] IN LET e == MarkNear(led, S, m)[<<q, n>>] IN
                    /\ e.near \in {d.near, d.near + 1} /\ e.first = d.first /\ e.bad = d.bad
                    /\ ~ (q \in S /\ n = m) => e.near = d.near
<1>1. MarkNear(led, S, m) = [x \in Peers \X Msgs |-> 
         IF x[1] \in S /\ x[2] = m THEN [led[x] EXCEPT !.near = Up(led[x].near)] ELSE led[x]]
  BY DEF MarkNear, Ledgers
<1>2. \A x \in Peers \X Msgs : [led[x] EXCEPT !.near = Up(led[x].near)] \in Entries /\ led[x] \in Entries
  BY UpNat DEF Entries, Ledgers
<1>3. MarkNear(led, S, m) \in Ledgers
  BY <1>1, <1>2 DEF Ledgers
<1>4. ASSUME NEW q \in Peers, NEW n \in Msgs
      PROVE  LET d == led[<<q, n>>] IN LET e == MarkNear(led, S, m)[<<q, n>>] IN
                    /\ e.near \in {d.near, d.near + 1} /\ e.first = d.first /\ e.bad = d.bad
                    /\ ~ (q \in S /\ n = m) => e.near = d.near
  <2>1. MarkNear(led, S, m)[<<q, n>>] =
          IF q \in S /\ n = m THEN [led[<<q, n>>] EXCEPT !.near = Up(led[<<q, n>>].near)] ELSE led[<<q, n>>]
    BY <1>1
  <2>2. led[<<q, n>>] \in Entries
    BY DEF Ledgers
  <2> QED BY <2>1, <2>2, UpNat DEF Entries
<1> QED BY <1>3, <1>4

LEMMA MarkBadSound ==
    ASSUME NEW led \in Ledgers, NEW S, NEW m \in Msgs
    PROVE  /\ MarkBad(led, S, m) \in Ledgers
           /\ \A q \in Peers, n \in Msgs :
                 LET d == led[<<q, n>>] IN LET e == MarkBad(led, S, m)[<<q, n>>] IN
                    /\ e.first = d.first /\ e.near = d.near /\ (n # m => e.bad = d.bad)
<1>1. MarkBad(led, S, m) = [x \in Peers \X Msgs |-> 
         IF x[1] \in S /\ x[2] = m THEN [led[x] EXCEPT !.bad = Up(led[x].bad)] ELSE led[x]]
  BY DEF MarkBad, Ledgers
<1>2. \A x \in Peers \X Msgs : [led[x] EXCEPT !.bad = Up(led[x].bad)] \in Entries /\ led[x] \in Entries
  BY UpNat DEF Entries, Ledgers
<1>3. MarkBad(led, S, m) \in Ledgers
  BY <1>1, <1>2 DEF Ledgers
<1>4. ASSUME NEW q \in Peers, NEW n \in Msgs
      PROVE  LET d == led[<<q, n>>] IN LET e == MarkBad(led, S, m)[<<q, n>>] IN
                    /\ e.first = d.first /\ e.near = d.near /\ (n # m => e.bad = d.bad)
  <2>1. MarkBad(led, S, m)[<<q, n>>] =
          IF q \in S /\ n = m THEN [led[<<q, n>>] EXCEPT !.bad = Up(led[<<q, n>>].bad)] ELSE led[<<q, n>>]
    BY <1>1
  <2>2. led[<<q, n>>] \in Entries
    BY DEF Ledgers
  <2> QED BY <2>1, <2>2 DEF Entries
<1> QED BY <1>3, <1>4

\* The four traces: the record of one message changes, and stays in agreement.
LEMMA EarlyRows ==
    ASSUME NEW ts \in TraceStates, NEW p \in Peers, NEW m \in Msgs, NEW reason,
           \A n \in Msgs : Row(ts, n)
    PROVE  LET us == TraceRejectEarly(ts, p, m, reason) IN
              us \in TraceStates /\ us.status = ts.status /\ \A n \in Msgs : Row(us, n)
<1> DEFINE us == TraceRejectEarly(ts, p, m, reason)
           led == MarkPlain(ts.ledger, p, m)
<1>0. <<p, m>> \in Peers \X Msgs /\ ts.ledger[<<p, m>>] \in Entries /\ ts.ledger \in Ledgers
  BY DEF Ledgers, TraceStates
<1>1. led = [ts.ledger EXCEPT ![<<p, m>>] =
               [ts.ledger[<<p, m>>] EXCEPT !.plain = Up(ts.ledger[<<p, m>>].plain)]]
  BY <1>0 DEF MarkPlain, Ledgers
<1>2. [ts.ledger[<<p, m>>] EXCEPT !.plain = Up(ts.ledger[<<p, m>>].plain)] \in Entries
  BY <1>0, UpNat DEF Entries
<1>3. led \in Ledgers /\ \A x \in Peers \X Msgs : Alike(led[x], ts.ledger[x])
  <2> HIDE DEF led
  <2>1. led \in Ledgers
    BY <1>0, <1>1, <1>2 DEF Ledgers
  <2>2. \A x \in Peers \X Msgs : x # <<p, m>> => led[x] = ts.ledger[x]
    BY <1>0, <1>1 DEF Ledgers
  <2>3. led[<<p, m>>] = [ts.ledger[<<p, m>>] EXCEPT !.plain = Up(ts.ledger[<<p, m>>].plain)]
    BY <1>0, <1>1 DEF Ledgers
  <2>4. Alike(led[<<p, m>>], ts.ledger[<<p, m>>])
    BY <1>0, <2>3 DEF Alike, Entries
  <2> QED BY <2>1, <2>2, <2>4 DEF Alike
<1>4. us = ts \/ us = [ts EXCEPT !.ledger = led]
  BY DEF TraceRejectEarly
<1> HIDE DEF led, us
<1>5. [ts EXCEPT !.ledger = led] = [status |-> ts.status, peers |-> ts.peers,
                                    tracking |-> ts.tracking, ledger |-> led]
  BY DEF TraceStates
<1>6. CASE us = ts
  BY <1>6 DEF us
<1>7. CASE us = [ts EXCEPT !.ledger = led]
  <2>1. us \in TraceStates /\ us.status = ts.status /\ us.peers = ts.peers /\ us.ledger = led
    BY <1>3, <1>5, <1>7 DEF TraceStates
  <2> QED BY <1>3, <2>1, RowAlike DEF us
<1> QED BY <1>4, <1>6, <1>7

LEMMA ValidateRows ==
    ASSUME NEW ts \in TraceStates, NEW m \in Msgs, ts.status[m] = "none",
           \A n \in Msgs : Row(ts, n)
    PROVE  LET us == TraceValidate(ts, m) IN
              /\ us \in TraceStates /\ \A n \in Msgs : Row(us, n)
              /\ us.status = [ts.status EXCEPT ![m] = "unknown"]
<1> DEFINE us == TraceValidate(ts, m)
<1>1. us = [status |-> [ts.status EXCEPT ![m] = "unknown"], peers |-> ts.peers,
            tracking |-> ts.tracking \cup {m}, ledger |-> ts.ledger]
  BY DEF TraceValidate, Looked
<1>2. us \in TraceStates /\ us.status = [ts.status EXCEPT ![m] = "unknown"]
      /\ us.peers = ts.peers /\ us.ledger = ts.ledger
  BY <1>1 DEF TraceStates, Status
<1> HIDE DEF us
<1>3. ASSUME NEW n \in Msgs PROVE Row(us, n)
  <2>1. Row(ts, n)
    OBVIOUS
  <2>2. n # m => us.status[n] = ts.status[n]
    BY <1>2 DEF TraceStates
  <2>3. us.status[m] = "unknown"
    BY <1>2 DEF TraceStates
  <2> QED BY <1>2, <2>1, <2>2, <2>3 DEF Row
<1> QED BY <1>2, <1>3 DEF us

\* A first outcome
LEMMA DeliverRows ==
    ASSUME NEW ts \in TraceStates, NEW p \in Peers, NEW m \in Msgs,
           ts.status[m] \in {"none", "unknown"}, \A n \in Msgs : Row(ts, n)
    PROVE  LET us == TraceDeliver(ts, p, m) IN
              /\ us \in TraceStates /\ \A n \in Msgs : Row(us, n)
              /\ us.status = [ts.status EXCEPT ![m] = "valid"]
<1> DEFINE us == TraceDeliver(ts, p, m)
           led == MarkFirst(ts.ledger, p, m)
           led1 == MarkNear(led, ts.peers[m] \ {p}, m)
<1>1. us = [status |-> [ts.status EXCEPT ![m] = "valid"], peers |-> ts.peers,
            tracking |-> ts.tracking \ {m}, ledger |-> led1]
  BY DEF TraceDeliver, Looked
<1>2. ts.ledger \in Ledgers
  BY DEF TraceStates
<1>3. led \in Ledgers
  BY <1>2, MarkFirstSound
<1>4. led1 \in Ledgers
  BY <1>3, MarkNearSound
<1>5. us \in TraceStates /\ us.status = [ts.status EXCEPT ![m] = "valid"]
      /\ us.peers = ts.peers /\ us.ledger = led1
  BY <1>1, <1>4 DEF TraceStates, Status
<1>6. ASSUME NEW q \in Peers, NEW n \in Msgs
      PROVE  LET d == ts.ledger[<<q, n>>] IN LET e == led1[<<q, n>>] IN
                /\ e.first \in {d.first, d.first + 1} /\ e.near \in {d.near, d.near + 1}
                /\ e.bad = d.bad
                /\ n # m => e.first = d.first /\ e.near = d.near
                /\ q # p => e.first = d.first
                /\ q \notin ts.peers[m] => e.near = d.near
  <2>1. LET d == ts.ledger[<<q, n>>] IN LET e == led[<<q, n>>] IN
           /\ e.first \in {d.first, d.first + 1} /\ e.near = d.near /\ e.bad = d.bad
           /\ <<q, n>> # <<p, m>> => e.first = d.first
    BY <1>2, MarkFirstSound
  <2>2. LET d == led[<<q, n>>] IN LET e == led1[<<q, n>>] IN
           /\ e.near \in {d.near, d.near + 1} /\ e.first = d.first /\ e.bad = d.bad
           /\ ~ (q \in ts.peers[m] \ {p} /\ n = m) => e.near = d.near
    BY <1>3, MarkNearSound
  <2> HIDE DEF led, led1
  <2>3. n # m \/ q # p => <<q, n>> # <<p, m>>
    OBVIOUS
  <2> QED BY <2>1, <2>2, <2>3
<1> HIDE DEF us, led, led1
<1>7. ASSUME NEW n \in Msgs PROVE Row(us, n)
  <2>1. Row(ts, n)
    OBVIOUS
  <2>0. \A q \in Peers : ts.ledger[<<q, n>>] \in Entries
    BY <1>2 DEF Ledgers
  <2>2. CASE n # m
    <3>1. us.status[n] = ts.status[n]
      BY <1>5, <2>2 DEF TraceStates
    <3>2. \A q \in Peers : Alike(us.ledger[<<q, n>>], ts.ledger[<<q, n>>])
      BY <1>5, <1>6, <2>2 DEF Alike
    <3> QED BY <1>5, <2>1, <3>1, <3>2, RowAlike
  <2>3. CASE n = m
    <3>1. us.status[n] = "valid" /\ ts.status[n] \in {"none", "unknown"}
      BY <1>5, <2>3 DEF TraceStates
    <3>2. \A q \in Peers : /\ ts.ledger[<<q, n>>].first = 0 /\ ts.ledger[<<q, n>>].near = 0
                           /\ ts.ledger[<<q, n>>].bad = 0
      <4> SUFFICES ASSUME NEW q \in Peers
                   PROVE  /\ ts.ledger[<<q, n>>].first = 0 /\ ts.ledger[<<q, n>>].near = 0
                          /\ ts.ledger[<<q, n>>].bad = 0
        OBVIOUS
      <4> DEFINE e == ts.ledger[<<q, n>>]
      <4>1. e.first \in Nat /\ e.near \in Nat /\ e.bad \in Nat
        BY <2>0 DEF Entries
      <4>2. ~ (e.first > 0) /\ ~ (e.near > 0) /\ ~ (e.bad > 0)
        BY <2>1, <3>1 DEF Row
      <4> QED BY <4>1, <4>2
    <3>3. \A q \in Peers : /\ us.ledger[<<q, n>>].first > 0 => q = p
                           /\ us.ledger[<<q, n>>].near \in {0, 1} /\ us.ledger[<<q, n>>].bad = 0
                           /\ us.ledger[<<q, n>>].near > 0 => q \in us.peers[n]
      <4> SUFFICES ASSUME NEW q \in Peers
                   PROVE  /\ us.ledger[<<q, n>>].first > 0 => q = p
                          /\ us.ledger[<<q, n>>].near \in {0, 1} /\ us.ledger[<<q, n>>].bad = 0
                          /\ us.ledger[<<q, n>>].near > 0 => q \in us.peers[n]
        OBVIOUS
      <4>1. us.ledger = led1 /\ us.peers[n] = ts.peers[m]
        BY <1>5, <2>3
      <4> QED BY <1>6, <2>3, <3>2, <4>1
    <3> QED BY <3>1, <3>3 DEF Row
  <2> QED BY <2>2, <2>3
<1> QED BY <1>5, <1>7 DEF us

LEMMA RejectRows ==
    ASSUME NEW ts \in TraceStates, NEW p \in Peers, NEW m \in Msgs,
           NEW reason \in {"failed", "ignored", "throttled"},
           ts.status[m] = "unknown", \A n \in Msgs : Row(ts, n)
    PROVE  LET us == TraceReject(ts, p, m, reason) IN
              /\ us \in TraceStates /\ \A n \in Msgs : Row(us, n)
              /\ us.status = [ts.status EXCEPT ![m] = IF reason = "failed" THEN "invalid" ELSE reason]
<1> DEFINE us == TraceReject(ts, p, m, reason)
           st == IF reason = "failed" THEN "invalid" ELSE reason
           led == MarkBad(ts.ledger, {p} \cup ts.peers[m], m)
           led1 == MarkBad(led, {p}, m)
           led2 == IF reason # "failed" THEN ts.ledger
                   ELSE IF p \in ts.peers[m] THEN led1 ELSE led
<1>1. us = [status |-> [ts.status EXCEPT ![m] = st], peers |-> [ts.peers EXCEPT ![m] = {}],
            tracking |-> ts.tracking \ {m}, ledger |-> led2]
  BY DEF TraceReject, Looked
<1>2. ts.ledger \in Ledgers
  BY DEF TraceStates
<1>3. led \in Ledgers
  BY <1>2, MarkBadSound
<1>4. led1 \in Ledgers
  BY <1>3, MarkBadSound
<1>5. us \in TraceStates /\ us.status = [ts.status EXCEPT ![m] = st]
      /\ us.peers = [ts.peers EXCEPT ![m] = {}] /\ us.ledger = led2
  <2>1. led2 \in Ledgers /\ st \in Status
    BY <1>2, <1>3, <1>4 DEF Status
  <2> HIDE DEF led2, st
  <2> QED BY <1>1, <2>1 DEF TraceStates
<1>6. ASSUME NEW q \in Peers, NEW n \in Msgs
      PROVE  LET d == ts.ledger[<<q, n>>] IN LET e == led2[<<q, n>>] IN
                /\ e.first = d.first /\ e.near = d.near
                /\ n # m \/ reason # "failed" => e.bad = d.bad
  <2>1. LET d == ts.ledger[<<q, n>>] IN LET e == led[<<q, n>>] IN
           e.first = d.first /\ e.near = d.near /\ (n # m => e.bad = d.bad)
    BY <1>2, MarkBadSound
  <2>2. LET d == led[<<q, n>>] IN LET e == led1[<<q, n>>] IN
           e.first = d.first /\ e.near = d.near /\ (n # m => e.bad = d.bad)
    BY <1>3, MarkBadSound
  <2> HIDE DEF led, led1
  <2> QED BY <2>1, <2>2
<1> HIDE DEF us, led2
<1>7. ASSUME NEW n \in Msgs PROVE Row(us, n)
  <2>1. Row(ts, n)
    OBVIOUS
  <2>0. \A q \in Peers : ts.ledger[<<q, n>>] \in Entries
    BY <1>2 DEF Ledgers
  <2>2. CASE n # m
    <3>1. us.status[n] = ts.status[n] /\ us.peers[n] = ts.peers[n]
      BY <1>5, <2>2 DEF TraceStates
    <3>2. \A q \in Peers : Alike(us.ledger[<<q, n>>], ts.ledger[<<q, n>>])
      BY <1>5, <1>6, <2>2 DEF Alike
    <3> QED BY <1>5, <2>1, <3>1, <3>2, RowAlike
  <2>3. CASE n = m
    <3>1. us.status[n] = st /\ ts.status[n] = "unknown"
      BY <1>5, <2>3 DEF TraceStates
    <3>2. \A q \in Peers : /\ ts.ledger[<<q, n>>].first = 0 /\ ts.ledger[<<q, n>>].near = 0
                           /\ ts.ledger[<<q, n>>].bad = 0
      <4> SUFFICES ASSUME NEW q \in Peers
                   PROVE  /\ ts.ledger[<<q, n>>].first = 0 /\ ts.ledger[<<q, n>>].near = 0
                          /\ ts.ledger[<<q, n>>].bad = 0
        OBVIOUS
      <4> DEFINE e == ts.ledger[<<q, n>>]
      <4>1. e.first \in Nat /\ e.near \in Nat /\ e.bad \in Nat
        BY <2>0 DEF Entries
      <4>2. ~ (e.first > 0) /\ ~ (e.near > 0) /\ ~ (e.bad > 0)
        BY <2>1, <3>1 DEF Row
      <4> QED BY <4>1, <4>2
    <3>3. \A q \in Peers : /\ us.ledger[<<q, n>>].first = 0 /\ us.ledger[<<q, n>>].near = 0
                           /\ us.ledger[<<q, n>>].bad > 0 => st = "invalid"
      <4> SUFFICES ASSUME NEW q \in Peers
                   PROVE  /\ us.ledger[<<q, n>>].first = 0 /\ us.ledger[<<q, n>>].near = 0
                          /\ us.ledger[<<q, n>>].bad > 0 => st = "invalid"
        OBVIOUS
      <4>1. us.ledger = led2
        BY <1>5
      <4> QED BY <1>6, <2>3, <3>2, <4>1
    <3> HIDE DEF st
    <3> QED BY <3>1, <3>3 DEF Row
  <2> QED BY <2>2, <2>3
<1> QED BY <1>5, <1>7 DEF us

LEMMA DuplicateRows ==
    ASSUME NEW ts \in TraceStates, NEW p \in Peers, NEW m \in Msgs, \A n \in Msgs : Row(ts, n)
    PROVE  LET us == TraceDuplicate(ts, p, m) IN
              /\ us \in TraceStates /\ \A n \in Msgs : Row(us, n)
              /\ us.status = [ts.status EXCEPT ![m] = Looked(ts, m)]
<1> DEFINE us == TraceDuplicate(ts, p, m)
           s == Looked(ts, m)
           P == ts.peers[m]
           P1 == IF s \in {"unknown", "valid"} THEN P \cup {p} ELSE P
           near == MarkNear(ts.ledger, {p}, m)
           bad == MarkBad(ts.ledger, {p}, m)
           led == IF p \in P THEN ts.ledger ELSE IF s = "valid" THEN near
                  ELSE IF s = "invalid" THEN bad ELSE ts.ledger
<1>1. us = [status |-> [ts.status EXCEPT ![m] = s], peers |-> [ts.peers EXCEPT ![m] = P1],
            tracking |-> ts.tracking, ledger |-> led]
  BY DEF TraceDuplicate
<1>2. ts.ledger \in Ledgers /\ s \in Status /\ P1 \in SUBSET Peers
  BY DEF TraceStates, Looked, Status
<1>3. near \in Ledgers /\ bad \in Ledgers
  BY <1>2, MarkNearSound, MarkBadSound
<1>4. us \in TraceStates /\ us.status = [ts.status EXCEPT ![m] = s]
      /\ us.peers = [ts.peers EXCEPT ![m] = P1] /\ us.ledger = led
  <2>1. led \in Ledgers
    BY <1>2, <1>3
  <2> HIDE DEF led, s, P1
  <2> QED BY <1>1, <1>2, <2>1 DEF TraceStates
<1>5. ASSUME NEW q \in Peers, NEW n \in Msgs
      PROVE  LET d == ts.ledger[<<q, n>>] IN LET e == led[<<q, n>>] IN
                /\ e.first = d.first
                /\ n # m => e.near = d.near /\ e.bad = d.bad
                /\ s # "invalid" => e.bad = d.bad
                /\ ~ (s = "valid" /\ q = p /\ q \notin P) => e.near = d.near
                /\ e.near \in {d.near, d.near + 1}
  <2>1. LET d == ts.ledger[<<q, n>>] IN LET e == near[<<q, n>>] IN
           /\ e.near \in {d.near, d.near + 1} /\ e.first = d.first /\ e.bad = d.bad
           /\ ~ (q \in {p} /\ n = m) => e.near = d.near
    BY <1>2, MarkNearSound
  <2>2. LET d == ts.ledger[<<q, n>>] IN LET e == bad[<<q, n>>] IN
           e.first = d.first /\ e.near = d.near /\ (n # m => e.bad = d.bad)
    BY <1>2, MarkBadSound
  <2> HIDE DEF near, bad, s, P
  <2> QED BY <2>1, <2>2
<1> HIDE DEF us, led
<1>6. ASSUME NEW n \in Msgs PROVE Row(us, n)
  <2>1. Row(ts, n)
    OBVIOUS
  <2>0. \A q \in Peers : ts.ledger[<<q, n>>] \in Entries
    BY <1>2 DEF Ledgers
  <2>2. CASE n # m
    <3>1. us.status[n] = ts.status[n] /\ us.peers[n] = ts.peers[n]
      BY <1>4, <2>2 DEF TraceStates
    <3>2. \A q \in Peers : Alike(us.ledger[<<q, n>>], ts.ledger[<<q, n>>])
      BY <1>4, <1>5, <2>2 DEF Alike
    <3> QED BY <1>4, <2>1, <3>1, <3>2, RowAlike
  <2>3. CASE n = m
    <3>1. us.status[n] = s /\ us.peers[n] = P1
      BY <1>4, <2>3 DEF TraceStates
    <3>2. ts.status[n] = s \/ (ts.status[n] = "none" /\ s = "unknown")
      BY <2>3 DEF Looked
    <3>3. P = ts.peers[n] /\ P \subseteq P1 /\ (s = "valid" => p \in P1)
      BY <2>3
    <3> HIDE DEF s, P, P1
    <3>4. ASSUME NEW q \in Peers
          PROVE  LET e == us.ledger[<<q, n>>] IN
                    /\ e.first > 0 => us.status[n] = "valid"
                    /\ e.near > 0 => us.status[n] = "valid" /\ q \in us.peers[n]
                    /\ e.near <= 1
                    /\ e.bad > 0 => us.status[n] = "invalid"
      BY <1>4, <1>5, <2>0, <2>1, <2>3, <3>1, <3>2, <3>3 DEF Row, Entries
    <3>5. \A q, r \in Peers :
             us.ledger[<<q, n>>].first > 0 /\ us.ledger[<<r, n>>].first > 0 => q = r
      BY <1>4, <1>5, <2>1 DEF Row
    <3> QED BY <3>4, <3>5 DEF Row
  <2> QED BY <2>2, <2>3
<1> QED BY <1>4, <1>6 DEF us
-----------------------------------------------------------------------------
(* Who carries a message that is under validation: a worker, an            *)
(* asynchronous validation or, once accepted, sendMsg.                     *)

InW(w, m) == worker[w] # Idle /\ worker[w].item.id = m
InT(s, m) == task[s] # Idle /\ task[s].item.id = m
InS(i, m) == sendMsg[i].src # Self /\ sendMsg[i].id = m

Carried(m) ==
    \/ \E w \in Workers : InW(w, m)
    \/ \E s \in Slots : InT(s, m)
    \/ \E i \in 1 .. Len(sendMsg) : InS(i, m)

\* ... in one place only
Single(m) ==
    /\ \A w, x \in Workers : InW(w, m) /\ InW(x, m) => w = x
    /\ \A s, t \in Slots : InT(s, m) /\ InT(t, m) => s = t
    /\ \A i, j \in 1 .. Len(sendMsg) : InS(i, m) /\ InS(j, m) => i = j
    /\ \A w \in Workers, s \in Slots : ~ (InW(w, m) /\ InT(s, m))
    /\ \A w \in Workers, i \in 1 .. Len(sendMsg) : ~ (InW(w, m) /\ InS(i, m))
    /\ \A s \in Slots, i \in 1 .. Len(sendMsg) : ~ (InT(s, m) /\ InS(i, m))

\* A message has no outcome while it is carried, and no record before it is seen.
Noted(m) ==
    /\ tr.status[m] = "valid" => m \in delivered
    /\ m \notin seen \cup delivered => tr.status[m] = "none"
    /\ Carried(m) => tr.status[m] = "unknown"

RInv ==
    /\ tr \in TraceStates
    /\ \A m \in Msgs : Row(tr, m) /\ Noted(m) /\ Single(m)

\* Nothing new is carried.
LEMMA CarriedFewer ==
    ASSUME NEW m, Single(m), Len(sendMsg) \in Nat, Len(sendMsg') \in Nat,
           \A w \in Workers : InW(w, m)' => InW(w, m),
           \A s \in Slots : InT(s, m)' => InT(s, m),
           \/ \A i \in 1 .. Len(sendMsg') : InS(i, m)' => i \in 1 .. Len(sendMsg) /\ InS(i, m)
           \/ \A i \in 1 .. Len(sendMsg') : InS(i, m)' => i + 1 \in 1 .. Len(sendMsg) /\ InS(i + 1, m)
    PROVE  Single(m)' /\ (Carried(m)' => Carried(m))
<1> HIDE DEF InW, InT, InS
<1>1. CASE \A i \in 1 .. Len(sendMsg') : InS(i, m)' => i \in 1 .. Len(sendMsg) /\ InS(i, m)
  BY <1>1 DEF Single, Carried
<1>2. CASE \A i \in 1 .. Len(sendMsg') : InS(i, m)' => i + 1 \in 1 .. Len(sendMsg) /\ InS(i + 1, m)
  BY <1>2 DEF Single, Carried
<1> QED BY <1>1, <1>2

\* A worker hands over to an asynchronous validation.
LEMMA CarriedOn ==
    ASSUME NEW m, Single(m), NEW w0 \in Workers, NEW s0 \in Slots, UNCHANGED sendMsg,
           \A w \in Workers : InW(w, m)' => InW(w, m) /\ w # w0,
           \A s \in Slots : InT(s, m)' => InT(s, m) \/ (s = s0 /\ InW(w0, m))
    PROVE  Single(m)' /\ (Carried(m)' => Carried(m))
<1>1. \A i \in 1 .. Len(sendMsg) : InS(i, m)' = InS(i, m)
  BY DEF InS
<1> HIDE DEF InW, InT, InS
<1> QED BY <1>1 DEF Single, Carried

\* A worker or an asynchronous validation sends, to place n + 1 of sendMsg.
LEMMA CarriedOut ==
    ASSUME NEW m, Single(m), NEW n \in Nat, Len(sendMsg) = n, Len(sendMsg') = n + 1,
           \A i \in 1 .. n : InS(i, m)' => InS(i, m),
           \/ \E w0 \in Workers :
                 /\ \A w \in Workers : InW(w, m)' => InW(w, m) /\ w # w0
                 /\ \A s \in Slots : InT(s, m)' => InT(s, m)
                 /\ InS(n + 1, m)' => InW(w0, m)
           \/ \E s0 \in Slots :
                 /\ \A w \in Workers : InW(w, m)' => InW(w, m)
                 /\ \A s \in Slots : InT(s, m)' => InT(s, m) /\ s # s0
                 /\ InS(n + 1, m)' => InT(s0, m)
    PROVE  Single(m)' /\ (Carried(m)' => Carried(m))
<1>1. \A i \in 1 .. n + 1 : i \in 1 .. n \/ i = n + 1
  OBVIOUS
<1>2. 1 .. Len(sendMsg) = 1 .. n /\ 1 .. Len(sendMsg') = 1 .. n + 1
  OBVIOUS
<1> HIDE DEF InW, InT, InS
<1>3. Single(m)'
  BY <1>1, <1>2 DEF Single
<1>4. Carried(m)' => Carried(m)
  BY <1>1, <1>2 DEF Carried
<1> QED BY <1>3, <1>4

\* A step that gives no message an outcome.
LEMMA RQuiet ==
    ASSUME RInv, tr' \in TraceStates, \A m \in Msgs : Row(tr', m), tr'.status = tr.status,
           seen \subseteq seen', delivered \subseteq delivered',
           \A m \in Msgs : Single(m)' /\ (Carried(m)' => Carried(m))
    PROVE  RInv'
<1> SUFFICES ASSUME NEW m \in Msgs PROVE Noted(m)'
  BY DEF RInv
<1>1. Noted(m) /\ (Carried(m)' => Carried(m))
  BY DEF RInv
<1> HIDE DEF Carried
<1> QED BY <1>1 DEF Noted

\* A step that decides on message m0, which nobody carries any longer, or notes it.
LEMMA RDecides ==
    ASSUME RInv, tr' \in TraceStates, \A m \in Msgs : Row(tr', m), NEW m0 \in Msgs,
           NEW st, tr'.status = [tr.status EXCEPT ![m0] = st],
           seen \subseteq seen', delivered \subseteq delivered',
           m0 \in seen' \cup delivered', st = "valid" => m0 \in delivered',
           \A m \in Msgs : Single(m)' /\ (m # m0 /\ Carried(m)' => Carried(m)),
           Carried(m0)' => st = "unknown"
    PROVE  RInv'
<1> SUFFICES ASSUME NEW m \in Msgs PROVE Noted(m)'
  BY DEF RInv
<1>1. Noted(m) /\ (m # m0 /\ Carried(m)' => Carried(m))
  BY DEF RInv
<1>2. tr'.status[m] = IF m = m0 THEN st ELSE tr.status[m]
  BY DEF RInv, TraceStates
<1> HIDE DEF Carried
<1> QED BY <1>1, <1>2 DEF Noted

\* Nobody moves.
LEMMA CarriedSame ==
    ASSUME UNCHANGED <<worker, task, sendMsg>>, NEW m, Single(m)
    PROVE  Single(m)' /\ (Carried(m)' => Carried(m))
BY DEF Single, Carried, InW, InT, InS

\* handleIncomingRPC: duplicates are noted, and a message without validators and signature
\* is delivered as the first of its kind.
LEMMA IncomingRecords ==
    ASSUME RInv, NEW p \in Peers, NEW m \in Msgs, HandleIncomingRPC(p, m) PROVE RInv'
<1>1. UNCHANGED <<worker, task, sendMsg>>
  BY DEF HandleIncomingRPC
<1>2. \A n \in Msgs : Single(n)' /\ (Carried(n)' => Carried(n))
  BY <1>1, CarriedSame DEF RInv
<1>3. tr \in TraceStates /\ \A n \in Msgs : Row(tr, n)
  BY DEF RInv
<1>4. ASSUME NEW reason, tr' = TraceRejectEarly(tr, p, m, reason), UNCHANGED <<seen, delivered>>
      PROVE  RInv'
  <2>1. tr' \in TraceStates /\ tr'.status = tr.status /\ \A n \in Msgs : Row(tr', n)
    BY <1>3, <1>4, EarlyRows
  <2> QED BY <1>2, <1>4, <2>1, RQuiet
<1>5. ASSUME tr' = TraceDuplicate(tr, p, m), m \in seen, UNCHANGED <<seen, delivered>> PROVE RInv'
  <2>1. tr' \in TraceStates /\ \A n \in Msgs : Row(tr', n)
        /\ tr'.status = [tr.status EXCEPT ![m] = Looked(tr, m)]
    BY <1>3, <1>5, DuplicateRows
  <2>2. Noted(m) /\ (Carried(m)' => Carried(m))
    BY <1>2 DEF RInv
  <2>3. (Looked(tr, m) = "valid" => m \in delivered) /\ (Carried(m)' => Looked(tr, m) = "unknown")
    BY <2>2 DEF Noted, Looked
  <2> QED BY <1>2, <1>5, <2>1, <2>3, RDecides
<1>6. ASSUME UNCHANGED tr, seen \subseteq seen', delivered \subseteq delivered' PROVE RInv'
  BY <1>2, <1>3, <1>6, RQuiet
<1>7. ASSUME tr' = TraceDeliver(tr, p, m), m \notin seen \cup delivered,
             seen' = seen \cup {m}, delivered' = delivered \cup {m}
      PROVE  RInv'
  <2>1. Noted(m) /\ (Carried(m)' => Carried(m))
    BY <1>2 DEF RInv
  <2>2. tr.status[m] = "none" /\ ~ Carried(m)
    BY <1>7, <2>1 DEF Noted
  <2>3. tr' \in TraceStates /\ \A n \in Msgs : Row(tr', n)
        /\ tr'.status = [tr.status EXCEPT ![m] = "valid"]
    BY <1>3, <1>7, <2>2, DeliverRows
  <2> QED BY <1>2, <1>7, <2>1, <2>2, <2>3, RDecides
<1>8. Copy(p, m, {}).id = m /\ Copy(p, m, {}).src = p /\ p # Self
  BY Sizes DEF Copy
<1>9. \/ \E reason : tr' = TraceRejectEarly(tr, p, m, reason) /\ UNCHANGED <<seen, delivered>>
      \/ tr' = TraceDuplicate(tr, p, m) /\ m \in seen /\ UNCHANGED <<seen, delivered>>
      \/ UNCHANGED tr /\ seen \subseteq seen' /\ delivered \subseteq delivered'
      \/ /\ tr' = TraceDeliver(tr, p, m) /\ m \notin seen \cup delivered
         /\ seen' = seen \cup {m} /\ delivered' = delivered \cup {m}
  <2>1. CASE PushMsg(p, m) /\ m \notin seen
    <3>1. CASE UNCHANGED <<seen, delivered>> /\ (UNCHANGED tr \/ tr' = TraceRejectEarly(tr, p, m, "queueFull"))
      BY <3>1
    <3>2. CASE seen' = seen \cup {m} /\ PublishMessage(Copy(p, m, {}))
      BY <1>8, <2>1, <3>2 DEF PublishMessage, Remote
    <3> QED BY <2>1, <3>1, <3>2 DEF PushMsg
  <2>2. CASE tr' = TraceRejectEarly(tr, p, m, Flaw[<<p, m>>]) /\ UNCHANGED <<seen, delivered>>
    BY <2>2
  <2> QED BY <2>1, <2>2 DEF HandleIncomingRPC
<1> QED BY <1>4, <1>5, <1>6, <1>7, <1>9

\* A worker begins: the message was not seen before, so nobody carries it.
LEMMA BeginRecords == ASSUME VInv, RInv, NEW w \in Workers, ValidateBegin(w) PROVE RInv'
<1>0. PICK it : it = Head(queue)
  OBVIOUS
<1>1. /\ UNCHANGED <<delivered, task, sendMsg>> /\ queue # <<>> /\ worker[w] = Idle
      /\ seen' = seen \cup Marked(it)
      /\ \/ tr' = TraceRejectEarly(tr, it.src, it.id, "signature") /\ UNCHANGED worker
         \/ /\ tr' = TraceDuplicate(tr, it.src, it.id) /\ it.id \in seen \cup delivered
            /\ UNCHANGED worker
         \/ /\ Flaw[<<it.src, it.id>>] # "signature" /\ it.id \notin seen \cup delivered
            /\ tr' = TraceValidate(tr, it.id)
            /\ worker' = [worker EXCEPT ![w] = [pc |-> "inline", item |-> it]]
  BY <1>0 DEF ValidateBegin
<1>2. it \in Queued
  BY <1>0, <1>1 DEF VInv, Entry
<1>3. it.src \in Peers /\ it.id \in Msgs /\ Marked(it) \subseteq {it.id}
      /\ (Flaw[<<it.src, it.id>>] # "signature" => it.id \in Marked(it))
  BY <1>2 DEF Queued, Foreign, Marked
<1>4. tr \in TraceStates /\ (\A n \in Msgs : Row(tr, n)) /\ Noted(it.id)
  BY <1>3 DEF RInv
<1>5. CASE UNCHANGED worker
  <2>1. \A n \in Msgs : Single(n)' /\ (Carried(n)' => Carried(n))
    BY <1>1, <1>5, CarriedSame DEF RInv
  <2>2. CASE tr' = TraceRejectEarly(tr, it.src, it.id, "signature")
    <3>1. tr' \in TraceStates /\ tr'.status = tr.status /\ \A n \in Msgs : Row(tr', n)
      BY <1>3, <1>4, <2>2, EarlyRows
    <3> QED BY <1>1, <2>1, <3>1, RQuiet
  <2>3. CASE tr' = TraceDuplicate(tr, it.src, it.id) /\ it.id \in seen \cup delivered
    <3>1. tr' \in TraceStates /\ \A n \in Msgs : Row(tr', n)
          /\ tr'.status = [tr.status EXCEPT ![it.id] = Looked(tr, it.id)]
      BY <1>3, <1>4, <2>3, DuplicateRows
    <3>2. /\ Looked(tr, it.id) = "valid" => it.id \in delivered
          /\ Carried(it.id)' => Looked(tr, it.id) = "unknown"
      BY <1>3, <1>4, <2>1 DEF Noted, Looked
    <3> QED BY <1>1, <1>3, <2>1, <2>3, <3>1, <3>2, RDecides
  <2>4. worker # [worker EXCEPT ![w] = [pc |-> "inline", item |-> it]]
    <3>1. [pc |-> "inline", item |-> it].pc # Idle.pc
      BY DEF Idle
    <3> QED BY <1>1, <3>1 DEF VInv, Working
  <2> QED BY <1>1, <1>5, <2>2, <2>3, <2>4
<1>6. CASE /\ Flaw[<<it.src, it.id>>] # "signature" /\ it.id \notin seen \cup delivered
           /\ tr' = TraceValidate(tr, it.id)
           /\ worker' = [worker EXCEPT ![w] = [pc |-> "inline", item |-> it]]
  <2>1. tr.status[it.id] = "none" /\ ~ Carried(it.id)
    BY <1>4, <1>6 DEF Noted
  <2>2. tr' \in TraceStates /\ \A n \in Msgs : Row(tr', n)
        /\ tr'.status = [tr.status EXCEPT ![it.id] = "unknown"]
    BY <1>3, <1>4, <1>6, <2>1, ValidateRows
  <2>3. \A n \in Msgs, x \in Workers : InW(x, n)' => InW(x, n) \/ (x = w /\ n = it.id)
    BY <1>6 DEF InW, VInv, Working
  <2>4. \A n \in Msgs : /\ \A s \in Slots : InT(s, n)' = InT(s, n)
                        /\ \A i \in 1 .. Len(sendMsg) : InS(i, n)' = InS(i, n)
    BY <1>1 DEF InT, InS
  <2>5. sendMsg' = sendMsg
    BY <1>1
  <2>6. ASSUME NEW n \in Msgs PROVE Single(n)' /\ (n # it.id /\ Carried(n)' => Carried(n))
    <3>1. Single(n)
      BY DEF RInv
    <3> HIDE DEF InW, InT, InS
    <3>2. CASE n # it.id
      BY <2>3, <2>4, <2>5, <3>1, <3>2 DEF Single, Carried
    <3>3. CASE n = it.id
      BY <2>1, <2>3, <2>4, <2>5, <3>3 DEF Single, Carried
    <3> QED BY <3>2, <3>3
  <2> QED BY <1>1, <1>3, <1>6, <2>1, <2>2, <2>6, RDecides
<1> QED BY <1>1, <1>5, <1>6

\* Whoever carried a message and gives it up leaves nobody who carries it.
LEMMA CarriedEnds ==
    ASSUME NEW m, Single(m),
           \/ \E w0 \in Workers :
                 /\ InW(w0, m) /\ UNCHANGED <<task, sendMsg>>
                 /\ \A w \in Workers : InW(w, m)' => InW(w, m) /\ w # w0
           \/ \E s0 \in Slots :
                 /\ InT(s0, m) /\ UNCHANGED <<worker, sendMsg>>
                 /\ \A s \in Slots : InT(s, m)' => InT(s, m) /\ s # s0
    PROVE  ~ Carried(m)'
<1>1. UNCHANGED sendMsg => \A i \in 1 .. Len(sendMsg) : InS(i, m)' = InS(i, m)
  BY DEF InS
<1>2. UNCHANGED worker => \A w \in Workers : InW(w, m)' = InW(w, m)
  BY DEF InW
<1>3. UNCHANGED task => \A s \in Slots : InT(s, m)' = InT(s, m)
  BY DEF InT
<1> HIDE DEF InW, InT, InS
<1> QED BY <1>1, <1>2, <1>3 DEF Single, Carried

\* A message that is rejected while it is carried
LEMMA RRejects ==
    ASSUME RInv, NEW m \in Msgs, NEW p \in Peers, NEW reason \in {"failed", "ignored", "throttled"},
           tr' = TraceReject(tr, p, m, reason), Carried(m), UNCHANGED <<seen, delivered>>,
           \A n \in Msgs : Single(n)' /\ (Carried(n)' => Carried(n)), ~ Carried(m)'
    PROVE  RInv'
<1>1. tr \in TraceStates /\ (\A n \in Msgs : Row(tr, n)) /\ Noted(m)
  BY DEF RInv
<1>2. tr.status[m] = "unknown" /\ m \in seen \cup delivered
  BY <1>1 DEF Noted
<1>3. PICK st \in {"invalid", "ignored", "throttled"} :
         tr' \in TraceStates /\ (\A n \in Msgs : Row(tr', n)) /\ tr'.status = [tr.status EXCEPT ![m] = st]
  BY <1>1, <1>2, RejectRows
<1> QED BY <1>2, <1>3, RDecides

\* validate after the inline validators
LEMMA InlineRecords == ASSUME VInv, RInv, NEW w \in Workers, ValidateInline(w) PROVE RInv'
<1>1. worker[w] \in WorkerStates /\ worker[w].pc = "inline"
      /\ UNCHANGED <<seen, delivered, sendMsg>>
  BY DEF ValidateInline, VInv, Working
<1>2. worker[w].item \in Begun /\ worker[w] # Idle
  BY <1>1, StatesApart
<1>3. PICK it1, res :
         /\ Proceed(w, it1, res) /\ res \in {"accept", "reject", "ignore"}
         /\ it1.id = worker[w].item.id /\ it1.src = worker[w].item.src
  <2> DEFINE it == worker[w].item
  <2>1. PICK r \in [Inline(it) -> {"accept", "reject", "ignore"}] :
           Proceed(w, [it EXCEPT !.said = {<<v, r[v]>> : v \in Inline(it)}],
                   InlineResult(Inline(it), r))
    BY DEF ValidateInline
  <2>2. {<<v, r[v]>> : v \in Inline(it)} \in SUBSET (Vals \X Results)
    BY <1>2 DEF Inline, Results, Begun, Foreign
  <2> DEFINE it1 == [it EXCEPT !.said = {<<v, r[v]>> : v \in Inline(it)}]
  <2>3. it1.id = it.id /\ it1.src = it.src
    BY <1>2, <2>2, Answered
  <2>4. InlineResult(Inline(it), r) \in {"accept", "reject", "ignore"}
    BY DEF InlineResult
  <2> QED BY <2>1, <2>3, <2>4
<1>4. PICK m \in Msgs, p \in Peers : m = it1.id /\ p = it1.src
  BY <1>2, <1>3 DEF Begun, Foreign
<1>5. InW(w, m) /\ Carried(m)
  BY <1>2, <1>3, <1>4 DEF InW, Carried
<1>6. ASSUME worker' = [worker EXCEPT ![w] = Idle]
      PROVE  \A n \in Msgs, x \in Workers : InW(x, n)' => InW(x, n) /\ x # w
  BY <1>6 DEF InW, VInv, Working
<1>7. ASSUME UNCHANGED task
      PROVE  \A n \in Msgs, s \in Slots : InT(s, n)' => InT(s, n)
  BY <1>7 DEF InT
<1>8. \A n \in Msgs, i \in 1 .. Len(sendMsg') : InS(i, n)' => i \in 1 .. Len(sendMsg) /\ InS(i, n)
  BY <1>1 DEF InS
<1>9. \A n \in Msgs : Single(n)
  BY DEF RInv
<1>10. tr \in TraceStates /\ \A n \in Msgs : Row(tr, n)
  BY DEF RInv
<1>11. Len(sendMsg) \in Nat /\ Len(sendMsg') \in Nat
  BY <1>1 DEF VInv, Leaving
<1>12. CASE /\ Start(CHOOSE s \in {s \in Slots : task[s] = Idle} : TRUE, it1, res)
            /\ {s \in Slots : task[s] = Idle} # {}
            /\ worker' = [worker EXCEPT ![w] = Idle] /\ UNCHANGED tr
  <2>1. PICK s \in Slots : task[s] = Idle /\ Start(s, it1, res)
    BY <1>12
  <2>2. task' = [task EXCEPT ![s] = Waits(it1, res, Busy(it1))]
    BY <2>1 DEF Start
  <2>3. Waits(it1, res, Busy(it1)).item.id = m
    <3>1. Waits(it1, res, Busy(it1)).item = [it1 EXCEPT !.said = @ \cup {<<v, "throttled">> : v \in Busy(it1)}]
      BY DEF Waits
    <3> QED BY <1>4, <3>1
  <2>4. \A n \in Msgs, x \in Slots : InT(x, n)' => InT(x, n) \/ (x = s /\ InW(w, n))
    BY <1>5, <2>2, <2>3 DEF InT, InW, VInv, Working
  <2>5. \A n \in Msgs : Single(n)' /\ (Carried(n)' => Carried(n))
    BY <1>1, <1>6, <1>9, <1>12, <2>4, CarriedOn
  <2> QED BY <1>1, <1>10, <1>12, <2>5, RQuiet
<1>13. CASE /\ worker' = [worker EXCEPT ![w] = Idle] /\ UNCHANGED task
            /\ \E reason \in {"failed", "ignored", "throttled"} : tr' = TraceReject(tr, p, m, reason)
  <2>1. \A n \in Msgs : Single(n)' /\ (Carried(n)' => Carried(n))
    BY <1>6, <1>7, <1>8, <1>9, <1>11, <1>13, CarriedFewer
  <2>2. ~ Carried(m)'
    BY <1>1, <1>5, <1>6, <1>9, <1>13, CarriedEnds
  <2> QED BY <1>1, <1>5, <1>13, <2>1, <2>2, RRejects
<1>14. CASE /\ worker' = [worker EXCEPT ![w] = [pc |-> "send", item |-> it1]]
            /\ UNCHANGED <<task, tr>>
  <2>1. \A n \in Msgs, x \in Workers : InW(x, n)' => InW(x, n)
    BY <1>2, <1>3, <1>14 DEF InW, VInv, Working
  <2>2. \A n \in Msgs : Single(n)' /\ (Carried(n)' => Carried(n))
    BY <1>7, <1>8, <1>9, <1>11, <1>14, <2>1, CarriedFewer
  <2> QED BY <1>1, <1>10, <1>14, <2>2, RQuiet
<1>15. \/ /\ Start(CHOOSE s \in {s \in Slots : task[s] = Idle} : TRUE, it1, res)
          /\ {s \in Slots : task[s] = Idle} # {}
          /\ worker' = [worker EXCEPT ![w] = Idle] /\ UNCHANGED tr
       \/ /\ worker' = [worker EXCEPT ![w] = Idle] /\ UNCHANGED task
          /\ \E reason \in {"failed", "ignored", "throttled"} : tr' = TraceReject(tr, p, m, reason)
       \/ /\ worker' = [worker EXCEPT ![w] = [pc |-> "send", item |-> it1]]
          /\ UNCHANGED <<task, tr>>
  BY <1>3, <1>4 DEF Proceed
<1> QED BY <1>12, <1>13, <1>14, <1>15

\* doValidateTopic ends: the message goes on, or is rejected and carried no longer.
LEMMA ConcludeRecords ==
    ASSUME VInv, RInv, NEW s \in Slots, NEW t \in Validations, task[s] # Idle,
           t.item.id = task[s].item.id, Conclude(s, t),
           UNCHANGED <<seen, delivered, worker, sendMsg>>
    PROVE  RInv'
<1>1. PICK m \in Msgs, p \in Peers : m = t.item.id /\ p = t.item.src
  BY DEF Validations, Begun, Foreign
<1>2. InT(s, m) /\ Carried(m)
  BY <1>1 DEF InT, Carried
<1>3. \A n \in Msgs, w \in Workers : InW(w, n)' => InW(w, n)
  BY DEF InW
<1>4. \A n \in Msgs, i \in 1 .. Len(sendMsg') : InS(i, n)' => i \in 1 .. Len(sendMsg) /\ InS(i, n)
  BY DEF InS
<1>5. tr \in TraceStates /\ (\A n \in Msgs : Row(tr, n)) /\ \A n \in Msgs : Single(n)
  BY DEF RInv
<1>6. Len(sendMsg) \in Nat /\ Len(sendMsg') \in Nat
  BY DEF VInv, Leaving
<1>7. \A n \in Msgs, x \in Slots : InT(x, n)' => InT(x, n)
  BY DEF Conclude, InT, VInv, Working
<1>8. \A n \in Msgs : Single(n)' /\ (Carried(n)' => Carried(n))
  BY <1>3, <1>4, <1>5, <1>6, <1>7, CarriedFewer
<1>9. CASE Verdict(t) = "accept"
  <2>1. UNCHANGED tr
    BY <1>9 DEF Conclude
  <2> QED BY <1>5, <1>8, <2>1, RQuiet
<1>10. CASE Verdict(t) # "accept"
  <2>1. task' = [task EXCEPT ![s] = Idle]
        /\ \E reason \in {"failed", "ignored", "throttled"} : tr' = TraceReject(tr, p, m, reason)
    BY <1>1, <1>10 DEF Conclude
  <2>2. \A x \in Slots : InT(x, m)' => InT(x, m) /\ x # s
    BY <2>1 DEF InT, VInv, Working
  <2>3. ~ Carried(m)'
    BY <1>2, <1>5, <2>2, CarriedEnds
  <2> QED BY <1>2, <1>8, <2>1, <2>3, RRejects
<1> QED BY <1>9, <1>10

LEMMA DoneRecords ==
    ASSUME VInv, RInv, NEW v \in AsyncVals, NEW k \in 1 .. ValThrottle,
           NEW r \in {"accept", "reject", "ignore"}, ValidatorDone(v, k, r)
    PROVE  RInv'
<1>0. PICK s, t : s = lane[v][k] /\ t = Heard(task[s], v, r)
  OBVIOUS
<1>1. /\ s \in Slots /\ UNCHANGED <<seen, delivered, worker, sendMsg>>
      /\ Over(t) => Conclude(s, t)
      /\ ~ Over(t) => task' = [task EXCEPT ![s] = t] /\ UNCHANGED tr
  BY <1>0 DEF ValidatorDone
<1>2. task[s] \in Validations /\ v \in task[s].waiting /\ task[s] # Idle
  <2>1. task[s].pc = "wait" /\ v \in task[s].waiting /\ task[s] \in TaskStates
    BY <1>0, <1>1 DEF VInv, Lanes, Working
  <2> QED BY <2>1, StatesApart
<1>3. t \in Validations /\ t.item.id = task[s].item.id
  BY <1>0, <1>2, HeardSound
<1>4. CASE Over(t)
  BY <1>1, <1>2, <1>3, <1>4, ConcludeRecords
<1>5. CASE ~ Over(t)
  <2>1. \A n \in Msgs, x \in Slots : InT(x, n)' => InT(x, n)
    BY <1>1, <1>2, <1>3, <1>5 DEF InT, VInv, Working
  <2>2. \A n \in Msgs, w \in Workers : InW(w, n)' => InW(w, n)
    BY <1>1 DEF InW
  <2>3. \A n \in Msgs, i \in 1 .. Len(sendMsg') : InS(i, n)' => i \in 1 .. Len(sendMsg) /\ InS(i, n)
    BY <1>1 DEF InS
  <2>4. Len(sendMsg) \in Nat /\ Len(sendMsg') \in Nat
    BY <1>1 DEF VInv, Leaving
  <2>5. tr \in TraceStates /\ (\A n \in Msgs : Row(tr, n)) /\ \A n \in Msgs : Single(n)
    BY DEF RInv
  <2>6. \A n \in Msgs : Single(n)' /\ (Carried(n)' => Carried(n))
    BY <2>1, <2>2, <2>3, <2>4, <2>5, CarriedFewer
  <2> QED BY <1>1, <1>5, <2>5, <2>6, RQuiet
<1> QED BY <1>4, <1>5

LEMMA ThrottledRecords == ASSUME VInv, RInv, NEW s \in Slots, AllThrottled(s) PROVE RInv'
<1>1. /\ task[s].pc = "wait" /\ UNCHANGED <<seen, delivered, worker, sendMsg>>
      /\ task[s] \in TaskStates
  BY DEF AllThrottled, VInv, Working
<1>2. PICK t : t = task[s]
  OBVIOUS
<1>3. t \in Validations /\ task[s] # Idle /\ Conclude(s, t)
  BY <1>1, <1>2, StatesApart DEF AllThrottled
<1> QED BY <1>1, <1>2, <1>3, ConcludeRecords

\* sendMsgBlocking: a worker or an asynchronous validation passes on what it carries.
LEMMA SendRecords ==
    ASSUME VInv, RInv, UNCHANGED <<seen, delivered, tr>>,
           \/ \E w \in Workers : WorkerSend(w)
           \/ \E s \in Slots : TaskSend(s)
           \/ \E m \in Published, viaBatch \in BOOLEAN : AuthorSend(m, viaBatch)
    PROVE  RInv'
<1>1. sendMsg \in Seq(Good \cup Own) /\ Len(sendMsg) \in Nat
  BY DEF VInv, Leaving
<1>2. PICK n \in Nat : n = Len(sendMsg)
  BY <1>1
<1>3. ASSUME NEW it, it \in Good \cup Own, sendMsg' = Append(sendMsg, it)
      PROVE  /\ Len(sendMsg') = n + 1 /\ sendMsg'[n + 1] = it
             /\ \A i \in 1 .. n : sendMsg'[i] = sendMsg[i]
  BY <1>1, <1>2, <1>3
<1>4. tr \in TraceStates /\ (\A m \in Msgs : Row(tr, m)) /\ \A m \in Msgs : Single(m)
  BY DEF RInv
<1>5. SUFFICES \A m \in Msgs : Single(m)' /\ (Carried(m)' => Carried(m))
  BY <1>4, RQuiet
<1>6. ASSUME NEW w \in Workers, WorkerSend(w)
      PROVE  \A m \in Msgs : Single(m)' /\ (Carried(m)' => Carried(m))
  <2>1. PICK it : it = worker[w].item
    OBVIOUS
  <2>2. /\ it \in Good /\ worker[w] # Idle /\ sendMsg' = Append(sendMsg, it)
        /\ worker' = [worker EXCEPT ![w] = Idle] /\ UNCHANGED task
    BY <1>6, <2>1, StatesApart DEF WorkerSend, VInv, Working
  <2>3. /\ Len(sendMsg') = n + 1 /\ sendMsg'[n + 1] = it
        /\ \A i \in 1 .. n : sendMsg'[i] = sendMsg[i]
    BY <1>3, <2>2
  <2> SUFFICES ASSUME NEW m \in Msgs PROVE Single(m)' /\ (Carried(m)' => Carried(m))
    OBVIOUS
  <2>4. /\ \A i \in 1 .. n : InS(i, m)' => InS(i, m)
        /\ InS(n + 1, m)' => InW(w, m)
    BY <2>1, <2>2, <2>3 DEF InS, InW
  <2>5. \A x \in Workers : InW(x, m)' => InW(x, m) /\ x # w
    BY <2>2 DEF InW, VInv, Working
  <2>6. \A s \in Slots : InT(s, m)' => InT(s, m)
    BY <2>2 DEF InT
  <2> QED BY <1>2, <1>4, <2>3, <2>4, <2>5, <2>6, CarriedOut
<1>7. ASSUME NEW s \in Slots, TaskSend(s)
      PROVE  \A m \in Msgs : Single(m)' /\ (Carried(m)' => Carried(m))
  <2>1. PICK it : it = task[s].item
    OBVIOUS
  <2>2. /\ it \in Good /\ task[s] # Idle /\ sendMsg' = Append(sendMsg, it)
        /\ task' = [task EXCEPT ![s] = Idle] /\ UNCHANGED worker
    BY <1>7, <2>1, StatesApart DEF TaskSend, VInv, Working
  <2>3. /\ Len(sendMsg') = n + 1 /\ sendMsg'[n + 1] = it
        /\ \A i \in 1 .. n : sendMsg'[i] = sendMsg[i]
    BY <1>3, <2>2
  <2> SUFFICES ASSUME NEW m \in Msgs PROVE Single(m)' /\ (Carried(m)' => Carried(m))
    OBVIOUS
  <2>4. /\ \A i \in 1 .. n : InS(i, m)' => InS(i, m)
        /\ InS(n + 1, m)' => InT(s, m)
    BY <2>1, <2>2, <2>3 DEF InS, InT
  <2>5. \A x \in Slots : InT(x, m)' => InT(x, m) /\ x # s
    BY <2>2 DEF InT, VInv, Working
  <2>6. \A w \in Workers : InW(w, m)' => InW(w, m)
    BY <2>2 DEF InW
  <2> QED BY <1>2, <1>4, <2>3, <2>4, <2>5, <2>6, CarriedOut
<1>8. ASSUME NEW a \in Published, NEW viaBatch \in BOOLEAN, AuthorSend(a, viaBatch)
      PROVE  \A m \in Msgs : Single(m)' /\ (Carried(m)' => Carried(m))
  <2>1. UNCHANGED <<worker, task>>
        /\ (UNCHANGED sendMsg \/ sendMsg' = Append(sendMsg, Copy(Self, a, {})))
    BY <1>8 DEF AuthorSend
  <2>2. CASE UNCHANGED sendMsg
    BY <1>4, <2>1, <2>2, CarriedSame
  <2>3. CASE sendMsg' = Append(sendMsg, Copy(Self, a, {}))
    <3>1. Copy(Self, a, {}) \in Own /\ Copy(Self, a, {}).src = Self
      BY CopyOwn, Sizes DEF Own
    <3>2. /\ Len(sendMsg') = n + 1 /\ sendMsg'[n + 1].src = Self
          /\ \A i \in 1 .. n : sendMsg'[i] = sendMsg[i]
      BY <1>3, <2>3, <3>1
    <3>3. \A i \in 1 .. n + 1 : i \in 1 .. n \/ i = n + 1
      OBVIOUS
    <3> SUFFICES ASSUME NEW m \in Msgs PROVE Single(m)' /\ (Carried(m)' => Carried(m))
      OBVIOUS
    <3>4. \A i \in 1 .. Len(sendMsg') : InS(i, m)' => i \in 1 .. Len(sendMsg) /\ InS(i, m)
      BY <1>2, <3>2, <3>3 DEF InS
    <3>5. (\A w \in Workers : InW(w, m)' => InW(w, m)) /\ \A s \in Slots : InT(s, m)' => InT(s, m)
      BY <2>1 DEF InW, InT
    <3> QED BY <1>1, <1>2, <1>4, <3>2, <3>4, <3>5, CarriedFewer
  <2> QED BY <2>1, <2>2, <2>3
<1> QED BY <1>6, <1>7, <1>8

\* processLoop takes a message from sendMsg: if it is the first delivery of a message of
\* a peer, it is that message's outcome.
LEMMA ProcessRecords == ASSUME VInv, RInv, ProcessSend PROVE RInv'
<1>1. PICK it : it = Head(sendMsg)
  OBVIOUS
<1>2. /\ sendMsg # <<>> /\ sendMsg' = Tail(sendMsg) /\ PublishMessage(it)
      /\ UNCHANGED <<seen, worker, task>>
  BY <1>1 DEF ProcessSend
<1>3. sendMsg \in Seq(Good \cup Own)
  BY DEF VInv, Leaving
<1>4. /\ Len(sendMsg) \in Nat /\ Len(sendMsg') \in Nat /\ it = sendMsg[1] /\ it \in Good \cup Own
      /\ 1 \in 1 .. Len(sendMsg)
      /\ \A i \in 1 .. Len(sendMsg') : i + 1 \in 1 .. Len(sendMsg) /\ i + 1 # 1 /\ sendMsg'[i] = sendMsg[i + 1]
  BY <1>1, <1>2, <1>3
<1>5. tr \in TraceStates /\ (\A m \in Msgs : Row(tr, m)) /\ \A m \in Msgs : Single(m)
  BY DEF RInv
<1>6. ASSUME NEW m \in Msgs
      PROVE  /\ \A i \in 1 .. Len(sendMsg') : InS(i, m)' => i + 1 \in 1 .. Len(sendMsg) /\ InS(i + 1, m)
             /\ \A w \in Workers : InW(w, m)' => InW(w, m)
             /\ \A s \in Slots : InT(s, m)' => InT(s, m)
  <2>1. ASSUME NEW i \in 1 .. Len(sendMsg'), InS(i, m)' PROVE i + 1 \in 1 .. Len(sendMsg) /\ InS(i + 1, m)
    BY <1>4, <2>1 DEF InS
  <2> QED BY <1>2, <2>1 DEF InW, InT
<1>7. \A m \in Msgs : Single(m)' /\ (Carried(m)' => Carried(m))
  BY <1>4, <1>5, <1>6, CarriedFewer
<1>8. CASE UNCHANGED tr /\ delivered \subseteq delivered'
  BY <1>2, <1>5, <1>7, <1>8, RQuiet
<1>9. CASE it.src # Self /\ delivered' = delivered \cup {it.id} /\ tr' = TraceDeliver(tr, it.src, it.id)
  <2>1. it \in Good
    BY <1>4, <1>9 DEF Own
  <2>2. PICK m \in Msgs, p \in Peers : m = it.id /\ p = it.src
    BY <2>1 DEF Good, Begun, Foreign
  <2>3. InS(1, m) /\ Carried(m)
    BY <1>4, <1>9, <2>2 DEF InS, Carried
  <2>4. tr.status[m] = "unknown"
    BY <2>3 DEF RInv, Noted
  <2>5. tr' \in TraceStates /\ (\A n \in Msgs : Row(tr', n)) /\ tr'.status = [tr.status EXCEPT ![m] = "valid"]
    BY <1>5, <1>9, <2>2, <2>4, DeliverRows
  <2>6. ~ Carried(m)'
    <3>1. Single(m)
      BY <1>5
    <3>2. \A i \in 1 .. Len(sendMsg') : i + 1 # 1
      BY <1>4
    <3> HIDE DEF InW, InT, InS
    <3>3. \A i \in 1 .. Len(sendMsg) : InS(i, m) => i = 1
      BY <1>4, <2>3, <3>1 DEF Single
    <3>4. \A i \in 1 .. Len(sendMsg') : ~ InS(i, m)'
      BY <1>6, <3>2, <3>3
    <3>5. (\A w \in Workers : ~ InW(w, m)) /\ \A s \in Slots : ~ InT(s, m)
      BY <1>4, <2>3, <3>1 DEF Single
    <3> QED BY <1>6, <3>4, <3>5 DEF Carried
  <2> QED BY <1>2, <1>7, <1>9, <2>2, <2>5, <2>6, RDecides
<1> QED BY <1>2, <1>8, <1>9 DEF PublishMessage, Remote

LEMMA RInit == Init => RInv
<1> SUFFICES ASSUME Init PROVE RInv
  OBVIOUS
<1>1. tr \in TraceStates
  BY DEF Init, NoTraces, TraceStates, Status, Ledgers, Entries
<1>2. ASSUME NEW m \in Msgs PROVE Row(tr, m) /\ tr.status[m] = "none"
  BY DEF Init, NoTraces, Row
<1>3. ASSUME NEW m \in Msgs PROVE ~ Carried(m)
  <2>1. Len(sendMsg) = 0
    BY DEF Init
  <2> QED BY <2>1 DEF Init, Carried, InW, InT, InS
<1>4. ASSUME NEW m \in Msgs PROVE Single(m)
  <2> HIDE DEF InW, InT, InS
  <2> QED BY <1>3 DEF Single, Carried
<1> QED BY <1>1, <1>2, <1>3, <1>4 DEF RInv, Noted

LEMMA RStep == VInv /\ RInv /\ [Next]_vars => RInv'
<1> SUFFICES ASSUME VInv, RInv, [Next]_vars PROVE RInv'
  OBVIOUS
<1>1. ASSUME UNCHANGED <<worker, task, sendMsg, tr>>, seen \subseteq seen', delivered \subseteq delivered'
      PROVE  RInv'
  <2>1. \A m \in Msgs : Single(m)' /\ (Carried(m)' => Carried(m))
    BY <1>1, CarriedSame DEF RInv
  <2> QED BY <1>1, <2>1, RQuiet DEF RInv
<1>2. ASSUME ProcessBatch PROVE RInv'
  <2>1. PICK m \in batch : PublishMessage(Copy(Self, m, {}))
    BY <1>2 DEF ProcessBatch
  <2>2. Copy(Self, m, {}).src = Self
    BY DEF Copy
  <2>3. UNCHANGED tr /\ delivered \subseteq delivered'
    BY <2>1, <2>2 DEF PublishMessage, Remote
  <2> QED BY <1>1, <1>2, <2>3 DEF ProcessBatch
<1>3. CASE \/ \E v \in TopicVals : AddValidator(v) \/ RemoveValidator(v)
           \/ \E m \in Published : ValidateLocal(m)
           \/ \E v \in AsyncVals, k \in 1 .. ValThrottle : OrphanDone(v, k)
           \/ UNCHANGED vars
  BY <1>1, <1>3 DEF AddValidator, RemoveValidator, ValidateLocal, OrphanDone, vars, flow
<1>4. CASE \/ \E w \in Workers : WorkerSend(w)
           \/ \E s \in Slots : TaskSend(s)
           \/ \E m \in Published, viaBatch \in BOOLEAN : AuthorSend(m, viaBatch)
  <2>1. UNCHANGED <<seen, delivered, tr>>
    BY <1>4 DEF WorkerSend, TaskSend, AuthorSend
  <2> QED BY <1>4, <2>1, SendRecords
<1>5. CASE Pipeline
  BY <1>2, <1>3, <1>4, <1>5, BeginRecords, InlineRecords, DoneRecords, ThrottledRecords,
     ProcessRecords DEF Pipeline
<1> QED BY <1>3, <1>5, IncomingRecords DEF Next

\* The delivery records of score.go and the counters they feed agree with what became of
\* a message, whatever the order in which duplicates, verdicts and deliveries come: a
\* message has one outcome, because only one copy of it is under validation at a time.
THEOREM RecordAgreesHolds == Spec => []RecordAgrees
<1>1. Init => VInv /\ RInv
  BY VInit, RInit
<1>2. VInv /\ RInv /\ [Next]_vars => VInv' /\ RInv'
  BY VStep, RStep
<1>3. RInv => RecordAgrees
  <2> SUFFICES ASSUME RInv, NEW m \in Msgs
               PROVE  /\ tr.status[m] = "valid" => m \in delivered
                      /\ \A p \in Peers :
                           /\ tr.ledger[<<p, m>>].first + tr.ledger[<<p, m>>].near > 0
                                 => tr.status[m] = "valid"
                           /\ tr.ledger[<<p, m>>].bad > 0 => tr.status[m] = "invalid"
                           /\ tr.ledger[<<p, m>>].near <= IF p \in tr.peers[m] THEN 1 ELSE 0
                      /\ Cardinality({p \in Peers : tr.ledger[<<p, m>>].first > 0}) <= 1
    BY DEF RecordAgrees
  <2>1. Row(tr, m) /\ Noted(m) /\ tr.ledger \in Ledgers
    BY DEF RInv, TraceStates
  <2>2. ASSUME NEW p \in Peers
        PROVE  /\ tr.ledger[<<p, m>>].first + tr.ledger[<<p, m>>].near > 0
                     => tr.status[m] = "valid"
               /\ tr.ledger[<<p, m>>].bad > 0 => tr.status[m] = "invalid"
               /\ tr.ledger[<<p, m>>].near <= IF p \in tr.peers[m] THEN 1 ELSE 0
    <3>1. tr.ledger[<<p, m>>] \in Entries
      BY <2>1 DEF Ledgers
    <3>2. tr.ledger[<<p, m>>].first \in Nat /\ tr.ledger[<<p, m>>].near \in Nat
      BY <3>1 DEF Entries
    <3> QED BY <2>1, <3>2 DEF Row
  <2> DEFINE F == {p \in Peers : tr.ledger[<<p, m>>].first > 0}
  <2>3. Cardinality(F) <= 1
    <3>1. \A p, q \in F : p = q
      BY <2>1 DEF Row
    <3> HIDE DEF F
    <3>2. F = {} \/ \E p : F = {p}
      BY <3>1
    <3> QED BY <3>2, FS_EmptySet, FS_Singleton
  <2> QED BY <2>1, <2>2, <2>3 DEF Noted
<1> QED BY <1>1, <1>2, <1>3, PTL DEF Spec
=============================================================================
