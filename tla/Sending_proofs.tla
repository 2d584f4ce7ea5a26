--------------------------- MODULE Sending_proofs ---------------------------
(***************************************************************************)
(* Proofs about RpcQueue, for any number of goroutines and any maxSize,    *)
(* about MessageBatch, for any messages, callers and numbers of RPCs,      *)
(* about PartialMessages, for any peers, groups and limits, and about      *)
(* RpcSplit, for any RPC and any limits of its size.                       *)
(***************************************************************************)
EXTENDS RpcQueue, MessageBatch, PartialMessages, RpcSplit, Inductions

States == {"idle", "lock", "wait", "woken", "tested", "done", "panic"}

\* What TypeOK says of the goroutines and their wait lists.
Goroutines ==
    /\ pc \in [Pushers \cup Poppers -> States]
    /\ op \in [Pushers -> Ops]
    /\ count \in [Pushers -> 0 .. Pushes]
    /\ dataWait \in Seq(Poppers) /\ spaceWait \in Seq(Pushers)
    /\ cancelled \subseteq Poppers
    /\ after \in [Poppers -> {"off", "registered", "running"}]

\* ... and of the queue.
Contents ==
    /\ normal \in Seq(Items) /\ priority \in Seq(Items) /\ Size <= MaxSize
    /\ closed \in BOOLEAN

\* A pusher that is in a call, or waits for space, has a push to do.
Counted ==
    /\ \A u \in Pushers : pc[u] # "idle" => count[u] # 0
    /\ \A i \in 1 .. Len(spaceWait) : count[spaceWait[i]] # 0

LEMMA TypeSplit ==
    /\ TypeOK <=> Goroutines /\ Contents
    /\ TypeOK' <=> Goroutines' /\ Contents'
BY DEF TypeOK, Goroutines, Contents, States

LEMMA NoOpSound == NoOp \in Ops
BY DEF NoOp, Ops

LEMMA Params == MaxSize \in Nat \ {0} /\ Pushes \in Nat /\ Pushers \cap Poppers = {}
BY QueueAssumption

-----------------------------------------------------------------------------
\* Cond.Signal and Cond.Broadcast only change goroutines to woken.
LEMMA SignalSound ==
    ASSUME NEW W, W = Pushers \/ W = Poppers, NEW list \in Seq(W),
           NEW f \in [Pushers \cup Poppers -> States]
    PROVE  /\ SignalPc(list, f) \in [Pushers \cup Poppers -> States]
           /\ SignalList(list) \in Seq(W)
           /\ \A x \in Pushers \cup Poppers :
                 SignalPc(list, f)[x] = f[x] \/ (list # <<>> /\ x = list[1])
<1>1. CASE list = <<>>
  BY <1>1 DEF SignalPc, SignalList
<1>2. CASE list # <<>>
  <2>1. Head(list) \in W /\ Tail(list) \in Seq(W) /\ Head(list) = list[1]
    BY <1>2
  <2> QED BY <1>2, <2>1 DEF SignalPc, SignalList, States
<1> QED BY <1>1, <1>2

LEMMA BroadcastSound ==
    ASSUME NEW lists, NEW f \in [Pushers \cup Poppers -> States]
    PROVE  BroadcastPc(lists, f) \in [Pushers \cup Poppers -> States]
BY DEF BroadcastPc, States

LEMMA InitInv == Init => TypeOK /\ Counted
<1> SUFFICES ASSUME Init PROVE Goroutines /\ Contents /\ Counted
  BY TypeSplit
<1>1. Goroutines
  BY Params, NoOpSound DEF Init, Goroutines, States
<1>2. Contents
  <2>1. normal \in Seq(Items) /\ priority \in Seq(Items) /\ Size = 0
    BY DEF Init, Size
  <2>2. closed \in BOOLEAN
    BY Zenon DEF Init
  <2> QED BY <2>1, <2>2, Params DEF Contents
<1>3. Counted
  BY DEF Init, Counted
<1> QED BY <1>1, <1>2, <1>3

\* A push: the type invariant, the bound and the pending pushes are preserved.
LEMMA PushInv ==
    ASSUME TypeOK, Counted, NEW u \in Pushers, Push(u)
    PROVE  Goroutines' /\ Contents' /\ Counted'
<1>0. Goroutines /\ Contents /\ Counted
  BY TypeSplit
<1>1. pc[u] \in {"lock", "woken"} /\ count[u] # 0 /\ count[u] \in 1 .. Pushes
  BY <1>0, Params DEF Push, Counted, Goroutines
<1>2. CASE PushPanic(u)
  <2>1. Goroutines'
    BY <1>0, <1>2, NoOpSound DEF PushPanic, Goroutines, States, qVars
  <2>2. Contents'
    BY <1>0, <1>2 DEF PushPanic, Contents, Size, qVars
  <2>3. Counted'
    BY <1>0, <1>1, <1>2 DEF PushPanic, Counted, Goroutines
  <2> QED BY <2>1, <2>2, <2>3
<1>3. CASE PushWait(u)
  <2>1. Goroutines'
    BY <1>0, <1>3 DEF PushWait, Goroutines, States, qVars
  <2>2. Contents'
    BY <1>0, <1>3 DEF PushWait, Contents, Size, qVars
  <2>3. Counted'
    BY <1>0, <1>1, <1>3 DEF PushWait, Counted, Goroutines
  <2> QED BY <2>1, <2>2, <2>3
<1>4. CASE PushFull(u)
  <2>1. Goroutines'
    BY <1>0, <1>4, NoOpSound DEF PushFull, Goroutines, States, qVars
  <2>2. Contents'
    BY <1>0, <1>4 DEF PushFull, Contents, Size, qVars
  <2>3. Counted'
    BY <1>0, <1>1, <1>4 DEF PushFull, Counted, Goroutines
  <2> QED BY <2>1, <2>2, <2>3
<1>5. CASE PushDo(u)
  <2> DEFINE x == <<u, count[u]>>
             f == [pc EXCEPT ![u] = "idle"]
  <2>1. x \in Items
    BY <1>1 DEF Items
  <2>2. f \in [Pushers \cup Poppers -> States] /\ dataWait \in Seq(Poppers)
    BY <1>0 DEF Goroutines, States
  <2>3. UNCHANGED <<closed, count, spaceWait, cancelled, after>>
        /\ op' = [op EXCEPT ![u] = NoOp]
        /\ pc' = SignalPc(dataWait, f) /\ dataWait' = SignalList(dataWait)
    BY <1>5 DEF PushDo
  <2> HIDE DEF f
  <2>4. pc' \in [Pushers \cup Poppers -> States] /\ dataWait' \in Seq(Poppers)
        /\ \A y \in Pushers \cup Poppers : pc'[y] = f[y] \/ (dataWait # <<>> /\ y = dataWait[1])
    BY <2>2, <2>3, SignalSound
  <2>5. Goroutines'
    BY <1>0, <2>3, <2>4, NoOpSound DEF Goroutines
  <2>6. Contents'
    <3>1. Size # MaxSize /\ normal \in Seq(Items) /\ priority \in Seq(Items) /\ Size <= MaxSize
          /\ closed \in BOOLEAN
      BY <1>0, <1>5 DEF PushDo, NoSpace, Contents
    <3>2. CASE op[u].urgent
      <4>1. priority' = Append(priority, x) /\ normal' = normal
        BY <1>5, <3>2 DEF PushDo
      <4> HIDE DEF x
      <4> QED BY <2>1, <2>3, <3>1, <4>1, Params DEF Contents, Size
    <3>3. CASE ~ op[u].urgent
      <4>1. normal' = Append(normal, x) /\ priority' = priority
        BY <1>5, <3>3 DEF PushDo
      <4> HIDE DEF x
      <4> QED BY <2>1, <2>3, <3>1, <4>1, Params DEF Contents, Size
    <3> QED BY <3>2, <3>3
  <2>7. \A v \in Pushers : pc'[v] = f[v]
    <3>1. dataWait # <<>> => dataWait[1] \in Poppers
      BY <2>2
    <3> QED BY <2>4, <3>1, Params
  <2>8. Counted'
    <3>1. \A v \in Pushers : f[v] # "idle" => pc[v] # "idle"
      BY <1>0 DEF f, Goroutines
    <3> QED BY <1>0, <2>3, <2>7, <3>1 DEF Counted
  <2> QED BY <2>5, <2>6, <2>8
<1> QED BY <1>2, <1>3, <1>4, <1>5 DEF Push

\* A pop.
LEMMA PopInv ==
    ASSUME TypeOK, Counted, NEW o \in Poppers, Pop(o)
    PROVE  Goroutines' /\ Contents' /\ Counted'
<1>0. Goroutines /\ Contents /\ Counted /\ o \notin Pushers
  BY TypeSplit, Params
<1>1. Registered(o) \in {"off", "registered", "running"}
      /\ Unregistered(o) \in {"off", "registered", "running"}
  BY <1>0 DEF Registered, Unregistered, Goroutines
<1>2. ASSUME UNCHANGED <<qVars, op, count, dataWait, spaceWait, cancelled>>,
             NEW st \in States, pc' = [pc EXCEPT ![o] = st],
             NEW a \in {"off", "registered", "running"}, after' = [after EXCEPT ![o] = a]
      PROVE  Goroutines' /\ Contents' /\ Counted'
  <2>1. Goroutines'
    BY <1>0, <1>2 DEF Goroutines
  <2>2. Contents'
    BY <1>0, <1>2 DEF Contents, Size, qVars
  <2>3. Counted'
    BY <1>0, <1>2 DEF Counted, Goroutines
  <2> QED BY <2>1, <2>2, <2>3
<1>3. CASE PopClosed(o)
  <2> DEFINE a == IF pc[o] = "lock" THEN after[o] ELSE Unregistered(o)
  <2>1. a \in {"off", "registered", "running"} /\ "done" \in States
    BY <1>0, <1>1 DEF Goroutines, States
  <2>2. after' = [after EXCEPT ![o] = a] /\ pc' = [pc EXCEPT ![o] = "done"]
        /\ UNCHANGED <<qVars, op, count, dataWait, spaceWait, cancelled>>
    BY <1>3 DEF PopClosed
  <2> HIDE DEF a
  <2> QED BY <1>2, <2>1, <2>2
<1>4. CASE PopCancelled(o)
  BY <1>1, <1>2, <1>4 DEF PopCancelled, States
<1>5. CASE PopTest(o)
  BY <1>1, <1>2, <1>5 DEF PopTest, States
<1>6. CASE PopDo(o)
  <2> DEFINE f == [pc EXCEPT ![o] = "idle"]
  <2>1. f \in [Pushers \cup Poppers -> States] /\ spaceWait \in Seq(Pushers)
    BY <1>0 DEF Goroutines, States
  <2>2. UNCHANGED <<closed, op, count, dataWait, cancelled>>
        /\ pc' = SignalPc(spaceWait, f) /\ spaceWait' = SignalList(spaceWait)
        /\ after' = [after EXCEPT ![o] = Unregistered(o)]
    BY <1>6 DEF PopDo
  <2>3. \A v \in Pushers : f[v] = pc[v]
    BY <1>0 DEF Goroutines
  <2> HIDE DEF f
  <2>4. pc' \in [Pushers \cup Poppers -> States] /\ spaceWait' \in Seq(Pushers)
        /\ \A y \in Pushers \cup Poppers : pc'[y] = f[y] \/ (spaceWait # <<>> /\ y = spaceWait[1])
    BY <2>1, <2>2, SignalSound
  <2>5. Goroutines'
    BY <1>0, <1>1, <2>2, <2>4 DEF Goroutines
  <2>6. Contents'
    <3>1. Size > 0 /\ normal \in Seq(Items) /\ priority \in Seq(Items) /\ Size <= MaxSize
          /\ closed \in BOOLEAN
      BY <1>0, <1>6 DEF PopDo, Contents
    <3>2. CASE priority # <<>>
      <4>1. priority' = Tail(priority) /\ normal' = normal
        BY <1>6, <3>2 DEF PopDo, PopItem
      <4>2. priority' \in Seq(Items) /\ Len(priority') = Len(priority) - 1
        BY <3>1, <3>2, <4>1
      <4> QED BY <2>2, <3>1, <4>1, <4>2, Params DEF Contents, Size
    <3>3. CASE priority = <<>>
      <4>1. normal' = Tail(normal) /\ priority' = priority
        BY <1>6, <3>3 DEF PopDo, PopItem
      <4>2. normal # <<>>
        BY <3>1, <3>3 DEF Size
      <4>3. normal' \in Seq(Items) /\ Len(normal') = Len(normal) - 1
        BY <3>1, <4>1, <4>2
      <4> QED BY <2>2, <3>1, <4>1, <4>3, Params DEF Contents, Size
    <3> QED BY <3>2, <3>3
  <2>7. Counted'
    <3>1. \A v \in Pushers : pc'[v] # "idle" => count[v] # 0
      <4>1. spaceWait # <<>> => count[spaceWait[1]] # 0
        BY <1>0, <2>1 DEF Counted
      <4> QED BY <1>0, <2>3, <2>4, <4>1 DEF Counted
    <3>2. \A i \in 1 .. Len(spaceWait') : count[spaceWait'[i]] # 0
      <4>1. CASE spaceWait = <<>>
        BY <1>0, <2>2, <4>1 DEF SignalList, Counted
      <4>2. CASE spaceWait # <<>>
        <5>1. spaceWait' = Tail(spaceWait)
          BY <2>2, <4>2 DEF SignalList
        <5>2. \A i \in 1 .. Len(spaceWait') : i + 1 \in 1 .. Len(spaceWait)
                                              /\ spaceWait'[i] = spaceWait[i + 1]
          BY <2>1, <4>2, <5>1
        <5> QED BY <1>0, <5>2 DEF Counted
      <4> QED BY <4>1, <4>2
    <3> QED BY <2>2, <3>1, <3>2 DEF Counted
  <2> QED BY <2>5, <2>6, <2>7
<1> QED BY <1>3, <1>4, <1>5, <1>6 DEF Pop

LEMMA StepInv == TypeOK /\ Counted /\ [Next]_vars => TypeOK' /\ Counted'
<1> SUFFICES ASSUME TypeOK, Counted, [Next]_vars PROVE Goroutines' /\ Contents' /\ Counted'
  BY TypeSplit
<1>0. Goroutines /\ Contents /\ Counted
  BY TypeSplit
<1>1. ASSUME NEW u \in Pushers, NEW o \in Ops, PushCall(u, o)
      PROVE  Goroutines' /\ Contents' /\ Counted'
  <2>1. Goroutines'
    BY <1>0, <1>1, Params DEF PushCall, Goroutines, States
  <2>2. Contents'
    BY <1>0, <1>1 DEF PushCall, Contents, Size, qVars
  <2>3. Counted'
    BY <1>0, <1>1, Params DEF PushCall, Counted, Goroutines
  <2> QED BY <2>1, <2>2, <2>3
<1>2. ASSUME NEW o \in Poppers, PopCall(o) \/ PopWait(o) \/ Cancel(o)
      PROVE  Goroutines' /\ Contents' /\ Counted'
  <2>1. Goroutines'
    <3>1. CASE PopCall(o)
      BY <1>0, <3>1 DEF PopCall, Goroutines, States
    <3>2. CASE PopWait(o)
      <4>1. dataWait' \in Seq(Poppers)
        BY <1>0, <3>2 DEF PopWait, Goroutines
      <4> QED BY <1>0, <3>2, <4>1 DEF PopWait, Goroutines, States
    <3>3. CASE Cancel(o)
      <4> DEFINE a == IF after[o] = "registered" THEN "running" ELSE after[o]
      <4>1. after' = [after EXCEPT ![o] = a] /\ a \in {"off", "registered", "running"}
        BY <1>0, <3>3 DEF Cancel, Goroutines
      <4> HIDE DEF a
      <4>2. after' \in [Poppers -> {"off", "registered", "running"}]
        BY <1>0, <4>1 DEF Goroutines
      <4> QED BY <1>0, <3>3, <4>2 DEF Cancel, Goroutines
    <3> QED BY <1>2, <3>1, <3>2, <3>3
  <2>2. Contents'
    BY <1>0, <1>2 DEF PopCall, PopWait, Cancel, Contents, Size, qVars
  <2>3. Counted'
    BY <1>0, <1>2, Params DEF PopCall, PopWait, Cancel, Counted, Goroutines
  <2> QED BY <2>1, <2>2, <2>3
<1>3. ASSUME NEW o \in Poppers, AfterFunc(o) PROVE Goroutines' /\ Contents' /\ Counted'
  <2>1. Goroutines'
    <3>1. pc' \in [Pushers \cup Poppers -> States]
      BY <1>0, <1>3, BroadcastSound DEF AfterFunc, Goroutines
    <3>2. dataWait' = <<>> /\ <<>> \in Seq(Poppers)
      BY <1>3 DEF AfterFunc
    <3>3. after' \in [Poppers -> {"off", "registered", "running"}]
      BY <1>0, <1>3 DEF AfterFunc, Goroutines
    <3> QED BY <1>0, <1>3, <3>1, <3>2, <3>3 DEF AfterFunc, Goroutines
  <2>2. Contents'
    BY <1>0, <1>3 DEF AfterFunc, Contents, Size, qVars
  <2>3. Counted'
    <3>1. \A i \in DOMAIN dataWait : dataWait[i] \notin Pushers
      BY <1>0, Params DEF Goroutines
    <3>2. \A u \in Pushers : pc'[u] = pc[u]
      BY <1>0, <1>3, <3>1 DEF AfterFunc, BroadcastPc, Goroutines
    <3> QED BY <1>0, <1>3, <3>2 DEF AfterFunc, Counted
  <2> QED BY <2>1, <2>2, <2>3
<1>4. CASE Close
  <2>1. Goroutines'
    <3>1. pc' \in [Pushers \cup Poppers -> States]
      BY <1>0, <1>4, BroadcastSound DEF Close, Goroutines
    <3>2. dataWait' = <<>> /\ spaceWait' = <<>> /\ <<>> \in Seq(Poppers) /\ <<>> \in Seq(Pushers)
      BY <1>4 DEF Close
    <3> QED BY <1>0, <1>4, <3>1, <3>2 DEF Close, Goroutines
  <2>2. Contents'
    <3>1. closed' \in BOOLEAN
      BY <1>4, Zenon DEF Close
    <3> QED BY <1>0, <1>4, <3>1 DEF Close, Contents, Size
  <2>3. Counted'
    <3>1. ASSUME NEW u \in Pushers, pc'[u] # "idle" PROVE count[u] # 0
      <4>1. CASE pc'[u] = pc[u]
        BY <1>0, <3>1, <4>1 DEF Counted
      <4>2. CASE pc'[u] # pc[u]
        <5>1. \E i \in DOMAIN spaceWait : spaceWait[i] = u
          <6>1. \A i \in DOMAIN dataWait : dataWait[i] # u
            BY <1>0, Params DEF Goroutines
          <6> QED BY <1>0, <1>4, <4>2, <6>1 DEF Close, CloseWakes, BroadcastPc, Goroutines
        <5> QED BY <1>0, <5>1 DEF Counted, Goroutines
      <4> QED BY <4>1, <4>2
    <3> QED BY <1>4, <3>1 DEF Close, Counted
  <2> QED BY <2>1, <2>2, <2>3
<1>5. CASE UNCHANGED vars
  BY <1>0, <1>5 DEF vars, Goroutines, Contents, Counted, Size
<1> QED BY <1>1, <1>2, <1>3, <1>4, <1>5, PushInv, PopInv DEF Next, PopStep

\* The queue never holds more than maxSize RPCs, for any number of pushers that wait
\* for space and are woken together with others.
THEOREM TypeCorrect == Spec => []TypeOK
<1>1. TypeOK /\ Counted /\ [Next]_vars => (TypeOK /\ Counted)'
  BY StepInv
<1> QED BY <1>1, InitInv, PTL DEF Spec

-----------------------------------------------------------------------------
\* A step of push is an Enqueue, or leaves the queue alone.
LEMMA PushImplements ==
    ASSUME TypeOK, Counted, NEW u \in Pushers, Push(u)
    PROVE  Abstract!Next \/ UNCHANGED qVars
<1>0. Goroutines /\ Counted
  BY TypeSplit
<1>1. CASE PushPanic(u) \/ PushWait(u) \/ PushFull(u)
  BY <1>1 DEF PushPanic, PushWait, PushFull
<1>2. CASE PushDo(u)
  <2> DEFINE x == <<u, count[u]>>
  <2>1. x \in Items
    <3>1. count[u] \in 1 .. Pushes
      BY <1>0, Params DEF Push, Counted, Goroutines
    <3> QED BY <3>1 DEF Items
  <2>2. ~ closed /\ ~ Abstract!Full /\ closed' = closed
    BY <1>2 DEF PushDo, NoSpace, Size, Abstract!Full
  <2>3. \/ priority' = Append(priority, x) /\ normal' = normal
        \/ normal' = Append(normal, x) /\ priority' = priority
    BY <1>2 DEF PushDo
  <2> HIDE DEF x
  <2>4. Abstract!Enqueue(x, TRUE) \/ Abstract!Enqueue(x, FALSE)
    BY <2>2, <2>3 DEF Abstract!Enqueue
  <2> QED BY <2>1, <2>4, Zenon DEF Abstract!Next
<1> QED BY <1>1, <1>2 DEF Push

\* A step of Pop is a Dequeue, or leaves the queue alone.
LEMMA PopImplements ==
    ASSUME TypeOK, NEW o \in Poppers, Pop(o)
    PROVE  Abstract!Next \/ UNCHANGED qVars
<1>1. CASE PopClosed(o) \/ PopCancelled(o) \/ PopTest(o)
  BY <1>1 DEF PopClosed, PopCancelled, PopTest
<1>2. CASE PopDo(o)
  <2>1. ~ closed /\ closed' = closed
    BY <1>2 DEF PopDo
  <2>2. priority = <<>> => normal # <<>>
    BY <1>2, TypeSplit DEF PopDo, Size, Contents
  <2>3. Abstract!Dequeue
    BY <1>2, <2>1, <2>2 DEF PopDo, PopItem, Abstract!Dequeue
  <2> QED BY <2>3 DEF Abstract!Next
<1> QED BY <1>1, <1>2 DEF Pop

LEMMA StepImplements == TypeOK /\ Counted /\ [Next]_vars => [Abstract!Next]_qVars
<1> SUFFICES ASSUME TypeOK, Counted, [Next]_vars PROVE Abstract!Next \/ UNCHANGED qVars
  BY DEF qVars
<1>1. ASSUME NEW u \in Pushers, NEW o \in Ops, PushCall(u, o) PROVE UNCHANGED qVars
  BY <1>1 DEF PushCall
<1>2. ASSUME NEW o \in Poppers, PopCall(o) \/ PopWait(o) \/ Cancel(o) \/ AfterFunc(o)
      PROVE  UNCHANGED qVars
  BY <1>2 DEF PopCall, PopWait, Cancel, AfterFunc
<1>3. CASE Close
  BY <1>3 DEF Close, Abstract!Next, Abstract!Close
<1>4. CASE UNCHANGED vars
  BY <1>4 DEF vars, qVars
<1> QED BY <1>1, <1>2, <1>3, <1>4, PushImplements, PopImplements DEF Next, PopStep

\* push, Pop and Close, with all their waiting and waking, implement a bounded queue
\* with two classes of RPCs.
THEOREM QueueImplemented == Spec => ImplementsQueue
<1>1. Init => Abstract!Init
  BY DEF Init, Abstract!Init
<1>2. TypeOK /\ Counted /\ [Next]_vars => (TypeOK /\ Counted)'
  BY StepInv
<1> QED BY <1>1, <1>2, InitInv, StepImplements, PTL DEF Spec, ImplementsQueue, Abstract!Spec, qVars

-----------------------------------------------------------------------------
(* No wakeup is lost.                                                      *)

\* The goroutines of a wait list wait, and each is in the list once.
Waiting(list, f) ==
    \A i \in 1 .. Len(list) :
        /\ f[list[i]] = "wait"
        /\ \A j \in 1 .. Len(list) : list[i] = list[j] => i = j

Listed == Waiting(dataWait, pc) /\ Waiting(spaceWait, pc)

\* While a Pop is between its test and its wait, it holds the mutex: the queue stays empty
\* and open.
Held == \A o \in Poppers : pc[o] = "tested" => Size = 0 /\ ~ closed

\* Nobody waits on a closed queue.
Released == closed => dataWait = <<>> /\ spaceWait = <<>>

WInv == Listed /\ Held /\ Released /\ NoLostWakeup

LEMMA WaitingSame ==
    ASSUME NEW W, NEW list \in Seq(W), NEW f, NEW g, Waiting(list, f),
           \A x \in W : f[x] = "wait" => g[x] = "wait"
    PROVE  Waiting(list, g)
<1>1. \A i \in 1 .. Len(list) : list[i] \in W
  OBVIOUS
<1> QED BY <1>1 DEF Waiting

LEMMA WaitingTail ==
    ASSUME NEW W, NEW list \in Seq(W), NEW A, W \subseteq A, NEW f \in [A -> States],
           Waiting(list, f), list # <<>>
    PROVE  /\ Waiting(Tail(list), [f EXCEPT ![Head(list)] = "woken"])
           /\ Head(list) \in W /\ f[Head(list)] = "wait"
<1>1. /\ Len(Tail(list)) = Len(list) - 1 /\ Len(list) \in Nat \ {0}
      /\ Head(list) = list[1] /\ Head(list) \in W
      /\ \A i \in 1 .. Len(Tail(list)) : Tail(list)[i] = list[i + 1] /\ list[i + 1] \in W
                                         /\ i + 1 \in 1 .. Len(list)
  OBVIOUS
<1>2. 1 \in 1 .. Len(list) /\ f[Head(list)] = "wait"
  BY <1>1 DEF Waiting
<1>3. \A i \in 1 .. Len(Tail(list)) : list[i + 1] # list[1] /\ f[list[i + 1]] = "wait"
  BY <1>1, <1>2 DEF Waiting
<1>4. \A i \in 1 .. Len(Tail(list)) : [f EXCEPT ![Head(list)] = "woken"][Tail(list)[i]] = "wait"
  BY <1>1, <1>3
<1>5. ASSUME NEW i \in 1 .. Len(Tail(list)), NEW j \in 1 .. Len(Tail(list)),
             Tail(list)[i] = Tail(list)[j]
      PROVE  i = j
  <2>1. list[i + 1] = list[j + 1] /\ i + 1 \in 1 .. Len(list) /\ j + 1 \in 1 .. Len(list)
    BY <1>1, <1>5
  <2>2. i + 1 = j + 1
    BY <2>1 DEF Waiting
  <2> QED BY <2>2
<1> QED BY <1>1, <1>2, <1>4, <1>5 DEF Waiting

LEMMA WaitingAppend ==
    ASSUME NEW W, NEW list \in Seq(W), NEW A, W \subseteq A, NEW f \in [A -> States],
           NEW x \in W, f[x] # "wait", Waiting(list, f)
    PROVE  Waiting(Append(list, x), [f EXCEPT ![x] = "wait"])
<1> DEFINE s == Append(list, x)
           g == [f EXCEPT ![x] = "wait"]
<1>1. /\ Len(s) = Len(list) + 1 /\ s[Len(list) + 1] = x /\ Len(list) \in Nat
      /\ \A i \in 1 .. Len(list) : s[i] = list[i] /\ list[i] \in W
  OBVIOUS
<1>2. \A i \in 1 .. Len(list) : list[i] # x /\ f[list[i]] = "wait"
  BY DEF Waiting
<1>3. \A y \in A : g[y] = IF y = x THEN "wait" ELSE f[y]
  OBVIOUS
<1> HIDE DEF s, g
<1>4. \A i \in 1 .. Len(s) : g[s[i]] = "wait"
  BY <1>1, <1>2, <1>3
<1>5. ASSUME NEW i \in 1 .. Len(s), NEW j \in 1 .. Len(s), s[i] = s[j] PROVE i = j
  <2>1. CASE i = Len(list) + 1
    BY <1>1, <1>2, <1>5, <2>1
  <2>2. CASE j = Len(list) + 1
    BY <1>1, <1>2, <1>5, <2>2
  <2>3. CASE i # Len(list) + 1 /\ j # Len(list) + 1
    <3>1. i \in 1 .. Len(list) /\ j \in 1 .. Len(list) /\ list[i] = list[j]
      BY <1>1, <1>5, <2>3
    <3> QED BY <3>1 DEF Waiting
  <2> QED BY <2>1, <2>2, <2>3
<1>6. Waiting(s, g)
  BY <1>4, <1>5 DEF Waiting
<1> QED BY <1>6 DEF s, g

\* A signal moves the first of the list, if there is one, from waiting to woken.
LEMMA WaitingSignal ==
    ASSUME NEW W, NEW list \in Seq(W), NEW A, W \subseteq A, NEW f \in [A -> States],
           Waiting(list, f)
    PROVE  /\ Waiting(SignalList(list), SignalPc(list, f))
           /\ SignalList(list) # <<>> => list # <<>>
           /\ list # <<>> => /\ Head(list) \in W /\ f[Head(list)] = "wait"
                             /\ SignalPc(list, f) = [f EXCEPT ![Head(list)] = "woken"]
           /\ list = <<>> => SignalPc(list, f) = f
<1>1. CASE list = <<>>
  BY <1>1 DEF SignalPc, SignalList
<1>2. CASE list # <<>>
  BY <1>2, WaitingTail DEF SignalPc, SignalList
<1> QED BY <1>1, <1>2

\* How the number of woken goroutines of a class changes in a step.
LEMMA WokenCount ==
    ASSUME NEW S, IsFiniteSet(S)
    PROVE  /\ IsFiniteSet(Woken(S)) /\ Cardinality(Woken(S)) \in Nat
           /\ IsFiniteSet(Woken(S)') /\ Cardinality(Woken(S)') \in Nat
           /\ (\A x \in S : pc[x] = "woken" => pc'[x] = "woken")
                 => Cardinality(Woken(S)') >= Cardinality(Woken(S))
           /\ \A y \in S : (\A x \in S \ {y} : pc[x] = "woken" => pc'[x] = "woken")
                 => Cardinality(Woken(S)') >= Cardinality(Woken(S)) - 1
           /\ \A y \in S : /\ \A x \in S : pc[x] = "woken" => pc'[x] = "woken"
                           /\ pc[y] # "woken" /\ pc'[y] = "woken"
                 => Cardinality(Woken(S)') >= Cardinality(Woken(S)) + 1
<1>1. Woken(S) \in SUBSET S /\ Woken(S)' \in SUBSET S
  BY DEF Woken
<1>2. /\ IsFiniteSet(Woken(S)) /\ Cardinality(Woken(S)) \in Nat
      /\ IsFiniteSet(Woken(S)') /\ Cardinality(Woken(S)') \in Nat
  BY <1>1, FS_Subset, FS_CardinalityType
<1>3. ASSUME \A x \in S : pc[x] = "woken" => pc'[x] = "woken"
      PROVE  Cardinality(Woken(S)') >= Cardinality(Woken(S))
  <2>1. Woken(S) \in SUBSET Woken(S)'
    BY <1>3 DEF Woken
  <2>2. Cardinality(Woken(S)) <= Cardinality(Woken(S)')
    BY <1>2, <2>1, FS_Subset
  <2> QED BY <1>2, <2>2
<1>4. ASSUME NEW y \in S, \A x \in S \ {y} : pc[x] = "woken" => pc'[x] = "woken"
      PROVE  Cardinality(Woken(S)') >= Cardinality(Woken(S)) - 1
  <2>1. Woken(S) \ {y} \in SUBSET Woken(S)'
    BY <1>4 DEF Woken
  <2>2. Cardinality(Woken(S) \ {y}) <= Cardinality(Woken(S)')
    BY <1>2, <2>1, FS_Subset
  <2>3. Cardinality(Woken(S) \ {y}) \in {Cardinality(Woken(S)), Cardinality(Woken(S)) - 1}
    BY <1>2, FS_RemoveElement
  <2> QED BY <1>2, <2>2, <2>3
<1>5. ASSUME NEW y \in S, \A x \in S : pc[x] = "woken" => pc'[x] = "woken",
             pc[y] # "woken", pc'[y] = "woken"
      PROVE  Cardinality(Woken(S)') >= Cardinality(Woken(S)) + 1
  <2>1. Woken(S) \cup {y} \in SUBSET Woken(S)'
    BY <1>5 DEF Woken
  <2>2. Cardinality(Woken(S) \cup {y}) <= Cardinality(Woken(S)')
    BY <1>2, <2>1, FS_Subset
  <2>3. y \notin Woken(S)
    BY <1>5 DEF Woken
  <2>4. Cardinality(Woken(S) \cup {y}) = Cardinality(Woken(S)) + 1
    BY <1>2, <2>3, FS_AddElement
  <2> QED BY <1>2, <2>2, <2>4
<1> QED BY <1>2, <1>3, <1>4, <1>5

LEMMA Classes ==
    /\ IsFiniteSet(Pushers) /\ IsFiniteSet(Poppers)
    /\ Pushers \subseteq Pushers \cup Poppers /\ Poppers \subseteq Pushers \cup Poppers
BY QueueAssumption

LEMMA SizeNat == TypeOK => Size \in Nat /\ Size <= MaxSize
BY DEF TypeOK, Size
LEMMA WInit == Init => WInv
<1> SUFFICES ASSUME Init PROVE WInv
  OBVIOUS
<1>1. Listed /\ Released
  BY DEF Init, Listed, Waiting, Released
<1>2. Held
  BY DEF Init, Held
<1>3. NoLostWakeup
  BY DEF Init, NoLostWakeup
<1> QED BY <1>1, <1>2, <1>3 DEF WInv

\* A step of one goroutine that does not wait, in which no list changes.
LEMMA OneMoves ==
    ASSUME TypeOK, WInv, NEW x \in Pushers \cup Poppers, pc[x] # "wait", NEW st,
           pc' = [pc EXCEPT ![x] = st], UNCHANGED <<closed, dataWait, spaceWait>>
    PROVE  Listed' /\ Released'
<1>1. pc \in [Pushers \cup Poppers -> States] /\ dataWait \in Seq(Poppers)
      /\ spaceWait \in Seq(Pushers)
  BY TypeSplit DEF Goroutines
<1>2. \A y \in Pushers \cup Poppers : pc[y] = "wait" => pc'[y] = "wait"
  BY <1>1
<1>3. Waiting(dataWait, pc') /\ Waiting(spaceWait, pc')
  BY <1>1, <1>2, WaitingSame DEF WInv, Listed
<1> QED BY <1>3 DEF Listed, Released, WInv

\* The mutex is free: no Pop is between its test and its wait.
LEMMA FreeHeld ==
    ASSUME MutexFree, \A o \in Poppers : pc'[o] # pc[o] => pc'[o] # "tested"
    PROVE  Held'
BY DEF MutexFree, Held

\* push.
LEMMA PushWakeup == ASSUME TypeOK, WInv, NEW u \in Pushers, Push(u) PROVE WInv'
<1>0. /\ pc \in [Pushers \cup Poppers -> States] /\ dataWait \in Seq(Poppers)
      /\ spaceWait \in Seq(Pushers) /\ pc[u] # "wait" /\ MutexFree
      /\ Size \in Nat /\ Size <= MaxSize /\ MaxSize \in Nat /\ u \notin Poppers
  BY TypeSplit, SizeNat, Params DEF Goroutines, Push
<1>1. ASSUME NEW st \in {"idle", "panic", "wait"}, pc' = [pc EXCEPT ![u] = st],
             UNCHANGED qVars
      PROVE  /\ Held' /\ Size' = Size
             /\ \A x \in Pushers \cup Poppers : x # u => pc'[x] = pc[x]
  <2>1. \A x \in Pushers \cup Poppers : x # u => pc'[x] = pc[x]
    BY <1>0, <1>1
  <2> QED BY <1>0, <1>1, <2>1, FreeHeld DEF Size, qVars
<1>2. CASE PushPanic(u)
  <2>1. Listed' /\ Released'
    BY <1>0, <1>2, OneMoves DEF PushPanic, qVars
  <2>2. Held'
    BY <1>1, <1>2 DEF PushPanic
  <2>3. dataWait' = <<>> /\ spaceWait' = <<>>
    BY <1>2 DEF PushPanic, WInv, Released
  <2> QED BY <2>1, <2>2, <2>3 DEF WInv, NoLostWakeup
<1>3. CASE PushFull(u)
  <2>1. Listed' /\ Released'
    BY <1>0, <1>3, OneMoves DEF PushFull, qVars
  <2>2. Held' /\ Size' = Size /\ \A x \in Pushers \cup Poppers : x # u => pc'[x] = pc[x]
    BY <1>1, <1>3 DEF PushFull
  <2>3. Size = MaxSize /\ UNCHANGED <<dataWait, spaceWait>>
    BY <1>3 DEF PushFull, NoSpace
  <2>4. Cardinality(Woken(Poppers)') >= Cardinality(Woken(Poppers))
    BY <1>0, <2>2, Classes, WokenCount
  <2> QED BY <1>0, <2>1, <2>2, <2>3, <2>4, WokenCount, Classes DEF WInv, NoLostWakeup
<1>4. CASE PushWait(u)
  <2>1. /\ Size = MaxSize /\ ~ closed /\ UNCHANGED <<closed, dataWait>>
        /\ spaceWait' = Append(spaceWait, u) /\ pc' = [pc EXCEPT ![u] = "wait"]
        /\ UNCHANGED qVars
    BY <1>4 DEF PushWait, NoSpace, qVars
  <2>2. Held' /\ Size' = Size /\ \A x \in Pushers \cup Poppers : x # u => pc'[x] = pc[x]
    BY <1>1, <2>1
  <2>3. Waiting(spaceWait', pc')
    BY <1>0, <2>1, WaitingAppend, Classes DEF WInv, Listed
  <2>4. Waiting(dataWait', pc')
    <3>1. \A x \in Poppers : pc[x] = "wait" => pc'[x] = "wait"
      BY <1>0, <2>2
    <3>2. Waiting(dataWait, pc) /\ dataWait \in Seq(Poppers) /\ dataWait' = dataWait
      BY <1>0, <2>1 DEF WInv, Listed
    <3>3. Waiting(dataWait, pc')
      BY <3>1, <3>2, WaitingSame
    <3> QED BY <3>2, <3>3
  <2>5. Cardinality(Woken(Poppers)') >= Cardinality(Woken(Poppers))
    BY <1>0, <2>2, Classes, WokenCount
  <2>6. NoLostWakeup'
    BY <1>0, <2>1, <2>2, <2>5, WokenCount, Classes DEF WInv, NoLostWakeup
  <2>7. Released'
    BY <2>1 DEF Released
  <2> QED BY <2>2, <2>3, <2>4, <2>6, <2>7 DEF WInv, Listed
<1>5. CASE PushDo(u)
  <2> DEFINE f == [pc EXCEPT ![u] = "idle"]
  <2>1. /\ ~ closed /\ closed' = closed /\ UNCHANGED spaceWait
        /\ pc' = SignalPc(dataWait, f) /\ dataWait' = SignalList(dataWait)
    BY <1>5 DEF PushDo
  <2>2. Size' = Size + 1
    <3>1. normal \in Seq(Items) /\ priority \in Seq(Items)
      BY DEF TypeOK
    <3>2. \/ priority' = Append(priority, <<u, count[u]>>) /\ normal' = normal
          \/ normal' = Append(normal, <<u, count[u]>>) /\ priority' = priority
      BY <1>5 DEF PushDo
    <3>3. \A x : Len(Append(priority, x)) = Len(priority) + 1
                /\ Len(Append(normal, x)) = Len(normal) + 1
      BY <3>1
    <3>4. Len(priority) \in Nat /\ Len(normal) \in Nat
      BY <3>1
    <3> QED BY <3>2, <3>3, <3>4 DEF Size
  <2>3. /\ f \in [Pushers \cup Poppers -> States]
        /\ \A x \in Pushers \cup Poppers : x # u => f[x] = pc[x]
        /\ f[u] = "idle"
    BY <1>0 DEF States
  <2> HIDE DEF f
  <2>4. Waiting(dataWait, f)
    BY <1>0, <2>3, WaitingSame DEF WInv, Listed
  <2>5. /\ Waiting(dataWait', pc')
        /\ dataWait' # <<>> => dataWait # <<>>
        /\ dataWait # <<>> => /\ Head(dataWait) \in Poppers /\ f[Head(dataWait)] = "wait"
                              /\ pc' = [f EXCEPT ![Head(dataWait)] = "woken"]
        /\ dataWait = <<>> => pc' = f
    BY <1>0, <2>1, <2>3, <2>4, WaitingSignal, Classes
  <2>6. /\ \A x \in Pushers : pc'[x] = f[x]
        /\ \A x \in Poppers : pc'[x] = pc[x] \/ pc'[x] = "woken"
    BY <1>0, <2>3, <2>5, Params
  <2>7. Waiting(spaceWait', pc')
    <3>1. \A x \in Pushers : pc[x] = "wait" => pc'[x] = "wait"
      BY <1>0, <2>3, <2>6
    <3>2. Waiting(spaceWait, pc) /\ spaceWait \in Seq(Pushers) /\ spaceWait' = spaceWait
      BY <1>0, <2>1 DEF WInv, Listed
    <3>3. Waiting(spaceWait, pc')
      BY <3>1, <3>2, WaitingSame
    <3> QED BY <3>2, <3>3
  <2>8. Held'
    BY <1>0, <2>6, FreeHeld
  <2>9. dataWait' # <<>> => Size' <= Cardinality(Woken(Poppers)')
    <3> SUFFICES ASSUME dataWait' # <<>> PROVE Size' <= Cardinality(Woken(Poppers)')
      OBVIOUS
    <3>1. dataWait # <<>>
      BY <2>5
    <3> DEFINE h == Head(dataWait)
    <3>2. h \in Poppers /\ pc[h] # "woken" /\ pc'[h] = "woken"
      BY <1>0, <2>3, <2>5, <3>1
    <3> HIDE DEF h
    <3>3. \A x \in Poppers : pc[x] = "woken" => pc'[x] = "woken"
      BY <2>6
    <3>4. Cardinality(Woken(Poppers)') >= Cardinality(Woken(Poppers)) + 1
      BY <3>2, <3>3, WokenCount, Classes
    <3>5. Size <= Cardinality(Woken(Poppers))
      BY <3>1 DEF WInv, NoLostWakeup
    <3> QED BY <1>0, <2>2, <3>4, <3>5, WokenCount, Classes
  <2>10. spaceWait' # <<>> => MaxSize - Size' <= Cardinality(Woken(Pushers)')
    <3> SUFFICES ASSUME spaceWait # <<>> PROVE MaxSize - Size' <= Cardinality(Woken(Pushers)')
      BY <2>1
    <3>1. \A x \in Pushers \ {u} : pc[x] = "woken" => pc'[x] = "woken"
      BY <2>3, <2>6
    <3>2. Cardinality(Woken(Pushers)') >= Cardinality(Woken(Pushers)) - 1
      BY <3>1, WokenCount, Classes
    <3>3. MaxSize - Size <= Cardinality(Woken(Pushers))
      BY DEF WInv, NoLostWakeup
    <3> QED BY <1>0, <2>2, <3>2, <3>3, WokenCount, Classes
  <2>11. Released'
    BY <2>1 DEF Released
  <2> QED BY <2>5, <2>7, <2>8, <2>9, <2>10, <2>11 DEF WInv, Listed, NoLostWakeup
<1> QED BY <1>2, <1>3, <1>4, <1>5 DEF Push
\* Pop.
LEMMA PopWakeup == ASSUME TypeOK, WInv, NEW o \in Poppers, Pop(o) PROVE WInv'
<1>0. /\ pc \in [Pushers \cup Poppers -> States] /\ dataWait \in Seq(Poppers)
      /\ spaceWait \in Seq(Pushers) /\ pc[o] # "wait" /\ MutexFree
      /\ Size \in Nat /\ Size <= MaxSize /\ MaxSize \in Nat /\ o \notin Pushers
  BY TypeSplit, SizeNat, Params DEF Goroutines, Pop
<1>1. ASSUME NEW st \in States, pc' = [pc EXCEPT ![o] = st],
             UNCHANGED <<qVars, dataWait, spaceWait>>
      PROVE  /\ Listed' /\ Released' /\ Size' = Size
             /\ pc'[o] = st
             /\ \A x \in Pushers \cup Poppers : x # o => pc'[x] = pc[x]
             /\ Cardinality(Woken(Pushers)') >= Cardinality(Woken(Pushers))
  <2>1. \A x \in Pushers \cup Poppers : x # o => pc'[x] = pc[x]
    BY <1>0, <1>1
  <2>2. Size' = Size /\ pc'[o] = st
    BY <1>0, <1>1 DEF Size, qVars
  <2>3. Cardinality(Woken(Pushers)') >= Cardinality(Woken(Pushers))
    BY <1>0, <2>1, Classes, WokenCount
  <2> QED BY <1>0, <1>1, <2>1, <2>2, <2>3, OneMoves DEF qVars
<1>2. CASE PopClosed(o)
  <2>1. /\ UNCHANGED <<qVars, dataWait, spaceWait>> /\ pc' = [pc EXCEPT ![o] = "done"]
        /\ closed /\ "done" \in States
    BY <1>2 DEF PopClosed, States
  <2>2. Listed' /\ Released' /\ Held'
    BY <1>0, <1>1, <2>1, FreeHeld
  <2>3. dataWait' = <<>> /\ spaceWait' = <<>>
    BY <2>1 DEF WInv, Released
  <2> QED BY <2>2, <2>3 DEF WInv, NoLostWakeup
<1>3. CASE PopCancelled(o) \/ PopTest(o)
  <2>1. PICK st \in {"done", "tested"} : pc' = [pc EXCEPT ![o] = st]
    BY <1>3 DEF PopCancelled, PopTest
  <2>2. /\ UNCHANGED <<qVars, dataWait, spaceWait>> /\ st \in States
        /\ Size = 0 /\ ~ closed
    BY <1>3 DEF PopCancelled, PopTest, States
  <2>3. /\ Listed' /\ Released' /\ Size' = Size
        /\ Cardinality(Woken(Pushers)') >= Cardinality(Woken(Pushers))
    BY <1>1, <2>1, <2>2
  <2>4. Held'
    BY <2>2, <2>3 DEF Held, qVars
  <2>5. NoLostWakeup'
    BY <1>0, <2>2, <2>3, WokenCount, Classes DEF NoLostWakeup, WInv
  <2> QED BY <2>3, <2>4, <2>5 DEF WInv
<1>4. CASE PopDo(o)
  <2> DEFINE f == [pc EXCEPT ![o] = "idle"]
  <2>1. /\ ~ closed /\ closed' = closed /\ UNCHANGED dataWait /\ Size > 0
        /\ pc' = SignalPc(spaceWait, f) /\ spaceWait' = SignalList(spaceWait)
    BY <1>4 DEF PopDo
  <2>2. Size' = Size - 1
    <3>1. normal \in Seq(Items) /\ priority \in Seq(Items)
      BY DEF TypeOK
    <3>2. CASE priority # <<>>
      <4>1. priority' = Tail(priority) /\ normal' = normal
        BY <1>4, <3>2 DEF PopDo, PopItem
      <4>2. Len(priority') = Len(priority) - 1 /\ Len(priority) \in Nat /\ Len(normal) \in Nat
        BY <3>1, <3>2, <4>1
      <4>3. normal' = normal
        BY <4>1
      <4> QED BY <4>2, <4>3 DEF Size
    <3>3. CASE priority = <<>>
      <4>1. normal' = Tail(normal) /\ priority' = priority
        BY <1>4, <3>3 DEF PopDo, PopItem
      <4>2. normal # <<>>
        BY <2>1, <3>1, <3>3 DEF Size
      <4>3. Len(normal') = Len(normal) - 1 /\ Len(priority) \in Nat /\ Len(normal) \in Nat
        BY <3>1, <4>1, <4>2
      <4> QED BY <4>1, <4>3 DEF Size
    <3> QED BY <3>2, <3>3
  <2>3. /\ f \in [Pushers \cup Poppers -> States]
        /\ \A x \in Pushers \cup Poppers : x # o => f[x] = pc[x]
        /\ f[o] = "idle"
    BY <1>0 DEF States
  <2> HIDE DEF f
  <2>4. Waiting(spaceWait, f)
    BY <1>0, <2>3, WaitingSame DEF WInv, Listed
  <2>5. /\ Waiting(spaceWait', pc')
        /\ spaceWait' # <<>> => spaceWait # <<>>
        /\ spaceWait # <<>> => /\ Head(spaceWait) \in Pushers /\ f[Head(spaceWait)] = "wait"
                               /\ pc' = [f EXCEPT ![Head(spaceWait)] = "woken"]
        /\ spaceWait = <<>> => pc' = f
    BY <1>0, <2>1, <2>3, <2>4, WaitingSignal, Classes
  <2>6. /\ \A x \in Poppers : pc'[x] = f[x]
        /\ \A x \in Pushers : pc'[x] = pc[x] \/ pc'[x] = "woken"
    BY <1>0, <2>3, <2>5, Params
  <2>7. Waiting(dataWait', pc')
    <3>1. \A x \in Poppers : pc[x] = "wait" => pc'[x] = "wait"
      BY <1>0, <2>3, <2>6
    <3>2. Waiting(dataWait, pc) /\ dataWait \in Seq(Poppers) /\ dataWait' = dataWait
      BY <1>0, <2>1 DEF WInv, Listed
    <3>3. Waiting(dataWait, pc')
      BY <3>1, <3>2, WaitingSame
    <3> QED BY <3>2, <3>3
  <2>8. Held'
    <3>1. \A x \in Poppers : pc'[x] # pc[x] => pc'[x] # "tested"
      BY <2>3, <2>6
    <3> QED BY <1>0, <3>1, FreeHeld
  <2>9. dataWait' # <<>> => Size' <= Cardinality(Woken(Poppers)')
    <3> SUFFICES ASSUME dataWait # <<>> PROVE Size' <= Cardinality(Woken(Poppers)')
      BY <2>1
    <3>1. \A x \in Poppers \ {o} : pc[x] = "woken" => pc'[x] = "woken"
      BY <2>3, <2>6
    <3>2. Cardinality(Woken(Poppers)') >= Cardinality(Woken(Poppers)) - 1
      BY <3>1, WokenCount, Classes
    <3>3. Size <= Cardinality(Woken(Poppers))
      BY DEF WInv, NoLostWakeup
    <3> QED BY <1>0, <2>2, <3>2, <3>3, WokenCount, Classes
  <2>10. spaceWait' # <<>> => MaxSize - Size' <= Cardinality(Woken(Pushers)')
    <3> SUFFICES ASSUME spaceWait' # <<>> PROVE MaxSize - Size' <= Cardinality(Woken(Pushers)')
      OBVIOUS
    <3>1. spaceWait # <<>>
      BY <2>5
    <3> DEFINE h == Head(spaceWait)
    <3>2. h \in Pushers /\ pc[h] # "woken" /\ pc'[h] = "woken"
      BY <1>0, <2>3, <2>5, <3>1
    <3> HIDE DEF h
    <3>3. \A x \in Pushers : pc[x] = "woken" => pc'[x] = "woken"
      BY <2>6
    <3>4. Cardinality(Woken(Pushers)') >= Cardinality(Woken(Pushers)) + 1
      BY <3>2, <3>3, WokenCount, Classes
    <3>5. MaxSize - Size <= Cardinality(Woken(Pushers))
      BY <3>1 DEF WInv, NoLostWakeup
    <3> QED BY <1>0, <2>2, <3>4, <3>5, WokenCount, Classes
  <2>11. Released'
    BY <2>1 DEF Released
  <2> QED BY <2>5, <2>7, <2>8, <2>9, <2>10, <2>11 DEF WInv, Listed, NoLostWakeup
<1> QED BY <1>2, <1>3, <1>4 DEF Pop

\* The steps that change no queue and wake nobody.
LEMMA QuietWakeup ==
    ASSUME TypeOK, WInv, NEW x \in Pushers \cup Poppers, pc[x] = "idle",
           pc' = [pc EXCEPT ![x] = "lock"], UNCHANGED <<qVars, dataWait, spaceWait>>
    PROVE  WInv'
<1>0. pc \in [Pushers \cup Poppers -> States] /\ Size' = Size
      /\ Size \in Nat /\ Size <= MaxSize /\ MaxSize \in Nat
  BY TypeSplit, SizeNat, Params DEF Goroutines, Size, qVars
<1>1. Listed' /\ Released'
  BY OneMoves DEF qVars
<1>2. \A y \in Pushers \cup Poppers : pc'[y] # pc[y] => pc'[y] = "lock" /\ pc[y] = "idle"
  BY <1>0
<1>3. Held'
  BY <1>0, <1>2 DEF Held, WInv, qVars
<1>4. /\ Cardinality(Woken(Poppers)') >= Cardinality(Woken(Poppers))
      /\ Cardinality(Woken(Pushers)') >= Cardinality(Woken(Pushers))
  BY <1>2, Classes, WokenCount
<1>5. NoLostWakeup'
  BY <1>0, <1>4, WokenCount, Classes DEF NoLostWakeup, WInv
<1> QED BY <1>1, <1>3, <1>5 DEF WInv

\* dataAvailable.Wait: the queue has been empty since the test.
LEMMA PopWaitWakeup == ASSUME TypeOK, WInv, NEW o \in Poppers, PopWait(o) PROVE WInv'
<1>0. /\ pc \in [Pushers \cup Poppers -> States] /\ dataWait \in Seq(Poppers)
      /\ spaceWait \in Seq(Pushers) /\ MaxSize \in Nat
  BY TypeSplit, Params DEF Goroutines
<1>1. /\ pc[o] = "tested" /\ pc' = [pc EXCEPT ![o] = "wait"]
      /\ dataWait' = Append(dataWait, o) /\ UNCHANGED <<qVars, spaceWait>>
  BY DEF PopWait
<1>2. Size = 0 /\ ~ closed /\ Size' = Size
  BY <1>1 DEF WInv, Held, Size, qVars
<1>3. \A x \in Pushers \cup Poppers : x # o => pc'[x] = pc[x]
  BY <1>0, <1>1
<1>4. Waiting(dataWait', pc')
  <2>1. Waiting(dataWait, pc) /\ pc[o] # "wait"
    BY <1>1 DEF WInv, Listed
  <2>2. Waiting(Append(dataWait, o), [pc EXCEPT ![o] = "wait"])
    BY <1>0, <2>1, WaitingAppend, Classes
  <2> QED BY <1>1, <2>2
<1>5. Waiting(spaceWait', pc')
  <2>1. \A x \in Pushers : pc[x] = "wait" => pc'[x] = "wait"
    BY <1>3, Params
  <2>2. Waiting(spaceWait, pc) /\ spaceWait' = spaceWait
    BY <1>1 DEF WInv, Listed
  <2>3. Waiting(spaceWait, pc')
    BY <1>0, <2>1, <2>2, WaitingSame
  <2> QED BY <2>2, <2>3
<1>6. Held'
  BY <1>1, <1>2 DEF Held, qVars
<1>7. Released'
  BY <1>1, <1>2 DEF Released, qVars
<1>8. NoLostWakeup'
  <2>1. Cardinality(Woken(Pushers)') >= Cardinality(Woken(Pushers))
    BY <1>3, Params, Classes, WokenCount
  <2> QED BY <1>0, <1>1, <1>2, <2>1, WokenCount, Classes DEF NoLostWakeup, WInv
<1> QED BY <1>4, <1>5, <1>6, <1>7, <1>8 DEF WInv, Listed

\* The callback of a context empties the list of dataAvailable, and touches no other.
LEMMA AfterFuncWakeup == ASSUME TypeOK, WInv, NEW o \in Poppers, AfterFunc(o) PROVE WInv'
<1>0. /\ pc \in [Pushers \cup Poppers -> States] /\ dataWait \in Seq(Poppers)
      /\ spaceWait \in Seq(Pushers) /\ MaxSize \in Nat /\ Size \in Nat
  BY TypeSplit, SizeNat, Params DEF Goroutines
<1>1. /\ pc' = BroadcastPc({dataWait}, pc) /\ dataWait' = <<>> /\ UNCHANGED <<qVars, spaceWait>>
      /\ Size' = Size
  BY DEF AfterFunc, Size, qVars
<1>2. \A x \in Pushers \cup Poppers : pc'[x] = pc[x] \/ pc'[x] = "woken"
  BY <1>0, <1>1 DEF BroadcastPc
<1>3. \A x \in Pushers : pc'[x] = pc[x]
  <2>1. \A i \in DOMAIN dataWait : dataWait[i] \notin Pushers
    BY <1>0, Params
  <2> QED BY <1>0, <1>1, <2>1 DEF BroadcastPc
<1>4. Waiting(dataWait', pc')
  BY <1>1 DEF Waiting
<1>5. Waiting(spaceWait', pc')
  <2>1. \A x \in Pushers : pc[x] = "wait" => pc'[x] = "wait"
    BY <1>3
  <2>2. Waiting(spaceWait, pc) /\ spaceWait' = spaceWait
    BY <1>1 DEF WInv, Listed
  <2>3. Waiting(spaceWait, pc')
    BY <1>0, <2>1, <2>2, WaitingSame
  <2> QED BY <2>2, <2>3
<1>6. Held'
  BY <1>1, <1>2 DEF Held, WInv, qVars
<1>7. Released'
  BY <1>1 DEF Released, WInv, qVars
<1>8. NoLostWakeup'
  <2>1. Cardinality(Woken(Pushers)') >= Cardinality(Woken(Pushers))
    BY <1>3, Params, Classes, WokenCount
  <2> QED BY <1>0, <1>1, <2>1, WokenCount, Classes DEF NoLostWakeup, WInv
<1> QED BY <1>4, <1>5, <1>6, <1>7, <1>8 DEF WInv, Listed

\* Close empties both.
LEMMA CloseWakeup == ASSUME TypeOK, Close PROVE WInv'
<1>0. pc \in [Pushers \cup Poppers -> States]
  BY TypeSplit DEF Goroutines
<1>1. dataWait' = <<>> /\ spaceWait' = <<>> /\ pc' = BroadcastPc(CloseWakes, pc) /\ MutexFree
  BY DEF Close
<1>2. \A x \in Pushers \cup Poppers : pc'[x] = pc[x] \/ pc'[x] = "woken"
  BY <1>0, <1>1 DEF BroadcastPc
<1>3. Held'
  BY <1>1, <1>2, FreeHeld
<1>4. Listed' /\ Released' /\ NoLostWakeup'
  BY <1>1 DEF Listed, Waiting, Released, NoLostWakeup
<1> QED BY <1>3, <1>4 DEF WInv

LEMMA WStep == TypeOK /\ WInv /\ [Next]_vars => WInv'
<1> SUFFICES ASSUME TypeOK, WInv, [Next]_vars PROVE WInv'
  OBVIOUS
<1>1. ASSUME NEW u \in Pushers, NEW o \in Ops, PushCall(u, o) PROVE WInv'
  BY <1>1, QuietWakeup DEF PushCall
<1>2. ASSUME NEW o \in Poppers, PopCall(o) PROVE WInv'
  BY <1>2, QuietWakeup DEF PopCall
<1>3. CASE UNCHANGED <<qVars, pc, dataWait, spaceWait>>
  <2>1. Listed' /\ Released' /\ Size' = Size
    BY <1>3 DEF WInv, Listed, Released, qVars, Size
  <2>2. Held'
    BY <1>3, <2>1 DEF WInv, Held, qVars
  <2>3. Woken(Pushers)' = Woken(Pushers) /\ Woken(Poppers)' = Woken(Poppers)
    BY <1>3 DEF Woken
  <2>4. NoLostWakeup'
    BY <1>3, <2>1, <2>3 DEF WInv, NoLostWakeup
  <2> QED BY <2>1, <2>2, <2>4 DEF WInv
<1>4. ASSUME NEW o \in Poppers, Cancel(o) PROVE WInv'
  BY <1>3, <1>4 DEF Cancel
<1>5. CASE UNCHANGED vars
  BY <1>3, <1>5 DEF vars, qVars
<1> QED BY <1>1, <1>2, <1>4, <1>5, PushWakeup, PopWakeup, PopWaitWakeup, AfterFuncWakeup,
           CloseWakeup DEF Next, PopStep

\* The Signal of push and Pop, the Broadcast of Close and the one that AfterFunc makes
\* without the mutex leave no Pop asleep next to an RPC, and no Push next to a free place,
\* that nobody has been woken for.
THEOREM NoLostWakeupHolds == Spec => []NoLostWakeup
<1>1. Init => TypeOK /\ Counted /\ WInv
  BY InitInv, WInit
<1>2. TypeOK /\ Counted /\ WInv /\ [Next]_vars => (TypeOK /\ Counted /\ WInv)'
  BY StepInv, WStep
<1>3. WInv => NoLostWakeup
  BY DEF WInv
<1> QED BY <1>1, <1>2, <1>3, PTL DEF Spec

-----------------------------------------------------------------------------
(* Batches.                                                                *)

BatchSpec == BatchInit /\ [][BatchNext]_batchVars

BatchTyped ==
    /\ batch \in Seq(Texts)
    /\ taken \in [Callers -> Seq(Texts) \cup {<<Idle>>}]
    /\ channel = <<>> \/ channel \in Seq(Seq(Texts))
    /\ local \in [Texts -> Nat] /\ sent \in [Texts -> Nat]
    /\ delivered \subseteq Texts

\* The scheduler only holds messages that were delivered.
Scheduled ==
    /\ visit \subseteq DOMAIN rpcs /\ DOMAIN rpcs \subseteq delivered
    /\ \A m \in DOMAIN rpcs : rpcs[m] \in Nat

BInv == BatchTyped /\ Scheduled /\ BatchOnce

LEMMA FanoutNat == LocalOnly \subseteq Texts /\ \A m \in Texts : Fanout[m] \in Nat
BY BatchAssumption

LEMMA BatchInitInv == BatchInit => BInv
<1> SUFFICES ASSUME BatchInit PROVE BInv
  OBVIOUS
<1>1. BatchTyped
  BY DEF BatchInit, BatchTyped
<1>2. DOMAIN rpcs = {} /\ visit = {} /\ delivered = {}
  BY DEF BatchInit
<1>3. Scheduled
  BY <1>2 DEF Scheduled
<1>4. BatchOnce
  BY <1>2 DEF BatchInit, BatchOnce
<1> QED BY <1>1, <1>3, <1>4 DEF BInv

LEMMA CollectStep ==
    ASSUME BInv, UNCHANGED <<rpcs, visit, delivered, local, sent>>,
           batch' \in Seq(Texts), taken' \in [Callers -> Seq(Texts) \cup {<<Idle>>}],
           channel' = <<>> \/ channel' \in Seq(Seq(Texts))
    PROVE  BInv'
<1>1. BatchTyped'
  BY DEF BInv, BatchTyped
<1>2. Scheduled' /\ BatchOnce'
  BY DEF BInv, Scheduled, BatchOnce
<1> QED BY <1>1, <1>2 DEF BInv

LEMMA AloneStep ==
    ASSUME BInv, NEW m \in Texts, PublishAlone(m) PROVE BInv'
<1>1. BatchTyped /\ Scheduled /\ BatchOnce
  BY DEF BInv
<1> DEFINE n == IF m \in LocalOnly THEN 0 ELSE Fanout[m]
<1>2. n \in Nat /\ (n = Fanout[m] \/ (m \in LocalOnly /\ n = 0))
  BY FanoutNat
<1>3. /\ m \notin delivered /\ DOMAIN rpcs = {} /\ delivered' = delivered \cup {m}
      /\ local' = [local EXCEPT ![m] = @ + 1] /\ sent' = [sent EXCEPT ![m] = n]
      /\ UNCHANGED <<batch, taken, channel, rpcs, visit>>
  BY DEF PublishAlone
<1> HIDE DEF n
<1>4. /\ local[m] = 0 /\ local'[m] = 1 /\ sent'[m] = n
      /\ \A k \in Texts \ {m} : local'[k] = local[k] /\ sent'[k] = sent[k]
  BY <1>1, <1>3 DEF BatchTyped, BatchOnce
<1>5. BatchTyped'
  BY <1>1, <1>2, <1>3 DEF BatchTyped
<1>6. Scheduled'
  BY <1>1, <1>3 DEF Scheduled
<1>7. BatchOnce'
  BY <1>1, <1>2, <1>3, <1>4 DEF BatchOnce, BatchTyped
<1> QED BY <1>5, <1>6, <1>7 DEF BInv

LEMMA PublishBatchStep ==
    ASSUME BInv, PublishMessageBatch PROVE BInv'
<1>1. BatchTyped /\ Scheduled /\ BatchOnce
  BY DEF BInv
<1>2. PICK all : all = Range(channel[1])
  OBVIOUS
<1>3. all \subseteq Texts
  <2>1. channel \in Seq(Seq(Texts)) /\ channel # <<>>
    BY <1>1 DEF BatchTyped, PublishMessageBatch
  <2>2. channel[1] \in Seq(Texts)
    BY <2>1
  <2> QED BY <1>2, <2>2 DEF Range
<1>4. PICK fresh : fresh = all \ delivered
  OBVIOUS
<1>5. Fresh(channel[1]) = fresh
  BY <1>2, <1>4 DEF Fresh
<1>6. PICK dom : dom = {f \in fresh : Fanout[f] > 0}
  OBVIOUS
<1>7. /\ DOMAIN rpcs = {} /\ delivered' = delivered \cup all
      /\ local' = [m \in Texts |-> IF m \in fresh THEN local[m] + 1 ELSE local[m]]
      /\ rpcs' = [m \in dom |-> Fanout[m]] /\ visit' = DOMAIN rpcs'
      /\ channel' = <<>> /\ UNCHANGED <<batch, taken, sent>>
  BY <1>2, <1>5, <1>6 DEF PublishMessageBatch
<1>8. DOMAIN rpcs' = dom /\ \A m \in dom : rpcs'[m] = Fanout[m] /\ Fanout[m] \in Nat
  BY <1>3, <1>4, <1>6, <1>7, FanoutNat
<1>9. BatchTyped'
  BY <1>1, <1>3, <1>7 DEF BatchTyped
<1>10. Scheduled'
  BY <1>4, <1>6, <1>7, <1>8 DEF Scheduled
<1>11. ASSUME NEW m \in delivered'
       PROVE  /\ local'[m] = 1
              /\ m \in dom => sent'[m] + rpcs'[m] = Fanout[m]
              /\ m \notin dom => (sent'[m] = Fanout[m] \/ (m \in LocalOnly /\ sent'[m] = 0))
  <2>1. CASE m \in delivered
    <3>1. m \in Texts /\ m \notin fresh /\ m \notin dom
      BY <1>1, <1>4, <1>6, <2>1 DEF BatchTyped
    <3>2. local[m] = 1 /\ (sent[m] = Fanout[m] \/ (m \in LocalOnly /\ sent[m] = 0))
      BY <1>1, <1>7, <2>1 DEF BatchOnce
    <3> QED BY <1>7, <3>1, <3>2
  <2>2. CASE m \notin delivered
    <3>1. m \in fresh /\ m \in Texts
      BY <1>3, <1>4, <1>7, <2>2
    <3>2. local[m] = 0 /\ sent[m] = 0
      BY <1>1, <2>2, <3>1 DEF BatchOnce
    <3>3. local'[m] = 1 /\ sent'[m] = 0
      BY <1>7, <3>1, <3>2
    <3>4. m \notin dom => Fanout[m] = 0
      BY <1>6, <3>1, FanoutNat
    <3> QED BY <1>8, <3>3, <3>4
  <2> QED BY <2>1, <2>2
<1>12. ASSUME NEW m \in Texts \ delivered' PROVE local'[m] = 0 /\ sent'[m] = 0
  BY <1>1, <1>4, <1>7 DEF BatchOnce
<1>13. BatchOnce'
  BY <1>8, <1>11, <1>12 DEF BatchOnce
<1> QED BY <1>9, <1>10, <1>13 DEF BInv

LEMMA ScheduleStep ==
    ASSUME BInv, NEW m \in Texts, ScheduleOne(m) \/ ScheduleDelete(m) PROVE BInv'
<1>1. BatchTyped /\ Scheduled /\ BatchOnce
  BY DEF BInv
<1>2. m \in visit /\ m \in DOMAIN rpcs /\ m \in delivered /\ rpcs[m] \in Nat
      /\ sent[m] + rpcs[m] = Fanout[m] /\ sent[m] \in Nat /\ Fanout[m] \in Nat
  BY <1>1, FanoutNat DEF ScheduleOne, ScheduleDelete, Scheduled, BatchOnce, BatchTyped
<1>3. UNCHANGED <<batch, taken, channel, delivered, local>>
  BY DEF ScheduleOne, ScheduleDelete
<1>4. CASE ScheduleOne(m)
  <2>1. rpcs[m] > 0 /\ sent' = [sent EXCEPT ![m] = @ + 1] /\ rpcs' = [rpcs EXCEPT ![m] = @ - 1]
        /\ visit' = visit \ {m}
    BY <1>4 DEF ScheduleOne, NextVisit
  <2>2. /\ DOMAIN rpcs' = DOMAIN rpcs /\ rpcs'[m] = rpcs[m] - 1
        /\ \A k \in DOMAIN rpcs \ {m} : rpcs'[k] = rpcs[k]
    BY <1>2, <2>1
  <2>3. sent'[m] = sent[m] + 1 /\ \A k \in Texts \ {m} : sent'[k] = sent[k]
    BY <1>1, <2>1 DEF BatchTyped
  <2>4. BatchTyped'
    BY <1>1, <1>3, <2>1 DEF BatchTyped
  <2>5. Scheduled'
    BY <1>1, <1>2, <1>3, <2>1, <2>2 DEF Scheduled
  <2>6. BatchOnce'
    <3>1. sent'[m] + rpcs'[m] = Fanout[m]
      BY <1>2, <2>2, <2>3
    <3>2. ASSUME NEW k \in delivered'
          PROVE  /\ local'[k] = 1
                 /\ k \in DOMAIN rpcs' => sent'[k] + rpcs'[k] = Fanout[k]
                 /\ k \notin DOMAIN rpcs' => (sent'[k] = Fanout[k] \/ (k \in LocalOnly /\ sent'[k] = 0))
      BY <1>1, <1>2, <1>3, <2>2, <2>3, <3>1 DEF BatchOnce, BatchTyped
    <3>3. ASSUME NEW k \in Texts \ delivered' PROVE local'[k] = 0 /\ sent'[k] = 0
      BY <1>1, <1>2, <1>3, <2>3 DEF BatchOnce
    <3> QED BY <3>2, <3>3 DEF BatchOnce
  <2> QED BY <2>4, <2>5, <2>6 DEF BInv
<1>5. CASE ScheduleDelete(m)
  <2>1. rpcs[m] = 0 /\ rpcs' = [k \in DOMAIN rpcs \ {m} |-> rpcs[k]] /\ visit' = visit \ {m}
        /\ sent' = sent
    BY <1>5 DEF ScheduleDelete
  <2>2. BatchTyped'
    BY <1>1, <1>3, <2>1 DEF BatchTyped
  <2>3. Scheduled'
    BY <1>1, <1>3, <2>1 DEF Scheduled
  <2>4. sent[m] = Fanout[m]
    BY <1>2, <2>1
  <2>5. BatchOnce'
    BY <1>1, <1>2, <1>3, <2>1, <2>4 DEF BatchOnce
  <2> QED BY <2>2, <2>3, <2>5 DEF BInv
<1> QED BY <1>4, <1>5

LEMMA BatchStepInv == BInv /\ [BatchNext]_batchVars => BInv'
<1> SUFFICES ASSUME BInv, [BatchNext]_batchVars PROVE BInv'
  OBVIOUS
<1>1. /\ batch \in Seq(Texts) /\ taken \in [Callers -> Seq(Texts) \cup {<<Idle>>}]
      /\ channel = <<>> \/ channel \in Seq(Seq(Texts))
  BY DEF BInv, BatchTyped
<1>2. ASSUME NEW m \in Texts, AddToBatch(m) PROVE BInv'
  <2>1. batch' \in Seq(Texts) /\ UNCHANGED <<taken, channel, rpcs, visit, delivered, local, sent>>
    BY <1>1, <1>2 DEF AddToBatch
  <2> QED BY <1>1, <2>1, CollectStep
<1>3. ASSUME NEW c \in Callers, Take(c) PROVE BInv'
  <2>1. taken' \in [Callers -> Seq(Texts) \cup {<<Idle>>}] /\ batch' = <<>>
        /\ UNCHANGED <<channel, rpcs, visit, delivered, local, sent>>
    BY <1>1, <1>3 DEF Take
  <2>2. batch' \in Seq(Texts)
    BY <2>1
  <2> QED BY <1>1, <2>1, <2>2, CollectStep
<1>4. ASSUME NEW c \in Callers, HandOver(c) PROVE BInv'
  <2>1. /\ channel' = <<taken[c]>> /\ taken' = [taken EXCEPT ![c] = <<Idle>>] /\ taken[c] # <<Idle>>
        /\ UNCHANGED <<batch, rpcs, visit, delivered, local, sent>>
    BY <1>4 DEF HandOver
  <2>2. taken' \in [Callers -> Seq(Texts) \cup {<<Idle>>}]
    BY <1>1, <2>1
  <2>3. taken[c] \in Seq(Texts)
    BY <1>1, <2>1
  <2>4. channel' \in Seq(Seq(Texts))
    <3> HIDE DEF Idle
    <3>1. ASSUME NEW S, NEW x \in S PROVE <<x>> \in Seq(S)
      OBVIOUS
    <3> QED BY <2>1, <2>3, <3>1
  <2> QED BY <1>1, <2>1, <2>2, <2>4, CollectStep
<1>5. CASE ScheduleRound
  <2>1. visit' = DOMAIN rpcs /\ UNCHANGED <<batch, taken, channel, rpcs, delivered, local, sent>>
    BY <1>5 DEF ScheduleRound
  <2>2. BatchTyped' /\ Scheduled'
    BY <2>1 DEF BInv, BatchTyped, Scheduled
  <2>3. BatchOnce'
    BY <2>1 DEF BInv, BatchOnce
  <2> QED BY <2>2, <2>3 DEF BInv
<1>6. CASE UNCHANGED batchVars
  BY <1>1, <1>6, CollectStep DEF batchVars
<1> QED BY <1>2, <1>3, <1>4, <1>5, <1>6, AloneStep, PublishBatchStep, ScheduleStep DEF BatchNext

\* Whatever calls of AddToBatch, Publish and PublishBatch interleave, markDelivered and
\* the scheduler see to it that a message reaches the subscribers once, and the network
\* once for every RPC that was made of it.
THEOREM BatchOnceHolds == BatchSpec => []BatchOnce
<1>1. BInv => BatchOnce
  BY DEF BInv
<1> QED BY <1>1, BatchInitInv, BatchStepInv, PTL DEF BatchSpec

-----------------------------------------------------------------------------
(* Partial messages.                                                       *)

PartialSpec == PartialInit /\ [][PartialNext]_partVars

GroupStates == [ttl : Nat, by : Partners \cup {"us", "nobody"}, states : SUBSET Partners]

PartialTyped ==
    /\ group \in [Groups -> GroupStates]
    /\ \A g \in Groups : group[g].by = "nobody" => group[g] = NoGroup
    /\ perPeer \in [Partners -> Nat]

PartialInv == PartialTyped /\ NoPhantomGroups

LEMMA MinOfTwo ==
    ASSUME NEW a \in Nat, NEW b \in Nat
    PROVE  Min({a, b}) = IF a <= b THEN a ELSE b
<1> DEFINE c == IF a <= b THEN a ELSE b
           Least(x) == x \in {a, b} /\ \A y \in {a, b} : x <= y
<1>1. Least(c) /\ \A x : Least(x) => x = c
  OBVIOUS
<1>2. Min({a, b}) = CHOOSE x : Least(x)
  BY DEF Min
<1>3. Least(CHOOSE x : Least(x))
  <2> HIDE DEF Least
  <2> QED BY <1>1
<1> HIDE DEF c, Least
<1> QED BY <1>1, <1>2, <1>3 DEF c

LEMMA PartialNumbers ==
    /\ IsFiniteSet(Partners) /\ IsFiniteSet(Groups) /\ GroupTTL \in Nat
    /\ "us" \notin Partners /\ "nobody" \notin Partners
  BY PartialAssumption

\* A group lives if somebody initiated it.
LEMMA LiveBy ==
    ASSUME PartialTyped, NEW g \in Groups
    PROVE  Live(g) <=> group[g].by # "nobody"
  BY DEF PartialTyped, Live, NoGroup

LEMMA Initiated ==
    ASSUME PartialTyped, NEW p \in Partners
    PROVE  /\ InitiatedBy(p) = {g \in Groups : group[g].by = p}
           /\ IsFiniteSet(InitiatedBy(p)) /\ Cardinality(InitiatedBy(p)) \in Nat
<1>1. InitiatedBy(p) = {g \in Groups : group[g].by = p}
  BY LiveBy, PartialNumbers DEF InitiatedBy
<1> QED BY <1>1, FS_Subset, FS_CardinalityType, PartialNumbers

TotalIs == total = Total(perPeer, Partners)

LEMMA NoPhantomIs ==
    NoPhantomGroups <=> (\A p \in Partners : perPeer[p] \in 0 .. Cardinality(InitiatedBy(p))) /\ TotalIs
  BY DEF NoPhantomGroups, TotalIs, Total

\* A step that changes the counter by d, and leaves it below the number of groups
LEMMA CounterStep ==
    ASSUME PartialInv, PartialTyped', NEW d \in [Partners -> Int],
           \A p \in Partners : perPeer'[p] = perPeer[p] - d[p],
           total' = total - Total(d, Partners),
           \A p \in Partners : perPeer'[p] \in 0 .. Cardinality(InitiatedBy(p)')
    PROVE  PartialInv'
<1>1. total = Total(perPeer, Partners) /\ perPeer \in [Partners -> Int]
  BY NoPhantomIs DEF PartialInv, TotalIs, PartialTyped
<1>2. Total(perPeer', Partners) = Total(perPeer, Partners) - Total(d, Partners)
  BY <1>1, PartialNumbers, TotalDifference
<1>3. TotalIs'
  BY <1>1, <1>2 DEF TotalIs
<1>4. \A p \in Partners : (perPeer[p] \in 0 .. Cardinality(InitiatedBy(p)))'
  OBVIOUS
<1>5. NoPhantomGroups'
  BY <1>3, <1>4 DEF NoPhantomGroups, TotalIs, Total
<1> QED BY <1>5 DEF PartialInv

\* Who initiated which group, after a step
LEMMA InitiatedNext ==
    ASSUME PartialTyped', NEW p \in Partners
    PROVE  InitiatedBy(p)' = {g \in Groups : group'[g].by = p}
<1>1. \A g \in Groups : (Live(g))' <=> group'[g].by # "nobody"
  BY DEF PartialTyped, Live, NoGroup
<1> QED BY <1>1, PartialNumbers DEF InitiatedBy

\* A step that leaves who initiated which group, and the counter
LEMMA SameInitiators ==
    ASSUME PartialInv, PartialTyped',
           \A g \in Groups : group'[g].by = group[g].by,
           UNCHANGED <<total, perPeer>>
    PROVE  PartialInv'
<1>1. \A p \in Partners : InitiatedBy(p)' = InitiatedBy(p)
  <2> TAKE p \in Partners
  <2>1. PartialTyped
    BY DEF PartialInv
  <2>2. InitiatedBy(p) = {g \in Groups : group[g].by = p}
    BY <2>1, Initiated
  <2>3. InitiatedBy(p)' = {g \in Groups : group'[g].by = p}
    BY InitiatedNext
  <2>4. {g \in Groups : group'[g].by = p} = {g \in Groups : group[g].by = p}
    OBVIOUS
  <2> QED BY <2>2, <2>3, <2>4
<1> DEFINE d == [p \in Partners |-> 0]
<1>2. Total(d, Partners) = 0 /\ Total(perPeer, Partners) \in Int /\ d \in [Partners -> Int]
  <2>1. \A p \in Partners : d[p] = 0
    OBVIOUS
  <2>2. perPeer \in [Partners -> Int]
    BY DEF PartialInv, PartialTyped
  <2> HIDE DEF d
  <2>3. Total(d, Partners) = 0
    BY <2>1, PartialNumbers, TotalOfNone
  <2>4. Total(perPeer, Partners) \in Int
    BY <2>2, PartialNumbers, TotalType
  <2> USE DEF d
  <2> QED BY <2>3, <2>4
<1>3. total \in Int
  BY <1>2, NoPhantomIs DEF PartialInv, TotalIs
<1>4. \A p \in Partners : perPeer'[p] = perPeer[p] - d[p]
  BY DEF PartialInv, PartialTyped
<1>5. \A p \in Partners : perPeer'[p] \in 0 .. Cardinality(InitiatedBy(p)')
  BY <1>1, NoPhantomIs DEF PartialInv
<1> HIDE DEF d
<1>6. total' = total - Total(d, Partners)
  BY <1>2, <1>3
<1> QED BY <1>2, <1>4, <1>5, <1>6, CounterStep

\* Dec, when the groups counted down are no longer a peer's
LEMMA CountedDown ==
    ASSUME PartialInv, NEW gs \in SUBSET Groups, Dec(gs), PartialTyped',
           \A p \in Partners, g \in Groups : group'[g].by = p <=> group[g].by = p /\ g \notin gs
    PROVE  PartialInv'
<1> DEFINE n == [p \in Partners |-> Min({perPeer[p], Cardinality(gs \cap InitiatedBy(p))})]
<1>0. PartialTyped /\ perPeer \in [Partners -> Nat]
  BY DEF PartialInv, PartialTyped
<1>1. ASSUME NEW p \in Partners
      PROVE  /\ n[p] \in Int
             /\ perPeer[p] - n[p] \in 0 .. Cardinality(InitiatedBy(p)')
  <2>1. InitiatedBy(p)' = InitiatedBy(p) \ gs
    BY <1>0, Initiated, InitiatedNext
  <2>2. IsFiniteSet(InitiatedBy(p)) /\ Cardinality(InitiatedBy(p)) \in Nat
    BY <1>0, Initiated
  <2> DEFINE A == InitiatedBy(p)
             c == Cardinality(gs \cap A)
  <2>3. /\ gs \cap A = A \cap gs /\ IsFiniteSet(A \cap gs) /\ c \in Nat /\ c <= Cardinality(A)
        /\ Cardinality(A \ gs) = Cardinality(A) - c
    <3>1. gs \cap A = A \cap gs
      OBVIOUS
    <3>2. A \cap gs \in SUBSET A
      OBVIOUS
    <3> HIDE DEF A
    <3>3. IsFiniteSet(A)
      BY <2>2 DEF A
    <3>4. IsFiniteSet(A \cap gs) /\ Cardinality(A \cap gs) <= Cardinality(A)
      BY <3>3, FS_Intersection
    <3>5. Cardinality(A \cap gs) \in Nat
      BY <3>4, FS_CardinalityType
    <3>6. Cardinality(A \ gs) = Cardinality(A) - Cardinality(A \cap gs)
      BY <3>3, FS_Difference
    <3> QED BY <3>1, <3>4, <3>5, <3>6
  <2>4. perPeer[p] \in Nat /\ perPeer[p] <= Cardinality(A)
    BY <1>0, NoPhantomIs DEF PartialInv
  <2>5. n[p] = IF perPeer[p] <= c THEN perPeer[p] ELSE c
    <3>1. n[p] = Min({perPeer[p], c})
      OBVIOUS
    <3> HIDE DEF n, c
    <3> QED BY <2>3, <2>4, <3>1, MinOfTwo
  <2>6. Cardinality(InitiatedBy(p)') = Cardinality(A) - c /\ Cardinality(A) \in Nat
    BY <2>1, <2>2, <2>3
  <2> HIDE DEF n, A, c
  <2> QED BY <2>3, <2>4, <2>5, <2>6
<1>2. n \in [Partners -> Int]
  <2>1. \A p \in Partners : n[p] \in Int
    BY <1>1
  <2>2. n = [p \in Partners |-> n[p]]
    OBVIOUS
  <2> HIDE DEF n
  <2> QED BY <2>1, <2>2
<1>3. /\ perPeer' = [p \in Partners |-> perPeer[p] - n[p]]
      /\ total' = total - Total(n, Partners)
  BY DEF Dec, Total
<1> HIDE DEF n
<1>4. \A p \in Partners : perPeer'[p] = perPeer[p] - n[p]
  BY <1>3
<1> QED BY <1>1, <1>2, <1>3, <1>4, CounterStep

LEMMA PartialStart == PartialInit => PartialInv
<1> SUFFICES ASSUME PartialInit PROVE PartialInv
  OBVIOUS
<1>1. PartialTyped
  BY DEF PartialInit, PartialTyped, GroupStates, NoGroup
<1>2. \A p \in Partners : perPeer[p] = 0
  BY DEF PartialInit
<1>3. TotalIs
  BY <1>2, PartialNumbers, TotalOfNone DEF PartialInit, TotalIs
<1>4. \A p \in Partners : perPeer[p] \in 0 .. Cardinality(InitiatedBy(p))
  BY <1>1, <1>2, Initiated
<1> QED BY <1>1, <1>3, <1>4, NoPhantomIs DEF PartialInv

LEMMA OnClosedOutboundStreamInv ==
    ASSUME PartialInv, NEW p \in Partners, OnClosedOutboundStream(p)
    PROVE  PartialInv'
<1>0. PartialTyped /\ perPeer \in [Partners -> Nat]
  BY DEF PartialInv, PartialTyped
<1>1. CASE UNCHANGED <<group, total, perPeer>>
  <2>1. PartialTyped'
    BY <1>0, <1>1 DEF PartialTyped
  <2> QED BY <1>1, <2>1, SameInitiators
<1>2. CASE peerExtensions[p] = "partial"
  <2>1. /\ group' = [g \in Groups |-> [group[g] EXCEPT !.states = @ \ {p}]]
        /\ total' = total - perPeer[p]
        /\ perPeer' = [perPeer EXCEPT ![p] = 0]
    BY <1>2 DEF OnClosedOutboundStream
  <2>2. \A g \in Groups : /\ group'[g].ttl = group[g].ttl /\ group'[g].by = group[g].by
                          /\ group'[g].states = group[g].states \ {p}
                          /\ group'[g] \in GroupStates
    BY <1>0, <2>1 DEF PartialTyped, GroupStates
  <2>3. PartialTyped'
    <3>1. ASSUME NEW g \in Groups, group'[g].by = "nobody" PROVE group'[g] = NoGroup
      <4>1. group[g] = NoGroup
        BY <1>0, <2>2, <3>1 DEF PartialTyped
      <4>2. group'[g] \in GroupStates /\ NoGroup \in GroupStates
        BY <2>2 DEF NoGroup, GroupStates
      <4>3. group'[g].ttl = NoGroup.ttl /\ group'[g].by = NoGroup.by /\ group'[g].states = {}
        BY <2>2, <4>1 DEF NoGroup
      <4> QED BY <4>2, <4>3 DEF NoGroup, GroupStates
    <3>2. group' \in [Groups -> GroupStates]
      BY <2>1, <2>2
    <3>3. perPeer' \in [Partners -> Nat]
      BY <1>0, <2>1
    <3> QED BY <3>1, <3>2, <3>3 DEF PartialTyped
  <2> DEFINE d == [q \in Partners |-> IF q = p THEN perPeer[p] ELSE 0]
  <2>4. /\ d \in [Partners -> Int] /\ perPeer[p] \in Int
        /\ \A q \in Partners : d[q] = IF q = p THEN perPeer[p] ELSE 0
    BY <1>0
  <2>5. \A q \in Partners : perPeer'[q] = perPeer[q] - d[q]
    BY <1>0, <2>1
  <2>6. \A q \in Partners : perPeer'[q] \in 0 .. Cardinality(InitiatedBy(q)')
    <3> TAKE q \in Partners
    <3>1. InitiatedBy(q)' = {g \in Groups : group'[g].by = q}
      BY <2>3, InitiatedNext
    <3>2. InitiatedBy(q) = {g \in Groups : group[g].by = q} /\ Cardinality(InitiatedBy(q)) \in Nat
      BY <1>0, Initiated
    <3>3. {g \in Groups : group'[g].by = q} = {g \in Groups : group[g].by = q}
      BY <2>2
    <3>4. perPeer[q] \in 0 .. Cardinality(InitiatedBy(q))
      BY NoPhantomIs DEF PartialInv
    <3>5. perPeer'[q] \in {0, perPeer[q]}
      BY <1>0, <2>1
    <3>6. InitiatedBy(q)' = InitiatedBy(q)
      BY <3>1, <3>2, <3>3
    <3>7. Cardinality(InitiatedBy(q)') = Cardinality(InitiatedBy(q))
      BY <3>6
    <3> QED BY <3>2, <3>4, <3>5, <3>7
  <2> HIDE DEF d
  <2>7. Total(d, Partners) = perPeer[p]
    BY <2>4, PartialNumbers, TotalOfOne
  <2>8. total' = total - Total(d, Partners)
    BY <2>1, <2>7
  <2> QED BY <2>3, <2>4, <2>5, <2>6, <2>8, CounterStep
<1> QED BY <1>1, <1>2 DEF OnClosedOutboundStream

\* A new group of a peer is counted.
LEMMA NewGroupCounted ==
    ASSUME PartialInv, NEW p \in Partners, NEW g \in Groups, ~ Live(g), PartialTyped',
           \A h \in Groups : group'[h].by = IF h = g THEN p ELSE group[h].by,
           total' = total + 1, perPeer' = [perPeer EXCEPT ![p] = @ + 1]
    PROVE  PartialInv'
<1>0. PartialTyped /\ perPeer \in [Partners -> Nat]
  BY DEF PartialInv, PartialTyped
<1> DEFINE d == [q \in Partners |-> IF q = p THEN -1 ELSE 0]
<1>1. /\ d \in [Partners -> Int]
      /\ \A q \in Partners : d[q] = IF q = p THEN -1 ELSE 0
  OBVIOUS
<1>2. \A q \in Partners : perPeer'[q] = perPeer[q] - d[q]
  BY <1>0
<1>3. ASSUME NEW q \in Partners PROVE perPeer'[q] \in 0 .. Cardinality(InitiatedBy(q)')
  <2>1. InitiatedBy(q)' = {h \in Groups : group'[h].by = q}
    BY InitiatedNext
  <2>2. /\ InitiatedBy(q) = {h \in Groups : group[h].by = q} /\ IsFiniteSet(InitiatedBy(q))
        /\ Cardinality(InitiatedBy(q)) \in Nat
    BY <1>0, Initiated
  <2>3. perPeer[q] \in 0 .. Cardinality(InitiatedBy(q))
    BY NoPhantomIs DEF PartialInv
  <2>4. group[g].by = "nobody"
    BY <1>0, LiveBy
  <2>5. CASE q = p
    <3>1. InitiatedBy(q)' = InitiatedBy(q) \cup {g} /\ g \notin InitiatedBy(q)
      BY <2>1, <2>2, <2>4, <2>5, PartialNumbers
    <3>2. Cardinality(InitiatedBy(q)') = Cardinality(InitiatedBy(q)) + 1
      BY <2>2, <3>1, FS_AddElement
    <3>3. perPeer'[q] = perPeer[q] + 1
      BY <1>0, <2>5
    <3> QED BY <2>2, <2>3, <3>2, <3>3
  <2>6. CASE q # p
    <3>1. InitiatedBy(q)' = InitiatedBy(q)
      BY <2>1, <2>2, <2>4, <2>6, PartialNumbers
    <3>2. perPeer'[q] = perPeer[q]
      BY <1>0, <2>6
    <3> QED BY <2>3, <3>1, <3>2
  <2> QED BY <2>5, <2>6
<1> HIDE DEF d
<1>4. Total(d, Partners) = -1
  BY <1>1, PartialNumbers, TotalOfOne
<1>5. total \in Int
  BY <1>0, PartialNumbers, TotalType, NoPhantomIs DEF PartialInv, TotalIs
<1>6. total' = total - Total(d, Partners)
  BY <1>4, <1>5
<1> QED BY <1>1, <1>2, <1>3, <1>6, CounterStep

LEMMA HandleRPCInv ==
    ASSUME PartialInv, NEW p \in Partners, NEW g \in Groups, NEW records \in BOOLEAN,
           HandleRPC(p, g, records)
    PROVE  PartialInv'
<1>0. PartialTyped /\ perPeer \in [Partners -> Nat]
  BY DEF PartialInv, PartialTyped
<1> DEFINE was == IF Live(g) THEN group[g] ELSE [ttl |-> GroupTTL, by |-> p, states |-> {}]
           new == [was EXCEPT !.states = IF records THEN @ \cup {p} ELSE @]
<1>1. /\ was \in GroupStates /\ new \in GroupStates /\ new.by = was.by /\ was.by # "nobody"
      /\ was.by = IF Live(g) THEN group[g].by ELSE p
  BY <1>0, LiveBy, PartialNumbers DEF PartialTyped, GroupStates
<1>2. group' = [group EXCEPT ![g] = new]
  BY DEF HandleRPC
<1> HIDE DEF was, new
<1>3. \A h \in Groups : group'[h].by = IF h = g THEN was.by ELSE group[h].by
  BY <1>0, <1>1, <1>2 DEF PartialTyped
<1>4. perPeer' \in [Partners -> Nat]
  BY <1>0 DEF HandleRPC
<1>5. PartialTyped'
  BY <1>0, <1>1, <1>2, <1>4 DEF PartialTyped
<1>6. CASE Live(g)
  <2>1. \A h \in Groups : group'[h].by = group[h].by
    BY <1>1, <1>3, <1>6
  <2>2. UNCHANGED <<total, perPeer>>
    BY <1>6 DEF HandleRPC
  <2> QED BY <1>5, <2>1, <2>2, SameInitiators
<1>7. CASE ~ Live(g)
  <2>1. \A h \in Groups : group'[h].by = IF h = g THEN p ELSE group[h].by
    BY <1>1, <1>3, <1>7
  <2>2. total' = total + 1 /\ perPeer' = [perPeer EXCEPT ![p] = @ + 1]
    BY <1>7 DEF HandleRPC
  <2> QED BY <1>5, <1>7, <2>1, <2>2, NewGroupCounted
<1> QED BY <1>6, <1>7

LEMMA CountsStayNat ==
    ASSUME PartialTyped, NEW gs \in SUBSET Groups, Dec(gs)
    PROVE  perPeer' \in [Partners -> Nat]
<1> DEFINE n == [p \in Partners |-> Min({perPeer[p], Cardinality(gs \cap InitiatedBy(p))})]
<1>1. perPeer' = [p \in Partners |-> perPeer[p] - n[p]]
  BY DEF Dec
<1>2. ASSUME NEW p \in Partners PROVE perPeer[p] - n[p] \in Nat
  <2>1. Cardinality(gs \cap InitiatedBy(p)) \in Nat
    BY Initiated, FS_Intersection, FS_CardinalityType
  <2>2. perPeer[p] \in Nat
    BY DEF PartialTyped
  <2> DEFINE c == Cardinality(gs \cap InitiatedBy(p))
  <2>3. n[p] = Min({perPeer[p], c})
    OBVIOUS
  <2> HIDE DEF n, c
  <2>4. c \in Nat
    BY <2>1 DEF c
  <2> QED BY <2>2, <2>3, <2>4, MinOfTwo
<1> HIDE DEF n
<1> QED BY <1>1, <1>2

LEMMA PublishPartialInv ==
    ASSUME PartialInv, NEW g \in Groups, NEW ps \in SUBSET Partners, PublishPartial(g, ps)
    PROVE  PartialInv'
<1>0. PartialTyped
  BY DEF PartialInv
<1>1. Dec({g}) /\ {g} \in SUBSET Groups
  BY DEF PublishPartial
<1>2. perPeer' \in [Partners -> Nat]
  BY <1>0, <1>1, CountsStayNat
<1>3. group' = [group EXCEPT ![g] = [ttl |-> GroupTTL, by |-> "us", states |-> group[g].states \cup ps]]
  BY DEF PublishPartial
<1>4. PartialTyped'
  BY <1>0, <1>2, <1>3, PartialNumbers DEF PartialTyped, GroupStates
<1>5. \A p \in Partners, h \in Groups : group'[h].by = p <=> group[h].by = p /\ h \notin {g}
  BY <1>0, <1>3, PartialNumbers DEF PartialTyped
<1> QED BY <1>1, <1>4, <1>5, CountedDown

LEMMA HeartbeatInv ==
    ASSUME PartialInv, Heartbeat
    PROVE  PartialInv'
<1>0. PartialTyped
  BY DEF PartialInv
<1> DEFINE over == {g \in Groups : Live(g) /\ (group[g].ttl = 0 \/ group[g].states = {})}
<1>1. PICK gs \in SUBSET Groups : gs = over
  OBVIOUS
<1>2. /\ group' = [g \in Groups |-> IF g \in gs \/ ~ Live(g) THEN NoGroup
                                    ELSE [group[g] EXCEPT !.ttl = @ - 1]]
      /\ Dec(gs)
  BY <1>1 DEF Heartbeat
<1>3. perPeer' \in [Partners -> Nat]
  BY <1>0, <1>2, CountsStayNat
<1>4. ASSUME NEW g \in Groups
      PROVE  /\ group'[g] \in GroupStates
             /\ group'[g].by = IF g \in gs \/ ~ Live(g) THEN "nobody" ELSE group[g].by
             /\ group'[g].by = "nobody" => group'[g] = NoGroup
  <2>1. CASE g \in gs \/ ~ Live(g)
    BY <1>2, <2>1 DEF NoGroup, GroupStates
  <2>2. CASE ~ (g \in gs \/ ~ Live(g))
    <3>1. group[g].ttl \in Nat /\ group[g].ttl # 0 /\ group[g] \in GroupStates
      BY <1>0, <1>1, <2>2 DEF PartialTyped, GroupStates
    <3>2. group'[g] = [group[g] EXCEPT !.ttl = @ - 1] /\ group[g].by # "nobody"
      BY <1>0, <1>2, <2>2, LiveBy
    <3> QED BY <2>2, <3>1, <3>2 DEF GroupStates
  <2> QED BY <2>1, <2>2
<1>5. PartialTyped'
  <2>1. group' \in [Groups -> GroupStates]
    BY <1>2, <1>4
  <2> QED BY <1>3, <1>4, <2>1 DEF PartialTyped
<1>6. \A p \in Partners, g \in Groups : group'[g].by = p <=> group[g].by = p /\ g \notin gs
  BY <1>0, <1>4, LiveBy, PartialNumbers
<1> QED BY <1>2, <1>5, <1>6, CountedDown

LEMMA EmitGossipInv ==
    ASSUME PartialInv, NEW ps \in SUBSET Partners, EmitGossip(ps)
    PROVE  PartialInv'
<1>0. PartialTyped
  BY DEF PartialInv
<1>1. \A g \in Groups : /\ group'[g] \in GroupStates /\ group'[g].by = group[g].by
                        /\ group'[g].by = "nobody" => group'[g] = NoGroup
  BY <1>0 DEF PartialTyped, EmitGossip, GroupStates
<1>2. PartialTyped'
  BY <1>0, <1>1 DEF PartialTyped, EmitGossip
<1>3. UNCHANGED <<total, perPeer>>
  BY DEF EmitGossip
<1> QED BY <1>1, <1>2, <1>3, SameInitiators

LEMMA PartialQuiet ==
    ASSUME PartialInv, UNCHANGED <<group, total, perPeer>>
    PROVE  PartialInv'
<1>1. PartialTyped'
  BY DEF PartialInv, PartialTyped
<1> QED BY <1>1, SameInitiators

\* A peer is not refused for groups that are gone: whatever order groups are opened by
\* RPCs, taken over by PublishPartial, dropped by heartbeats and peers forgotten with
\* their streams, peerInitiatedGroupCounter never counts more groups of a peer than it
\* has, and its total is the sum of its counts, so that it cannot go below zero either.
THEOREM NoPhantomGroupsHolds == PartialSpec => []NoPhantomGroups
<1>1. PartialInit => PartialInv
  BY PartialStart
<1>2. PartialInv /\ [PartialNext]_partVars => PartialInv'
  <2> SUFFICES ASSUME PartialInv, [PartialNext]_partVars PROVE PartialInv'
    OBVIOUS
  <2>1. CASE UNCHANGED partVars
    BY <2>1, PartialQuiet DEF partVars
  <2>2. ASSUME NEW p \in Partners,
               \/ \E said \in {"none", "partial"} : HandleExtensions(p, said)
               \/ OnClosedIncomingStream(p) \/ OnNewOutboundStream(p)
        PROVE  PartialInv'
    BY <2>2, PartialQuiet DEF HandleExtensions, OnClosedIncomingStream, OnNewOutboundStream
  <2>3. ASSUME NEW p \in Partners, OnClosedOutboundStream(p) PROVE PartialInv'
    BY <2>3, OnClosedOutboundStreamInv
  <2>4. ASSUME NEW p \in Partners, NEW g \in Groups, NEW records \in BOOLEAN,
               HandleRPC(p, g, records)
        PROVE  PartialInv'
    BY <2>4, HandleRPCInv
  <2>5. ASSUME NEW ps \in SUBSET Partners, EmitGossip(ps) PROVE PartialInv'
    BY <2>5, EmitGossipInv
  <2>6. ASSUME NEW ps \in SUBSET Partners, NEW g \in Groups, PublishPartial(g, ps)
        PROVE  PartialInv'
    BY <2>6, PublishPartialInv
  <2>7. CASE Heartbeat
    BY <2>7, HeartbeatInv
  <2> QED BY <2>1, <2>2, <2>3, <2>4, <2>5, <2>6, <2>7 DEF PartialNext
<1>3. PartialInv => NoPhantomGroups
  BY DEF PartialInv
<1> QED BY <1>1, <1>2, <1>3, PTL DEF PartialSpec

-----------------------------------------------------------------------------
(* RPC.split.  FlattenSeq as a loop, and what it does with sequences that  *)
(* are put together.                                                       *)

\* One step of FlattenSeq
Joins(seqs, T) == [x \in (1 .. Len(seqs)) \X Seq(T) |-> x[2] \o seqs[x[1]]]

LEMMA JoinsType ==
    ASSUME NEW T, NEW seqs \in Seq(Seq(T))
    PROVE  /\ Len(seqs) \in Nat /\ \A i \in 1 .. Len(seqs) : seqs[i] \in Seq(T)
           /\ Joins(seqs, T) \in [(1 .. Len(seqs)) \X Seq(T) -> Seq(T)]
           /\ \A i \in 1 .. Len(seqs), a \in Seq(T) : Joins(seqs, T)[<<i, a>>] = a \o seqs[i]
<1>1. Len(seqs) \in Nat /\ \A i \in 1 .. Len(seqs) : seqs[i] \in Seq(T)
  OBVIOUS
<1>2. \A x \in (1 .. Len(seqs)) \X Seq(T) : x[2] \o seqs[x[1]] \in Seq(T)
  BY <1>1, ConcatProperties
<1> QED BY <1>1, <1>2 DEF Joins

LEMMA FlattenIs ==
    ASSUME NEW T, NEW seqs \in Seq(Seq(T))
    PROVE  \E g : IsLoop(g, Len(seqs), Seq(T), <<>>, Joins(seqs, T)) /\ FlattenSeq(seqs) = g[Len(seqs)]
<1> DEFINE n == Len(seqs)
<1>0. n \in Nat /\ <<>> \in Seq(T)
  OBVIOUS
<1>1. PICK g : IsLoop(g, n, Seq(T), <<>>, Joins(seqs, T))
  BY <1>0, JoinsType, LoopExists
<1>2. /\ g \in [0 .. n -> Seq(T)] /\ g[0] = <<>>
      /\ \A i \in 1 .. n : g[i] = g[i - 1] \o seqs[i]
  <2>1. g \in [0 .. n -> Seq(T)] /\ g[0] = <<>>
    BY <1>1 DEF IsLoop
  <2>2. ASSUME NEW i \in 1 .. n PROVE g[i] = g[i - 1] \o seqs[i]
    <3>0. i - 1 \in 0 .. n
      BY <1>0
    <3>1. g[i] = Joins(seqs, T)[<<i, g[i - 1]>>] /\ g[i - 1] \in Seq(T)
      BY <1>1, <2>1, <3>0 DEF IsLoop
    <3> QED BY <3>1, JoinsType
  <2> QED BY <2>1, <2>2
<1>3. CASE n = 0
  BY <1>1, <1>2, <1>3 DEF FlattenSeq
<1>4. CASE n # 0
  <2> DEFINE Rec(f) == f = [i \in 1 .. n |-> IF i = 1 THEN seqs[i] ELSE f[i - 1] \o seqs[i]]
             F  == CHOOSE f : Rec(f)
             f0 == [i \in 1 .. n |-> g[i]]
  <2>1. Rec(f0)
    <3>1. ASSUME NEW i \in 1 .. n
          PROVE  g[i] = IF i = 1 THEN seqs[i] ELSE f0[i - 1] \o seqs[i]
      <4>1. CASE i = 1
        <5>a. i - 1 = 0
          BY <4>1
        <5>0. g[i] = g[i - 1] \o seqs[i]
          BY <1>2
        <5>1. g[i] = <<>> \o seqs[i] /\ seqs[i] \in Seq(T)
          BY <1>2, <5>0, <5>a, JoinsType
        <5> QED BY <4>1, <5>1, ConcatEmptySeq
      <4>2. CASE i # 1
        <5>1. i - 1 \in 1 .. n
          BY <1>0, <4>2
        <5> QED BY <1>2, <4>2, <5>1
      <4> QED BY <4>1, <4>2
    <3> HIDE DEF n
    <3> QED BY <3>1
  <2>2. Rec(F)
    <3> HIDE DEF Rec, f0
    <3> QED BY <2>1
  <2>3. FlattenSeq(seqs) = F[n]
    BY <1>4 DEF FlattenSeq
  <2> HIDE DEF F
  <2> DEFINE h == [i \in 0 .. n |-> IF i = 0 THEN <<>> ELSE F[i]]
  <2>4. DOMAIN h = 0 .. n /\ h = [i \in 0 .. n |-> h[i]] /\ h[0] = <<>>
    BY <1>0
  <2>5. ASSUME NEW i \in 1 .. n, h[i - 1] \in Seq(T) PROVE h[i] = Joins(seqs, T)[<<i, h[i - 1]>>]
    <3>1. F[i] = IF i = 1 THEN seqs[i] ELSE F[i - 1] \o seqs[i]
      BY <2>2
    <3>2. h[i] = F[i]
      BY <1>0
    <3>3. F[i] = h[i - 1] \o seqs[i]
      <4>1. CASE i = 1
        <5>1. h[i - 1] = <<>> /\ seqs[i] \in Seq(T)
          BY <1>0, <4>1, JoinsType
        <5> QED BY <3>1, <4>1, <5>1, ConcatEmptySeq
      <4>2. CASE i # 1
        <5>1. h[i - 1] = F[i - 1]
          BY <1>0, <4>2
        <5> QED BY <3>1, <4>2, <5>1
      <4> QED BY <4>1, <4>2
    <3> HIDE DEF h
    <3> QED BY <2>5, <3>2, <3>3, JoinsType
  <2>6. h[n] = F[n]
    BY <1>0, <1>4
  <2> HIDE DEF h, Rec
  <2>7. IsLoop(h, n, Seq(T), <<>>, Joins(seqs, T))
    BY <1>0, <2>4, <2>5, JoinsType, LoopIs
  <2> QED BY <2>3, <2>6, <2>7
<1> QED BY <1>3, <1>4

LEMMA FlattenEmpty == FlattenSeq(<<>>) = <<>>
  BY DEF FlattenSeq

LEMMA FlattenType ==
    ASSUME NEW T, NEW seqs \in Seq(Seq(T))
    PROVE  FlattenSeq(seqs) \in Seq(T)
<1>1. PICK g : IsLoop(g, Len(seqs), Seq(T), <<>>, Joins(seqs, T)) /\ FlattenSeq(seqs) = g[Len(seqs)]
  BY FlattenIs
<1> QED BY <1>1 DEF IsLoop

LEMMA FlattenAppend ==
    ASSUME NEW T, NEW seqs \in Seq(Seq(T)), NEW s \in Seq(T)
    PROVE  FlattenSeq(Append(seqs, s)) = FlattenSeq(seqs) \o s
<1> DEFINE n == Len(seqs)
           more == Append(seqs, s)
<1>0. n \in Nat /\ more \in Seq(Seq(T)) /\ Len(more) = n + 1 /\ more[n + 1] = s
      /\ \A i \in 1 .. n : more[i] = seqs[i]
  OBVIOUS
<1>1. PICK g : IsLoop(g, n, Seq(T), <<>>, Joins(seqs, T)) /\ FlattenSeq(seqs) = g[n]
  BY FlattenIs
<1> HIDE DEF more
<1>2. PICK h : IsLoop(h, Len(more), Seq(T), <<>>, Joins(more, T)) /\ FlattenSeq(more) = h[Len(more)]
  BY <1>0, FlattenIs
<1>3. ASSUME NEW i \in 1 .. n, NEW x \in Seq(T)
      PROVE  Joins(more, T)[<<i, x>>] = Joins(seqs, T)[<<i, x>>]
  <2>1. i \in 1 .. Len(more)
    BY <1>0
  <2>2. Joins(more, T)[<<i, x>>] = x \o more[i]
    BY <1>0, <2>1, JoinsType
  <2>3. Joins(seqs, T)[<<i, x>>] = x \o seqs[i]
    BY JoinsType
  <2> QED BY <1>0, <2>2, <2>3
<1> HIDE DEF n
<1>4. IsLoop(h, n + 1, Seq(T), <<>>, Joins(more, T)) /\ FlattenSeq(more) = h[n + 1]
  BY <1>0, <1>2
<1>5. h[n] = g[n]
  <2>1. n + 1 \in Nat /\ n <= n + 1 /\ n \in 0 .. n
    BY <1>0
  <2> DEFINE st == Joins(seqs, T)
             st2 == Joins(more, T)
             S == Seq(T)
  <2>a. /\ IsLoop(g, n, S, <<>>, st) /\ IsLoop(h, n + 1, S, <<>>, st2)
        /\ \A i \in 1 .. n, x \in S : st2[<<i, x>>] = st[<<i, x>>]
    BY <1>1, <1>3, <1>4
  <2> HIDE DEF st, st2, S
  <2>b. PICK m \in Nat : m = n + 1
    BY <2>1
  <2>c. n <= m /\ IsLoop(h, m, S, <<>>, st2)
    BY <2>1, <2>a, <2>b
  <2>2. \A i \in 0 .. n : h[i] = g[i]
    BY <1>0, <2>a, <2>c, LoopsAgree
  <2> QED BY <2>1, <2>2
<1>6. h[n + 1] = Joins(more, T)[<<n + 1, h[n]>>] /\ h[n] \in Seq(T)
  <2>1. n + 1 \in 1 .. n + 1 /\ n + 1 - 1 = n /\ n \in 0 .. n + 1
    BY <1>0
  <2> QED BY <1>4, <2>1 DEF IsLoop
<1>7. h[n + 1] = h[n] \o more[n + 1]
  <2>1. n + 1 \in 1 .. Len(more)
    BY <1>0
  <2> QED BY <1>0, <1>6, <2>1, JoinsType
<1> QED BY <1>0, <1>1, <1>4, <1>5, <1>7 DEF more

Associates(u, v, w) == (u \o v) \o w = u \o (v \o w)

LEMMA JoinAssociative ==
    ASSUME NEW T, NEW u \in Seq(T), NEW v \in Seq(T), NEW w \in Seq(T)
    PROVE  Associates(u, v, w)
<1>1. PICK x \in Seq(T) : x = u \o v
  BY ConcatProperties
<1>2. PICK y \in Seq(T) : y = v \o w
  BY ConcatProperties
<1>3. x \o w \in Seq(T) /\ u \o y \in Seq(T)
  BY ConcatProperties
<1>4. Len(x \o w) = Len(u) + Len(v) + Len(w) /\ Len(u \o y) = Len(u) + Len(v) + Len(w)
  BY <1>1, <1>2
<1>5. \A i \in 1 .. Len(u) + Len(v) + Len(w) : (x \o w)[i] = (u \o y)[i]
  BY <1>1, <1>2
<1>6. x \o w = u \o y
  BY <1>3, <1>4, <1>5, SeqEqual
<1> QED BY <1>1, <1>2, <1>6 DEF Associates

\* The parts of the messages come before the others: their contents do too.
LEMMA FlattenConcat ==
    ASSUME NEW T, NEW a \in Seq(Seq(T)), NEW b \in Seq(Seq(T))
    PROVE  FlattenSeq(a \o b) = FlattenSeq(a) \o FlattenSeq(b)
<1> DEFINE Pre(k) == SubSeq(b, 1, k)
           G == {k \in Nat : k <= Len(b) => FlattenSeq(a \o Pre(k)) = FlattenSeq(a) \o FlattenSeq(Pre(k))}
<1>1. 0 \in G
  <2>1. Pre(0) = <<>> /\ a \o <<>> = a
    BY ConcatEmptySeq
  <2>2. FlattenSeq(a) \o <<>> = FlattenSeq(a)
    BY FlattenType, ConcatEmptySeq
  <2> HIDE DEF Pre
  <2> QED BY <2>1, <2>2, FlattenEmpty
<1>2. ASSUME NEW k \in Nat, k \in G PROVE k + 1 \in G
  <2> SUFFICES ASSUME k + 1 <= Len(b)
               PROVE  FlattenSeq(a \o Pre(k + 1)) = FlattenSeq(a) \o FlattenSeq(Pre(k + 1))
    OBVIOUS
  <2>1. Pre(k) \in Seq(Seq(T)) /\ b[k + 1] \in Seq(T) /\ Pre(k + 1) = Append(Pre(k), b[k + 1])
    BY PrefixGrows
  <2>2. FlattenSeq(a \o Pre(k)) = FlattenSeq(a) \o FlattenSeq(Pre(k))
    BY <1>2
  <2> HIDE DEF Pre
  <2>3. PICK c \in Seq(Seq(T)) : c = Pre(k)
    BY <2>1
  <2>4. PICK x \in Seq(T) : x = b[k + 1]
    BY <2>1
  <2>5. a \o Append(c, x) = Append(a \o c, x) /\ a \o c \in Seq(Seq(T))
    OBVIOUS
  <2>6. FlattenSeq(Append(a \o c, x)) = FlattenSeq(a \o c) \o x
    BY <2>5, FlattenAppend
  <2>7. FlattenSeq(Append(c, x)) = FlattenSeq(c) \o x
    BY FlattenAppend
  <2>8. (FlattenSeq(a) \o FlattenSeq(c)) \o x = FlattenSeq(a) \o (FlattenSeq(c) \o x)
    <3>1. FlattenSeq(a) \in Seq(T) /\ FlattenSeq(c) \in Seq(T)
      BY FlattenType
    <3>2. Associates(FlattenSeq(a), FlattenSeq(c), x)
      BY <3>1, JoinAssociative
    <3> QED BY <3>2 DEF Associates
  <2> QED BY <2>1, <2>2, <2>3, <2>4, <2>5, <2>6, <2>7, <2>8
<1>3. \A k \in Nat : k \in G
  <2> HIDE DEF G
  <2> QED BY <1>1, <1>2, NatsIn
<1>4. Len(b) \in Nat /\ Pre(Len(b)) = b
  BY SubSeqFull
<1> HIDE DEF Pre
<1>5. Len(b) \in G
  BY <1>3, <1>4
<1> QED BY <1>4, <1>5

\* Parts without messages, or without entries, add none.
LEMMA FlattenEmpties ==
    ASSUME NEW T, NEW b \in Seq(Seq(T)), \A i \in 1 .. Len(b) : b[i] = <<>>
    PROVE  FlattenSeq(b) = <<>>
<1> DEFINE Pre(k) == SubSeq(b, 1, k)
           G == {k \in Nat : k <= Len(b) => FlattenSeq(Pre(k)) = <<>>}
<1>1. 0 \in G
  <2>1. Pre(0) = <<>>
    OBVIOUS
  <2> HIDE DEF Pre
  <2> QED BY <2>1, FlattenEmpty
<1>2. ASSUME NEW k \in Nat, k \in G PROVE k + 1 \in G
  <2> SUFFICES ASSUME k + 1 <= Len(b) PROVE FlattenSeq(Pre(k + 1)) = <<>>
    OBVIOUS
  <2>1. Pre(k) \in Seq(Seq(T)) /\ b[k + 1] \in Seq(T) /\ Pre(k + 1) = Append(Pre(k), b[k + 1])
    BY PrefixGrows
  <2>2. FlattenSeq(Pre(k)) = <<>> /\ b[k + 1] = <<>>
    BY <1>2
  <2> HIDE DEF Pre
  <2>3. FlattenSeq(Pre(k + 1)) = FlattenSeq(Pre(k)) \o b[k + 1]
    BY <2>1, FlattenAppend
  <2>4. <<>> \o <<>> = <<>>
    OBVIOUS
  <2> QED BY <2>2, <2>3, <2>4
<1>3. \A k \in Nat : k \in G
  <2> HIDE DEF G
  <2> QED BY <1>1, <1>2, NatsIn
<1>4. Len(b) \in Nat /\ Pre(Len(b)) = b
  BY SubSeqFull
<1> HIDE DEF Pre
<1>5. Len(b) \in G
  BY <1>3, <1>4
<1> QED BY <1>4, <1>5

-----------------------------------------------------------------------------
(* Sizes: TotalSize as a loop.                                             *)

Adds(sizes) == [x \in (1 .. Len(sizes)) \X Nat |-> x[2] + sizes[x[1]]]

LEMMA AddsType ==
    ASSUME NEW sizes \in Seq(Nat)
    PROVE  /\ Len(sizes) \in Nat /\ Adds(sizes) \in [(1 .. Len(sizes)) \X Nat -> Nat]
           /\ \A i \in 1 .. Len(sizes), a \in Nat : Adds(sizes)[<<i, a>>] = a + sizes[i]
<1>1. \A x \in (1 .. Len(sizes)) \X Nat : x[2] + sizes[x[1]] \in Nat
  OBVIOUS
<1> QED BY <1>1 DEF Adds

LEMMA SizesAre ==
    ASSUME NEW sizes \in Seq(Nat)
    PROVE  \E g : IsLoop(g, Len(sizes), Nat, 0, Adds(sizes)) /\ TotalSize(sizes) = g[Len(sizes)]
<1> DEFINE n == Len(sizes)
           Rec(f) == f = [i \in 0 .. n |-> IF i = 0 THEN 0 ELSE f[i - 1] + sizes[i]]
           F == CHOOSE f : Rec(f)
<1>0. n \in Nat /\ 0 \in Nat
  OBVIOUS
<1>1. PICK g : IsLoop(g, n, Nat, 0, Adds(sizes))
  BY <1>0, AddsType, LoopExists
<1>2. Rec(g)
  <2>1. g \in [0 .. n -> Nat] /\ g[0] = 0
    BY <1>1 DEF IsLoop
  <2>2. ASSUME NEW i \in 1 .. n PROVE g[i] = g[i - 1] + sizes[i]
    <3>0. i - 1 \in 0 .. n
      BY <1>0
    <3>1. g[i] = Adds(sizes)[<<i, g[i - 1]>>] /\ g[i - 1] \in Nat
      BY <1>1, <2>1, <3>0 DEF IsLoop
    <3> QED BY <3>1, AddsType
  <2>3. \A i \in 0 .. n : g[i] = IF i = 0 THEN 0 ELSE g[i - 1] + sizes[i]
    BY <1>0, <2>1, <2>2
  <2> HIDE DEF n
  <2> QED BY <2>1, <2>3
<1>3. Rec(F)
  <2> HIDE DEF Rec
  <2> QED BY <1>2
<1>4. TotalSize(sizes) = F[n]
  BY DEF TotalSize
<1> HIDE DEF F
<1>5. DOMAIN F = 0 .. n /\ F = [i \in 0 .. n |-> F[i]] /\ F[0] = 0
  BY <1>0, <1>3
<1>6. ASSUME NEW i \in 1 .. n, F[i - 1] \in Nat PROVE F[i] = Adds(sizes)[<<i, F[i - 1]>>]
  <2>1. F[i] = F[i - 1] + sizes[i]
    BY <1>0, <1>3
  <2> QED BY <1>6, <2>1, AddsType
<1> HIDE DEF Rec
<1>7. IsLoop(F, n, Nat, 0, Adds(sizes))
  BY <1>0, <1>5, <1>6, AddsType, LoopIs
<1> QED BY <1>4, <1>7

LEMMA SizeType ==
    ASSUME NEW sizes \in Seq(Nat)
    PROVE  TotalSize(sizes) \in Nat
<1>1. PICK g : IsLoop(g, Len(sizes), Nat, 0, Adds(sizes)) /\ TotalSize(sizes) = g[Len(sizes)]
  BY SizesAre
<1> QED BY <1>1 DEF IsLoop

LEMMA SizeOfNone == TotalSize(<<>>) = 0
<1> DEFINE s == <<>>
<1>1. s \in Seq(Nat) /\ Len(s) = 0
  OBVIOUS
<1> HIDE DEF s
<1>2. PICK g : IsLoop(g, Len(s), Nat, 0, Adds(s)) /\ TotalSize(s) = g[Len(s)]
  BY <1>1, SizesAre
<1>3. TotalSize(s) = 0
  BY <1>1, <1>2 DEF IsLoop
<1> QED BY <1>3 DEF s

LEMMA SizeOfAppend ==
    ASSUME NEW sizes \in Seq(Nat), NEW s \in Nat
    PROVE  TotalSize(Append(sizes, s)) = TotalSize(sizes) + s
<1> DEFINE n == Len(sizes)
           more == Append(sizes, s)
<1>0. n \in Nat /\ more \in Seq(Nat) /\ Len(more) = n + 1 /\ more[n + 1] = s
      /\ \A i \in 1 .. n : more[i] = sizes[i]
  OBVIOUS
<1>1. PICK g : IsLoop(g, n, Nat, 0, Adds(sizes)) /\ TotalSize(sizes) = g[n]
  BY SizesAre
<1> HIDE DEF more
<1>2. PICK h : IsLoop(h, Len(more), Nat, 0, Adds(more)) /\ TotalSize(more) = h[Len(more)]
  BY <1>0, SizesAre
<1>3. ASSUME NEW i \in 1 .. n, NEW x \in Nat PROVE Adds(more)[<<i, x>>] = Adds(sizes)[<<i, x>>]
  <2>1. i \in 1 .. Len(more)
    BY <1>0
  <2>2. Adds(more)[<<i, x>>] = x + more[i]
    BY <1>0, <2>1, AddsType
  <2>3. Adds(sizes)[<<i, x>>] = x + sizes[i]
    BY AddsType
  <2> QED BY <1>0, <2>2, <2>3
<1> HIDE DEF n
<1>4. PICK m \in Nat : m = n + 1
  BY <1>0
<1>5. IsLoop(h, m, Nat, 0, Adds(more)) /\ TotalSize(more) = h[m] /\ n <= m
  BY <1>0, <1>2, <1>4
<1>6. h[n] = g[n]
  <2> DEFINE st == Adds(sizes)
             st2 == Adds(more)
             S == Nat
  <2>1. \A i \in 1 .. n, x \in S : st2[<<i, x>>] = st[<<i, x>>]
    BY <1>3
  <2>2. IsLoop(g, n, S, 0, st) /\ IsLoop(h, m, S, 0, st2)
    BY <1>1, <1>5
  <2> HIDE DEF st, st2, S
  <2>3. \A i \in 0 .. n : h[i] = g[i]
    BY <1>0, <1>5, <2>1, <2>2, LoopsAgree
  <2> QED BY <1>0, <2>3
<1>7. h[m] = Adds(more)[<<m, h[n]>>] /\ h[n] \in Nat
  <2>1. m \in 1 .. m /\ m - 1 = n /\ n \in 0 .. m
    BY <1>0, <1>4
  <2> QED BY <1>5, <2>1 DEF IsLoop
<1>8. h[m] = h[n] + more[m]
  <2>1. m \in 1 .. Len(more)
    BY <1>0, <1>4
  <2> QED BY <1>0, <1>7, <2>1, AddsType
<1> QED BY <1>0, <1>1, <1>4, <1>5, <1>6, <1>8 DEF more

-----------------------------------------------------------------------------
(* split: the loop over the messages.                                      *)

LEMMA Limits == /\ MaxRPCSize \in Nat /\ MaxRPCSize >= 2 /\ MaxControlSize \in Nat /\ MaxControlSize >= 2
                /\ Sizes \subseteq Nat /\ \A s \in Sizes : s > 0
  BY SplitAssumption

\* What a part with messages may be
Fits(m) == TotalSize(m) <= MaxRPCSize \/ Len(m) = 1

MessageAccs == [out : Seq(Seq(Nat)), next : Seq(Nat), total : Nat]

\* The parts yielded and the next one hold the first i messages.
Packed(publish, i) ==
    {acc \in MessageAccs :
        /\ FlattenSeq(acc.out) \o acc.next = SubSeq(publish, 1, i)
        /\ acc.total = TotalSize(acc.next)
        /\ acc.total = 0 => acc.next = <<>>
        /\ Fits(acc.next) /\ \A j \in 1 .. Len(acc.out) : Fits(acc.out[j])}

LEMMA PackedIf ==
    ASSUME NEW publish, NEW i, NEW out \in Seq(Seq(Nat)), NEW next \in Seq(Nat), NEW sum \in Nat,
           FlattenSeq(out) \o next = SubSeq(publish, 1, i), sum = TotalSize(next),
           sum = 0 => next = <<>>, Fits(next), \A j \in 1 .. Len(out) : Fits(out[j])
    PROVE  [out |-> out, next |-> next, total |-> sum] \in Packed(publish, i)
<1>1. PICK acc : acc = [out |-> out, next |-> next, total |-> sum]
  OBVIOUS
<1>2. acc \in MessageAccs /\ acc.out = out /\ acc.next = next /\ acc.total = sum
  BY <1>1 DEF MessageAccs
<1>3. acc \in Packed(publish, i)
  BY <1>2 DEF Packed
<1> QED BY <1>1, <1>3

LEMMA AppendJoins ==
    ASSUME NEW T, NEW a \in Seq(T), NEW b \in Seq(T), NEW x \in T
    PROVE  a \o Append(b, x) = Append(a \o b, x)
  OBVIOUS

LEMMA SizeOfOne ==
    ASSUME NEW s \in Nat
    PROVE  TotalSize(<<s>>) = s
<1>1. <<s>> = Append(<<>>, s) /\ <<>> \in Seq(Nat)
  OBVIOUS
<1>2. TotalSize(Append(<<>>, s)) = TotalSize(<<>>) + s
  BY <1>1, SizeOfAppend
<1> QED BY <1>1, <1>2, SizeOfNone

\* A message goes to the end of the next part, or starts another one.
LEMMA AddMessageKeeps ==
    ASSUME NEW publish \in Seq(Sizes), NEW i \in 1 .. Len(publish), NEW acc \in Packed(publish, i - 1)
    PROVE  AddMessage(acc, publish[i]) \in Packed(publish, i)
<1> DEFINE out == acc.out
           next == acc.next
           size == publish[i]
<1>1. /\ out \in Seq(Seq(Nat)) /\ next \in Seq(Nat) /\ acc.total \in Nat
      /\ FlattenSeq(out) \o next = SubSeq(publish, 1, i - 1)
      /\ acc.total = TotalSize(next) /\ Fits(next) /\ \A j \in 1 .. Len(out) : Fits(out[j])
  BY DEF Packed, MessageAccs
<1>2. size \in Nat /\ size > 0 /\ publish \in Seq(Nat)
  <2>1. publish[i] \in Sizes
    OBVIOUS
  <2>2. publish \in Seq(Nat)
    BY Limits, SeqMonotonic
  <2> QED BY <2>1, <2>2, Limits
<1>3. SubSeq(publish, 1, i) = Append(SubSeq(publish, 1, i - 1), size) /\ SubSeq(publish, 1, i - 1) \in Seq(Nat)
  <2>1. PICK k \in Nat : k = i - 1
    OBVIOUS
  <2>2. k + 1 <= Len(publish) /\ k + 1 = i
    BY <2>1
  <2> QED BY <1>2, <2>1, <2>2, PrefixGrows
<1>4. FlattenSeq(out) \in Seq(Nat)
  BY <1>1, FlattenType
<1> HIDE DEF out, next, size
<1>5. CASE acc.total + size > MaxRPCSize
  <2> DEFINE more == Append(out, next)
  <2>1. AddMessage(acc, size) = [out |-> more, next |-> <<size>>, total |-> size]
    BY <1>5 DEF AddMessage, out, next
  <2>2. more \in Seq(Seq(Nat)) /\ <<size>> \in Seq(Nat)
    BY <1>1, <1>2
  <2>3. FlattenSeq(more) = SubSeq(publish, 1, i - 1)
    BY <1>1, FlattenAppend
  <2>4. SubSeq(publish, 1, i - 1) \o <<size>> = SubSeq(publish, 1, i)
    BY <1>2, <1>3, AppendIsConcat
  <2>5. \A j \in 1 .. Len(more) : Fits(more[j])
    BY <1>1
  <2>6. TotalSize(<<size>>) = size /\ Fits(<<size>>)
    BY <1>2, SizeOfOne DEF Fits
  <2> HIDE DEF more
  <2>7. FlattenSeq(more) \o <<size>> = SubSeq(publish, 1, i)
    BY <2>3, <2>4
  <2>8. size # 0
    BY <1>2
  <2>9. [out |-> more, next |-> <<size>>, total |-> size] \in Packed(publish, i)
    BY <1>2, <2>2, <2>5, <2>6, <2>7, <2>8, PackedIf
  <2> QED BY <2>1, <2>9 DEF size
<1>6. CASE ~ (acc.total + size > MaxRPCSize)
  <2> DEFINE more == Append(next, size)
  <2>1. AddMessage(acc, size) = [out |-> out, next |-> more, total |-> acc.total + size]
    BY <1>6 DEF AddMessage, out, next
  <2>2. more \in Seq(Nat)
    BY <1>1, <1>2
  <2>3. FlattenSeq(out) \o more = SubSeq(publish, 1, i)
    <3>1. FlattenSeq(out) \o more = Append(FlattenSeq(out) \o next, size)
      <4>1. PICK a \in Seq(Nat) : a = FlattenSeq(out)
        BY <1>4
      <4>2. a \o Append(next, size) = Append(a \o next, size)
        <5>1. next \in Seq(Nat) /\ size \in Nat
          BY <1>1, <1>2
        <5> HIDE DEF more
        <5> QED BY <5>1, AppendJoins
      <4> QED BY <4>1, <4>2
    <3> HIDE DEF more
    <3> QED BY <1>1, <1>3, <3>1
  <2>4. TotalSize(more) = acc.total + size
    BY <1>1, <1>2, SizeOfAppend
  <2>5. Fits(more)
    BY <1>1, <1>2, <1>6, <2>4, Limits DEF Fits
  <2> HIDE DEF more
  <2>6. acc.total + size \in Nat /\ acc.total + size # 0
    BY <1>1, <1>2
  <2>7. PICK sum \in Nat : sum = acc.total + size
    BY <2>6
  <2>8. [out |-> out, next |-> more, total |-> sum] \in Packed(publish, i)
    BY <1>1, <2>2, <2>3, <2>4, <2>5, <2>6, <2>7, PackedIf
  <2> QED BY <2>1, <2>7, <2>8 DEF size
<1> QED BY <1>5, <1>6

LEMMA PublishLoop ==
    ASSUME NEW publish \in Seq(Sizes)
    PROVE  \E all \in Packed(publish, Len(publish)) :
             SplitPublish(publish) = IF all.total > 0 THEN Append(all.out, all.next) ELSE all.out
<1> DEFINE n    == Len(publish)
           base == [out |-> <<>>, next |-> <<>>, total |-> 0]
           step == [x \in (1 .. n) \X MessageAccs |-> AddMessage(x[2], publish[x[1]])]
           Rec(f) == f = [i \in 0 .. n |-> IF i = 0 THEN base ELSE AddMessage(f[i - 1], publish[i])]
           F == CHOOSE f : Rec(f)
           T == [i \in 0 .. n |-> Packed(publish, i)]
<1>0. n \in Nat /\ base \in MessageAccs
  BY DEF MessageAccs
<1>1. ASSUME NEW x \in (1 .. n) \X MessageAccs
      PROVE  AddMessage(x[2], publish[x[1]]) \in MessageAccs
  <2>1. PICK acc \in MessageAccs : acc = x[2]
    OBVIOUS
  <2>2. PICK size \in Nat : size = publish[x[1]]
    <3>1. x[1] \in 1 .. Len(publish) /\ publish \in [1 .. Len(publish) -> Sizes]
      OBVIOUS
    <3>2. publish[x[1]] \in Sizes
      BY <3>1
    <3> QED BY <3>2, Limits
  <2>3. AddMessage(acc, size) \in MessageAccs
    BY DEF AddMessage, MessageAccs
  <2> QED BY <2>1, <2>2, <2>3
<1>2. step \in [(1 .. n) \X MessageAccs -> MessageAccs]
  BY <1>1
<1>3. PICK g : IsLoop(g, n, MessageAccs, base, step)
  <2> HIDE DEF n, step, base
  <2> QED BY <1>0, <1>2, LoopExists
<1>4. Rec(g)
  <2>1. g \in [0 .. n -> MessageAccs] /\ g[0] = base
    BY <1>3 DEF IsLoop
  <2>2. ASSUME NEW i \in 1 .. n PROVE g[i] = AddMessage(g[i - 1], publish[i])
    <3>0. i - 1 \in 0 .. n
      BY <1>0
    <3>1. g[i - 1] \in MessageAccs /\ g[i] = step[<<i, g[i - 1]>>]
      <4> HIDE DEF step
      <4> QED BY <1>3, <2>1, <3>0 DEF IsLoop
    <3>2. <<i, g[i - 1]>> \in (1 .. n) \X MessageAccs
      BY <3>1
    <3> QED BY <3>1, <3>2
  <2>3. \A i \in 0 .. n : g[i] = IF i = 0 THEN base ELSE AddMessage(g[i - 1], publish[i])
    BY <1>0, <2>1, <2>2
  <2> HIDE DEF n, base
  <2> QED BY <2>1, <2>3
<1>5. Rec(F)
  <2> HIDE DEF Rec
  <2> QED BY <1>4
<1>6. SplitPublish(publish) = IF F[n].total > 0 THEN Append(F[n].out, F[n].next) ELSE F[n].out
  BY DEF SplitPublish
<1> HIDE DEF F
<1>7. /\ F[0] = base
      /\ \A i \in 1 .. n : F[i] = AddMessage(F[i - 1], publish[i])
  <2>1. \A i \in 0 .. n : F[i] = IF i = 0 THEN base ELSE AddMessage(F[i - 1], publish[i])
    BY <1>5
  <2>2. 0 \in 0 .. n /\ \A i \in 1 .. n : i \in 0 .. n /\ i # 0
    BY <1>0
  <2> HIDE DEF Rec, n, base
  <2> QED BY <2>1, <2>2
<1>8. F[0] \in Packed(publish, 0)
  <2>1. FlattenSeq(<<>>) \o <<>> = SubSeq(publish, 1, 0)
    <3>1. SubSeq(publish, 1, 0) = <<>>
      OBVIOUS
    <3>2. <<>> \o <<>> = <<>>
      OBVIOUS
    <3> QED BY <3>1, <3>2, FlattenEmpty
  <2>2. TotalSize(<<>>) = 0 /\ Fits(<<>>)
    BY SizeOfNone, Limits DEF Fits
  <2> QED BY <1>0, <1>7, <2>1, <2>2 DEF Packed
<1>9. ASSUME NEW i \in 1 .. n, F[i - 1] \in Packed(publish, i - 1)
      PROVE  F[i] \in Packed(publish, i)
  BY <1>7, <1>9, AddMessageKeeps
<1>10. F[n] \in T[n]
  <2>1. F[0] \in T[0]
    BY <1>0, <1>8
  <2>2. ASSUME NEW i \in 1 .. n, F[i - 1] \in T[i - 1] PROVE F[i] \in T[i]
    <3>1. i - 1 \in 0 .. n /\ i \in 0 .. n
      BY <1>0
    <3> QED BY <1>9, <2>2, <3>1
  <2> HIDE DEF T, n, Rec, base
  <2> QED BY <1>0, <2>1, <2>2, LoopEndsAt
<1>11. F[n] \in Packed(publish, n)
  BY <1>0, <1>10
<1> QED BY <1>6, <1>11

\* The messages are in the parts, once and in order, and the parts fit.
LEMMA PublishSplit ==
    ASSUME NEW publish \in Seq(Sizes)
    PROVE  /\ SplitPublish(publish) \in Seq(Seq(Nat))
           /\ FlattenSeq(SplitPublish(publish)) = publish
           /\ \A j \in 1 .. Len(SplitPublish(publish)) : Fits(SplitPublish(publish)[j])
<1>1. PICK all \in Packed(publish, Len(publish)) :
             SplitPublish(publish) = IF all.total > 0 THEN Append(all.out, all.next) ELSE all.out
  BY PublishLoop
<1> DEFINE out == all.out
           next == all.next
           res == SplitPublish(publish)
<1>2. /\ out \in Seq(Seq(Nat)) /\ next \in Seq(Nat) /\ all.total \in Nat
      /\ FlattenSeq(out) \o next = SubSeq(publish, 1, Len(publish))
      /\ all.total = 0 => next = <<>>
      /\ Fits(next) /\ \A j \in 1 .. Len(out) : Fits(out[j])
  BY DEF Packed, MessageAccs
<1>3. SubSeq(publish, 1, Len(publish)) = publish
  BY SubSeqFull
<1>4. res = IF all.total > 0 THEN Append(out, next) ELSE out
  BY <1>1
<1>5. FlattenSeq(out) \in Seq(Nat)
  BY <1>2, FlattenType
<1> HIDE DEF out, next, res
<1>6. CASE all.total > 0
  <2>1. FlattenSeq(res) = publish
    BY <1>2, <1>3, <1>4, <1>6, FlattenAppend
  <2>2. res \in Seq(Seq(Nat)) /\ \A j \in 1 .. Len(res) : Fits(res[j])
    BY <1>2, <1>4, <1>6
  <2> QED BY <2>1, <2>2 DEF res
<1>7. CASE ~ (all.total > 0)
  <2>1. next = <<>> /\ res = out
    BY <1>2, <1>4, <1>7
  <2>2. FlattenSeq(out) \o <<>> = FlattenSeq(out)
    BY <1>5, ConcatEmptySeq
  <2>3. FlattenSeq(res) = publish
    BY <1>2, <1>3, <2>1, <2>2
  <2> QED BY <1>2, <2>1, <2>3 DEF res
<1> QED BY <1>6, <1>7

-----------------------------------------------------------------------------
(* split: the loop over the other entries.                                 *)

Rests == [control : BOOLEAN, lists : Seq(Lists), entries : Seq(Entries)]

EntrySizes(entries) == [i \in DOMAIN entries |-> entries[i].size]
EntriesOf(rests) == [i \in DOMAIN rests |-> rests[i].entries]

\* What a part without messages may be
RestFits(rest) == ~ Exceeds(rest) \/ Len(rest.entries) = 1

RestAccs == [out : Seq(Rests), next : Rests]

\* The parts yielded and the next one hold these entries.
Holding(done) ==
    {acc \in RestAccs :
        /\ FlattenSeq(EntriesOf(acc.out)) \o acc.next.entries = done
        /\ RestFits(acc.next) /\ \A j \in 1 .. Len(acc.out) : RestFits(acc.out[j])}

LEMMA SizePositive ==
    ASSUME NEW sizes \in Seq(Nat), sizes # <<>>, \A i \in 1 .. Len(sizes) : sizes[i] > 0
    PROVE  TotalSize(sizes) > 0
<1>1. PICK k \in Nat : k + 1 = Len(sizes)
  <2>1. Len(sizes) \in Nat /\ Len(sizes) # 0
    BY EmptySeq
  <2> QED BY <2>1
<1>2. SubSeq(sizes, 1, k) \in Seq(Nat) /\ sizes[k + 1] \in Nat
      /\ SubSeq(sizes, 1, k + 1) = Append(SubSeq(sizes, 1, k), sizes[k + 1])
  BY <1>1, PrefixGrows
<1>3. SubSeq(sizes, 1, k + 1) = sizes
  BY <1>1, SubSeqFull
<1>4. PICK front \in Seq(Nat), last \in Nat : sizes = Append(front, last) /\ last = sizes[k + 1]
  BY <1>2, <1>3
<1>5. last > 0
  BY <1>1, <1>4
<1>6. TotalSize(Append(front, last)) = TotalSize(front) + last /\ TotalSize(front) \in Nat
  BY SizeOfAppend, SizeType
<1>7. TotalSize(sizes) = TotalSize(Append(front, last))
  BY <1>4
<1>8. TotalSize(front) + last > 0
  BY <1>5, <1>6
<1> QED BY <1>6, <1>7, <1>8

LEMMA EntrySizesType ==
    ASSUME NEW entries \in Seq(Entries)
    PROVE  /\ EntrySizes(entries) \in Seq(Nat) /\ Len(EntrySizes(entries)) = Len(entries)
           /\ \A i \in 1 .. Len(entries) : EntrySizes(entries)[i] > 0
<1>1. \A i \in 1 .. Len(entries) : entries[i].size \in Nat /\ entries[i].size > 0
  <2>1. \A e \in Entries : e.size \in Nat /\ e.size > 0
    BY Limits DEF Entries
  <2>2. \A i \in 1 .. Len(entries) : entries[i] \in Entries
    OBVIOUS
  <2> QED BY <2>1, <2>2
<1> QED BY <1>1 DEF EntrySizes

\* Nothing of size 0 is left out at the end, and an empty frame is small.
LEMMA RestSizeIs ==
    ASSUME NEW rest \in Rests
    PROVE  /\ RestSize(rest) \in Nat
           /\ RestSize(rest) = 0 => rest.entries = <<>>
           /\ rest.entries = <<>> /\ Len(rest.lists) <= 1 => RestSize(rest) <= 2
<1>1. PICK sizes \in Seq(Nat) : sizes = EntrySizes(rest.entries)
  BY EntrySizesType DEF Rests
<1>2. rest.entries \in Seq(Entries)
  BY DEF Rests
<1>3. RestSize(rest) = TotalSize(sizes) + (IF rest.control THEN 1 ELSE 0) + Len(rest.lists)
  BY <1>1 DEF RestSize, EntrySizes
<1>7. Len(rest.lists) \in Nat
  <2>1. rest.lists \in Seq(Lists)
    BY DEF Rests
  <2> QED BY <2>1
<1>4. TotalSize(sizes) \in Nat
  BY SizeType
<1>5. rest.entries # <<>> => TotalSize(sizes) > 0
  <2> SUFFICES ASSUME rest.entries # <<>> PROVE TotalSize(sizes) > 0
    OBVIOUS
  <2>1. Len(sizes) = Len(rest.entries) /\ Len(sizes) # 0
    BY <1>1, <1>2, EntrySizesType, EmptySeq
  <2>2. \A i \in 1 .. Len(sizes) : sizes[i] > 0
    BY <1>1, <1>2, <2>1, EntrySizesType
  <2>3. sizes # <<>>
    BY <2>1
  <2> QED BY <2>2, <2>3, SizePositive
<1>6. rest.entries = <<>> => TotalSize(sizes) = 0
  <2> SUFFICES ASSUME rest.entries = <<>> PROVE TotalSize(sizes) = 0
    OBVIOUS
  <2>1. Len(sizes) = 0
    BY <1>1, <1>2, EntrySizesType
  <2>2. sizes = <<>>
    BY <2>1, EmptySeq
  <2> QED BY <2>2, SizeOfNone
<1>8. PICK n \in Nat : n = Len(rest.lists)
  BY <1>7
<1>9. PICK k \in Nat : k = TotalSize(sizes)
  BY <1>4
<1>10. RestSize(rest) = k + (IF rest.control THEN 1 ELSE 0) + n
  BY <1>3, <1>8, <1>9
<1> QED BY <1>5, <1>6, <1>8, <1>9, <1>10

\* A frame without entries fits.
LEMMA FrameFits ==
    ASSUME NEW rest \in Rests, rest.entries = <<>>, Len(rest.lists) <= 1
    PROVE  ~ Exceeds(rest) /\ RestFits(rest)
<1>1. RestSize(rest) \in Nat /\ RestSize(rest) <= 2
  BY RestSizeIs
<1>2. ~ Exceeds(rest)
  BY <1>1, Limits DEF Exceeds
<1> QED BY <1>2 DEF RestFits

LEMMA EntriesOfType ==
    ASSUME NEW rests \in Seq(Rests)
    PROVE  EntriesOf(rests) \in Seq(Seq(Entries)) /\ Len(EntriesOf(rests)) = Len(rests)
<1>1. \A i \in 1 .. Len(rests) : rests[i].entries \in Seq(Entries)
  <2>1. \A i \in 1 .. Len(rests) : rests[i] \in Rests
    OBVIOUS
  <2> QED BY <2>1 DEF Rests
<1> QED BY <1>1 DEF EntriesOf

LEMMA EntriesOfAppend ==
    ASSUME NEW rests \in Seq(Rests), NEW rest \in Rests
    PROVE  EntriesOf(Append(rests, rest)) = Append(EntriesOf(rests), rest.entries)
<1>1. PICK more \in Seq(Rests) : more = Append(rests, rest)
  <2>1. Append(rests, rest) \in Seq(Rests)
    BY AppendProperties
  <2> QED BY <2>1
<1>2. PICK old \in Seq(Seq(Entries)) : old = EntriesOf(rests)
  BY EntriesOfType
<1>3. PICK new \in Seq(Seq(Entries)) : new = EntriesOf(more)
  BY EntriesOfType
<1>4. PICK es \in Seq(Entries) : es = rest.entries
  BY DEF Rests
<1>5. Len(old) = Len(rests) /\ Len(new) = Len(more) /\ Len(more) = Len(rests) + 1
  <2>1. Len(more) = Len(rests) + 1
    BY <1>1, AppendProperties
  <2> QED BY <1>2, <1>3, <2>1, EntriesOfType
<1>6. \A i \in 1 .. Len(rests) + 1 : new[i] = Append(old, es)[i]
  <2>1. \A i \in 1 .. Len(rests) : new[i] = old[i]
    BY <1>1, <1>2, <1>3, <1>5 DEF EntriesOf
  <2>2. new[Len(rests) + 1] = es
    BY <1>1, <1>3, <1>4, <1>5 DEF EntriesOf
  <2> QED BY <1>5, <2>1, <2>2
<1>7. new = Append(old, es)
  <2>1. Append(old, es) \in Seq(Seq(Entries)) /\ Len(Append(old, es)) = Len(new)
    BY <1>5, AppendProperties
  <2>2. \A i \in 1 .. Len(new) : new[i] = Append(old, es)[i]
    BY <1>5, <1>6
  <2> QED BY <2>1, <2>2, SeqEqual
<1> QED BY <1>1, <1>2, <1>3, <1>4, <1>7

LEMMA HoldingIf ==
    ASSUME NEW done, NEW out \in Seq(Rests), NEW next \in Rests,
           FlattenSeq(EntriesOf(out)) \o next.entries = done,
           RestFits(next), \A j \in 1 .. Len(out) : RestFits(out[j])
    PROVE  [out |-> out, next |-> next] \in Holding(done)
<1>1. PICK acc : acc = [out |-> out, next |-> next]
  OBVIOUS
<1>2. acc \in RestAccs /\ acc.out = out /\ acc.next = next
  BY <1>1 DEF RestAccs
<1>3. acc \in Holding(done)
  BY <1>2 DEF Holding
<1> QED BY <1>1, <1>3

\* Whether or not the extended RPC fits, what was to be added comes after what there was.
LEMMA PackKeeps ==
    ASSUME NEW done, NEW acc \in Holding(done), NEW added \in Seq(Entries),
           NEW extended \in Rests, NEW alone \in Rests,
           RestFits(alone), alone.entries = added, extended.entries = acc.next.entries \o added
    PROVE  Pack(acc, extended, alone) \in Holding(done \o added)
<1>1. PICK out \in Seq(Rests) : out = acc.out
  BY DEF Holding, RestAccs
<1>2. PICK next \in Rests : next = acc.next
  BY DEF Holding, RestAccs
<1>3. PICK es \in Seq(Entries) : es = next.entries
  BY DEF Rests
<1>4. PICK old \in Seq(Seq(Entries)) : old = EntriesOf(out)
  BY EntriesOfType
<1>5. PICK flat \in Seq(Entries) : flat = FlattenSeq(old)
  BY FlattenType
<1>6. flat \o es = done /\ RestFits(next) /\ \A j \in 1 .. Len(out) : RestFits(out[j])
  BY <1>1, <1>2, <1>3, <1>4, <1>5 DEF Holding
<1>7. CASE Exceeds(extended)
  <2>1. PICK more \in Seq(Rests) : more = Append(out, next)
    <3>1. Append(out, next) \in Seq(Rests)
      BY AppendProperties
    <3> QED BY <3>1
  <2>2. Pack(acc, extended, alone) = [out |-> more, next |-> alone]
    BY <1>1, <1>2, <1>7, <2>1 DEF Pack
  <2>3. FlattenSeq(EntriesOf(more)) = done
    <3>1. EntriesOf(more) = Append(old, es)
      BY <1>3, <1>4, <2>1, EntriesOfAppend
    <3>2. FlattenSeq(Append(old, es)) = flat \o es
      BY <1>5, FlattenAppend
    <3> QED BY <1>6, <3>1, <3>2
  <2>4. \A j \in 1 .. Len(more) : RestFits(more[j])
    BY <1>6, <2>1
  <2>5. FlattenSeq(EntriesOf(more)) \o alone.entries = done \o added
    BY <2>3
  <2> QED BY <2>2, <2>4, <2>5, HoldingIf
<1>8. CASE ~ Exceeds(extended)
  <2>1. Pack(acc, extended, alone) = [out |-> out, next |-> extended]
    BY <1>1, <1>8 DEF Pack
  <2>2. Associates(flat, es, added)
    BY JoinAssociative
  <2>3. flat \o extended.entries = done \o added
    BY <1>2, <1>3, <1>6, <2>2 DEF Associates
  <2>4. RestFits(extended)
    BY <1>8 DEF RestFits
  <2>5. FlattenSeq(EntriesOf(out)) \o extended.entries = done \o added
    BY <1>4, <1>5, <2>3
  <2> QED BY <1>6, <2>1, <2>4, <2>5, HoldingIf
<1> QED BY <1>7, <1>8

LEMMA RestType ==
    ASSUME NEW control \in BOOLEAN, NEW lists \in Seq(Lists), NEW entries \in Seq(Entries)
    PROVE  /\ Rest(control, lists, entries) \in Rests
           /\ Rest(control, lists, entries).entries = entries
           /\ Rest(control, lists, entries).lists = lists
  BY DEF Rest, Rests

LEMMA ListsOfType ==
    ASSUME NEW entries \in Seq(Entries)
    PROVE  ListsOf(entries) \in Seq(Lists)
<1> DEFINE F(i) == IF Begins(entries, i) THEN <<entries[i].kind>> ELSE <<>>
           f == [i \in DOMAIN entries |-> F(i)]
<1>1. ASSUME NEW i \in 1 .. Len(entries) PROVE F(i) \in Seq(Lists)
  <2>1. CASE Begins(entries, i)
    <3>1. entries[i].kind \in Lists
      BY <2>1 DEF Begins, InList
    <3>2. PICK k \in Lists : k = entries[i].kind
      BY <3>1
    <3>3. <<k>> \in Seq(Lists)
      OBVIOUS
    <3> QED BY <2>1, <3>2, <3>3
  <2>2. CASE ~ Begins(entries, i)
    BY <2>2
  <2> QED BY <2>1, <2>2
<1> HIDE DEF F
<1>2. f \in [1 .. Len(entries) -> Seq(Lists)] /\ Len(entries) \in Nat
  BY <1>1
<1>3. f \in Seq(Seq(Lists))
  <2> HIDE DEF f
  <2> QED BY <1>2
<1>4. ListsOf(entries) = FlattenSeq(f)
  BY DEF ListsOf, F
<1> HIDE DEF f
<1> QED BY <1>3, <1>4, FlattenType

LEMMA WholeType ==
    ASSUME NEW entries \in Seq(Entries)
    PROVE  Whole(entries) \in Rests /\ Whole(entries).entries = entries
<1>1. PICK c \in BOOLEAN : c = \E i \in DOMAIN entries : IsControl(entries[i])
  OBVIOUS
<1>2. PICK l \in Seq(Lists) : l = ListsOf(entries)
  BY ListsOfType
<1>3. Whole(entries) = Rest(c, l, entries)
  BY <1>1, <1>2, Zenon DEF Whole
<1> QED BY <1>3, RestType

\* Opening the control message or a list of it adds no entry.
LEMMA OpensKeep ==
    ASSUME NEW done \in Seq(Entries), NEW acc \in Holding(done), NEW e \in Entries
    PROVE  OpenControl(acc, e) \in Holding(done) /\ OpenList(acc, e) \in Holding(done)
<1> DEFINE none == <<>>
<1>1. PICK next \in Rests : next = acc.next
  BY DEF Holding, RestAccs
<1>2. none \in Seq(Entries) /\ done \o none = done /\ next.entries \in Seq(Entries)
      /\ next.entries \o none = next.entries
  <2>1. next.entries \in Seq(Entries)
    BY DEF Rests
  <2> QED BY <2>1, ConcatEmptySeq
<1>3. ASSUME NEW c \in BOOLEAN, NEW l \in Seq(Lists), NEW l2 \in Seq(Lists), Len(l2) <= 1
      PROVE  Pack(acc, Rest(c, l, next.entries), Rest(TRUE, l2, <<>>)) \in Holding(done)
  <2>1. PICK extended \in Rests : extended = Rest(c, l, next.entries) /\ extended.entries = next.entries
    BY <1>2, RestType
  <2>2. PICK alone \in Rests : /\ alone = Rest(TRUE, l2, <<>>) /\ alone.entries = <<>>
                               /\ alone.lists = l2
    <3>1. TRUE \in BOOLEAN /\ <<>> \in Seq(Entries)
      OBVIOUS
    <3> QED BY <3>1, RestType
  <2>3. RestFits(alone)
    BY <1>3, <2>2, FrameFits
  <2>4. alone.entries = none /\ extended.entries = acc.next.entries \o none
    BY <1>1, <1>2, <2>1, <2>2
  <2> HIDE DEF none
  <2>5. Pack(acc, extended, alone) \in Holding(done \o none)
    BY <1>2, <2>3, <2>4, PackKeeps
  <2> QED BY <1>2, <2>1, <2>2, <2>5
<1>4. next.control \in BOOLEAN /\ next.lists \in Seq(Lists)
  BY DEF Rests
<1>5. OpenControl(acc, e) \in Holding(done)
  <2>1. PICK l0 \in Seq(Lists) : l0 = <<>> /\ Len(l0) <= 1
    <3>1. <<>> \in Seq(Lists) /\ Len(<<>>) <= 1
      OBVIOUS
    <3> QED BY <3>1
  <2>2. Pack(acc, Rest(TRUE, next.lists, next.entries), Rest(TRUE, l0, <<>>)) \in Holding(done)
    BY <1>3, <1>4, <2>1
  <2> QED BY <1>1, <2>1, <2>2 DEF OpenControl
<1>6. OpenList(acc, e) \in Holding(done)
  <2>1. CASE ~ InList(e)
    BY <2>1 DEF OpenList
  <2>2. CASE InList(e)
    <3>1. PICK k \in Lists : k = e.kind
      BY <2>2 DEF InList
    <3>2. PICK l1 \in Seq(Lists) : l1 = <<k>> /\ Len(l1) <= 1
      <4>1. <<k>> \in Seq(Lists) /\ Len(<<k>>) <= 1
        OBVIOUS
      <4> QED BY <4>1
    <3>3. PICK more \in Seq(Lists) : more = Append(next.lists, k)
      <4>1. Append(next.lists, k) \in Seq(Lists)
        BY <1>4, AppendProperties
      <4> QED BY <4>1
    <3>4. Pack(acc, Rest(next.control, more, next.entries), Rest(TRUE, l1, <<>>)) \in Holding(done)
      BY <1>3, <1>4, <3>2
    <3>5. \/ OpenList(acc, e) = acc
          \/ OpenList(acc, e) = Pack(acc, Rest(next.control, more, next.entries), Rest(TRUE, l1, <<>>))
      BY <1>1, <3>1, <3>2, <3>3 DEF OpenList
    <3> QED BY <3>4, <3>5
  <2> QED BY <2>1, <2>2
<1> QED BY <1>5, <1>6

LEMMA AddEntryKeeps ==
    ASSUME NEW done \in Seq(Entries), NEW acc \in Holding(done), NEW e \in Entries
    PROVE  AddEntry(acc, e) \in Holding(done \o <<e>>)
<1>1. PICK next \in Rests : next = acc.next
  BY DEF Holding, RestAccs
<1>2. PICK added \in Seq(Entries) : added = <<e>>
  <2>1. <<e>> \in Seq(Entries)
    OBVIOUS
  <2> QED BY <2>1
<1>3. next.entries \in Seq(Entries) /\ next.control \in BOOLEAN /\ next.lists \in Seq(Lists)
  BY DEF Rests
<1>4. PICK longer \in Seq(Entries) : longer = Append(next.entries, e) /\ longer = next.entries \o added
  <2>1. Append(next.entries, e) = next.entries \o added /\ Append(next.entries, e) \in Seq(Entries)
    BY <1>2, <1>3, AppendIsConcat
  <2> QED BY <2>1
<1>5. PICK extended \in Rests : /\ extended = Rest(next.control, next.lists, Append(next.entries, e))
                                /\ extended.entries = next.entries \o added
  <2>1. PICK ls \in Seq(Lists), control \in BOOLEAN : ls = next.lists /\ control = next.control
    BY <1>3
  <2>2. Rest(control, ls, longer) \in Rests /\ Rest(control, ls, longer).entries = longer
    BY RestType
  <2> QED BY <1>4, <2>1, <2>2
<1>6. PICK alone \in Rests : alone = Whole(added) /\ alone.entries = added
  BY WholeType
<1>7. RestFits(alone)
  BY <1>2, <1>6 DEF RestFits
<1>8. Pack(acc, extended, alone) \in Holding(done \o added)
  BY <1>1, <1>5, <1>6, <1>7, PackKeeps
<1> QED BY <1>1, <1>2, <1>5, <1>6, <1>8 DEF AddEntry

\* What the loop of split does with an entry
TakeEntry(acc, e) == AddEntry(OpenList(OpenControl(acc, e), e), e)

LEMMA TakeEntryKeeps ==
    ASSUME NEW entries \in Seq(Entries), NEW i \in 1 .. Len(entries),
           NEW acc \in Holding(SubSeq(entries, 1, i - 1))
    PROVE  TakeEntry(acc, entries[i]) \in Holding(SubSeq(entries, 1, i))
<1>1. PICK k \in Nat : k = i - 1
  OBVIOUS
<1>2. k + 1 <= Len(entries) /\ k + 1 = i
  BY <1>1
<1>3. SubSeq(entries, 1, k) \in Seq(Entries) /\ entries[k + 1] \in Entries
      /\ SubSeq(entries, 1, k + 1) = Append(SubSeq(entries, 1, k), entries[k + 1])
  BY <1>2, PrefixGrows
<1>4. PICK done \in Seq(Entries) : done = SubSeq(entries, 1, i - 1)
  BY <1>1, <1>3
<1>5. PICK e \in Entries : e = entries[i]
  BY <1>2, <1>3
<1>6. SubSeq(entries, 1, i) = done \o <<e>>
  <2>1. SubSeq(entries, 1, i) = Append(done, e)
    BY <1>1, <1>2, <1>3, <1>4, <1>5
  <2> QED BY <2>1, AppendIsConcat
<1>7. PICK acc1 \in Holding(done) : acc1 = OpenControl(acc, e)
  BY <1>4, OpensKeep
<1>8. PICK acc2 \in Holding(done) : acc2 = OpenList(acc1, e)
  BY OpensKeep
<1>9. AddEntry(acc2, e) \in Holding(done \o <<e>>)
  BY AddEntryKeeps
<1> QED BY <1>5, <1>6, <1>7, <1>8, <1>9 DEF TakeEntry

LEMMA PackType ==
    ASSUME NEW acc \in RestAccs, NEW extended \in Rests, NEW alone \in Rests
    PROVE  Pack(acc, extended, alone) \in RestAccs
<1>1. PICK out \in Seq(Rests) : out = acc.out
  BY DEF RestAccs
<1>2. PICK next \in Rests : next = acc.next
  BY DEF RestAccs
<1>3. PICK more \in Seq(Rests) : more = Append(out, next)
  <2>1. Append(out, next) \in Seq(Rests)
    BY AppendProperties
  <2> QED BY <2>1
<1>4. \/ Pack(acc, extended, alone) = [out |-> more, next |-> alone]
      \/ Pack(acc, extended, alone) = [out |-> out, next |-> extended]
  BY <1>1, <1>2, <1>3 DEF Pack
<1> QED BY <1>4 DEF RestAccs

LEMMA TakeEntryType ==
    ASSUME NEW acc \in RestAccs, NEW e \in Entries
    PROVE  TakeEntry(acc, e) \in RestAccs
<1>0. /\ Rest(TRUE, <<>>, <<>>) \in Rests /\ Whole(<<e>>) \in Rests
      /\ \A k \in Lists : Rest(TRUE, <<k>>, <<>>) \in Rests
  <2>1. /\ <<>> \in Seq(Entries) /\ <<e>> \in Seq(Entries) /\ TRUE \in BOOLEAN
        /\ <<>> \in Seq(Lists) /\ \A k \in Lists : <<k>> \in Seq(Lists)
    OBVIOUS
  <2> QED BY <2>1, RestType, WholeType
<1>1. ASSUME NEW a \in RestAccs
      PROVE  /\ a.next.control \in BOOLEAN /\ a.next.lists \in Seq(Lists)
             /\ a.next.entries \in Seq(Entries) /\ Append(a.next.entries, e) \in Seq(Entries)
  <2>1. PICK es \in Seq(Entries) : es = a.next.entries
    BY DEF RestAccs, Rests
  <2>2. Append(es, e) \in Seq(Entries)
    BY AppendProperties
  <2> QED BY <2>1, <2>2 DEF RestAccs, Rests
<1>2. ASSUME NEW a \in RestAccs PROVE OpenControl(a, e) \in RestAccs
  <2>1. Rest(TRUE, a.next.lists, a.next.entries) \in Rests
    BY <1>1, RestType
  <2> QED BY <1>0, <2>1, PackType DEF OpenControl
<1>3. ASSUME NEW a \in RestAccs PROVE OpenList(a, e) \in RestAccs
  <2>1. CASE ~ InList(e)
    BY <2>1 DEF OpenList
  <2>2. CASE InList(e)
    <3>1. PICK k \in Lists : k = e.kind
      BY <2>2 DEF InList
    <3>2. PICK ls \in Seq(Lists) : ls = a.next.lists
      BY <1>1
    <3>3. Append(ls, k) \in Seq(Lists)
      BY AppendProperties
    <3>4. PICK alone \in Rests : alone = Rest(TRUE, <<k>>, <<>>)
      BY <1>0
    <3>5. PICK extended \in Rests : extended = Rest(a.next.control, Append(ls, k), a.next.entries)
      BY <1>1, <3>3, RestType
    <3>6. OpenList(a, e) = a \/ OpenList(a, e) = Pack(a, extended, alone)
      BY <3>1, <3>2, <3>4, <3>5 DEF OpenList
    <3> QED BY <3>6, PackType
  <2> QED BY <2>1, <2>2
<1>4. ASSUME NEW a \in RestAccs PROVE AddEntry(a, e) \in RestAccs
  <2>1. Rest(a.next.control, a.next.lists, Append(a.next.entries, e)) \in Rests
    BY <1>1, RestType
  <2> QED BY <1>0, <2>1, PackType DEF AddEntry
<1> QED BY <1>2, <1>3, <1>4 DEF TakeEntry

LEMMA NothingHeld == [out |-> <<>>, next |-> Nothing] \in Holding(<<>>) /\ Nothing \in Rests
                     /\ Nothing.entries = <<>> /\ ~ Exceeds(Nothing)
<1>1. <<>> \in Seq(Entries) /\ FALSE \in BOOLEAN /\ <<>> \in Seq(Lists) /\ Len(<<>>) <= 1
  OBVIOUS
<1>2. Nothing \in Rests /\ Nothing.entries = <<>> /\ Nothing.lists = <<>>
  BY <1>1, RestType DEF Nothing
<1>3. ~ Exceeds(Nothing) /\ RestFits(Nothing)
  BY <1>1, <1>2, FrameFits
<1>4. PICK out \in Seq(Rests) : out = <<>>
  <2>1. <<>> \in Seq(Rests)
    OBVIOUS
  <2> QED BY <2>1
<1>5. EntriesOf(out) = <<>>
  <2>1. Len(EntriesOf(out)) = 0 /\ EntriesOf(out) \in Seq(Seq(Entries))
    BY <1>4, EntriesOfType
  <2> QED BY <2>1, EmptySeq
<1>6. FlattenSeq(EntriesOf(out)) \o Nothing.entries = <<>>
  <2>1. <<>> \o <<>> = <<>>
    OBVIOUS
  <2> QED BY <1>2, <1>5, <2>1, FlattenEmpty
<1>7. \A j \in 1 .. Len(out) : RestFits(out[j])
  BY <1>4
<1>8. [out |-> out, next |-> Nothing] \in Holding(<<>>)
  BY <1>2, <1>3, <1>6, <1>7, HoldingIf
<1> QED BY <1>2, <1>3, <1>4, <1>8

LEMMA RestLoop ==
    ASSUME NEW entries \in Seq(Entries)
    PROVE  \E all \in Holding(entries) :
             SplitRest(entries) = IF RestSize(all.next) > 0 THEN Append(all.out, all.next) ELSE all.out
<1> DEFINE n    == Len(entries)
           base == [out |-> <<>>, next |-> Nothing]
           step == [x \in (1 .. n) \X RestAccs |-> TakeEntry(x[2], entries[x[1]])]
           Rec(f) == f = [i \in 0 .. n |-> IF i = 0 THEN base ELSE TakeEntry(f[i - 1], entries[i])]
           F == CHOOSE f : Rec(f)
           T == [i \in 0 .. n |-> Holding(SubSeq(entries, 1, i))]
<1>0. n \in Nat /\ base \in RestAccs
  BY NothingHeld DEF Holding
<1>1. ASSUME NEW x \in (1 .. n) \X RestAccs
      PROVE  TakeEntry(x[2], entries[x[1]]) \in RestAccs
  <2>1. x[2] \in RestAccs /\ x[1] \in 1 .. Len(entries)
    OBVIOUS
  <2>2. entries[x[1]] \in Entries
    BY <2>1
  <2> QED BY <2>1, <2>2, TakeEntryType
<1>2. step \in [(1 .. n) \X RestAccs -> RestAccs]
  BY <1>1
<1>3. PICK g : IsLoop(g, n, RestAccs, base, step)
  <2> HIDE DEF n, step, base
  <2> QED BY <1>0, <1>2, LoopExists
<1>4. Rec(g)
  <2>1. g \in [0 .. n -> RestAccs] /\ g[0] = base
    BY <1>3 DEF IsLoop
  <2>2. ASSUME NEW i \in 1 .. n PROVE g[i] = TakeEntry(g[i - 1], entries[i])
    <3>0. i - 1 \in 0 .. n
      BY <1>0
    <3>1. g[i - 1] \in RestAccs /\ g[i] = step[<<i, g[i - 1]>>]
      <4> HIDE DEF step
      <4> QED BY <1>3, <2>1, <3>0 DEF IsLoop
    <3>2. <<i, g[i - 1]>> \in (1 .. n) \X RestAccs
      BY <3>1
    <3> QED BY <3>1, <3>2
  <2>3. \A i \in 0 .. n : g[i] = IF i = 0 THEN base ELSE TakeEntry(g[i - 1], entries[i])
    BY <1>0, <2>1, <2>2
  <2> HIDE DEF n, base
  <2> QED BY <2>1, <2>3
<1>5. Rec(F)
  <2> HIDE DEF Rec
  <2> QED BY <1>4
<1>6. SplitRest(entries) = IF RestSize(F[n].next) > 0 THEN Append(F[n].out, F[n].next) ELSE F[n].out
  BY DEF SplitRest, TakeEntry
<1> HIDE DEF F
<1>7. /\ F[0] = base
      /\ \A i \in 1 .. n : F[i] = TakeEntry(F[i - 1], entries[i])
  <2>1. \A i \in 0 .. n : F[i] = IF i = 0 THEN base ELSE TakeEntry(F[i - 1], entries[i])
    BY <1>5
  <2>2. 0 \in 0 .. n /\ \A i \in 1 .. n : i \in 0 .. n /\ i # 0
    BY <1>0
  <2> HIDE DEF Rec, n, base
  <2> QED BY <2>1, <2>2
<1>8. F[0] \in Holding(SubSeq(entries, 1, 0))
  <2>1. SubSeq(entries, 1, 0) = <<>>
    OBVIOUS
  <2> QED BY <1>7, <2>1, NothingHeld
<1>9. ASSUME NEW i \in 1 .. n, F[i - 1] \in Holding(SubSeq(entries, 1, i - 1))
      PROVE  F[i] \in Holding(SubSeq(entries, 1, i))
  BY <1>7, <1>9, TakeEntryKeeps
<1>10. F[n] \in T[n]
  <2>1. F[0] \in T[0]
    BY <1>0, <1>8
  <2>2. ASSUME NEW i \in 1 .. n, F[i - 1] \in T[i - 1] PROVE F[i] \in T[i]
    <3>1. i - 1 \in 0 .. n /\ i \in 0 .. n
      BY <1>0
    <3> QED BY <1>9, <2>2, <3>1
  <2> HIDE DEF T, n, Rec, base
  <2> QED BY <1>0, <2>1, <2>2, LoopEndsAt
<1>11. F[n] \in Holding(SubSeq(entries, 1, n))
  BY <1>0, <1>10
<1>12. SubSeq(entries, 1, n) = entries
  BY SubSeqFull
<1> QED BY <1>6, <1>11, <1>12

\* The slow path: the entries are in the parts, once and in order, and the parts fit.
LEMMA RestSplit ==
    ASSUME NEW entries \in Seq(Entries)
    PROVE  /\ SplitRest(entries) \in Seq(Rests)
           /\ FlattenSeq(EntriesOf(SplitRest(entries))) = entries
           /\ \A j \in 1 .. Len(SplitRest(entries)) : RestFits(SplitRest(entries)[j])
<1>1. PICK all \in Holding(entries) :
             SplitRest(entries) = IF RestSize(all.next) > 0 THEN Append(all.out, all.next) ELSE all.out
  BY RestLoop
<1>2. PICK out \in Seq(Rests) : out = all.out
  BY DEF Holding, RestAccs
<1>3. PICK next \in Rests : next = all.next
  BY DEF Holding, RestAccs
<1>4. PICK res : res = SplitRest(entries)
  OBVIOUS
<1>5. /\ FlattenSeq(EntriesOf(out)) \o next.entries = entries
      /\ RestFits(next) /\ \A j \in 1 .. Len(out) : RestFits(out[j])
  BY <1>2, <1>3 DEF Holding
<1>6. res = IF RestSize(next) > 0 THEN Append(out, next) ELSE out
  BY <1>1, <1>2, <1>3, <1>4
<1>7. PICK old \in Seq(Seq(Entries)) : old = EntriesOf(out)
  BY EntriesOfType
<1>8. PICK es \in Seq(Entries) : es = next.entries
  BY DEF Rests
<1>9. CASE RestSize(next) > 0
  <2>1. EntriesOf(res) = Append(old, es)
    BY <1>6, <1>7, <1>8, <1>9, EntriesOfAppend
  <2>2. FlattenSeq(Append(old, es)) = FlattenSeq(old) \o es
    BY FlattenAppend
  <2>3. FlattenSeq(EntriesOf(res)) = entries
    BY <1>5, <1>7, <1>8, <2>1, <2>2
  <2>4. res \in Seq(Rests)
    BY <1>6, <1>9, AppendProperties
  <2>5. \A j \in 1 .. Len(res) : RestFits(res[j])
    BY <1>5, <1>6, <1>9
  <2> QED BY <1>4, <2>3, <2>4, <2>5
<1>10. CASE ~ (RestSize(next) > 0)
  <2>1. next.entries = <<>> /\ res = out
    BY <1>6, <1>10, RestSizeIs
  <2>2. FlattenSeq(old) \o <<>> = FlattenSeq(old)
    BY FlattenType, ConcatEmptySeq
  <2>3. FlattenSeq(EntriesOf(res)) = entries
    BY <1>5, <1>7, <2>1, <2>2
  <2> QED BY <1>4, <1>5, <2>1, <2>3
<1> QED BY <1>9, <1>10

\* The fast path too, which has one part if it carries what is partial
LEMMA OthersSplit ==
    ASSUME NEW r, r.rest \in Seq(Entries), r.partial \in Nat
    PROVE  /\ OtherParts(r) \in Seq(Rests)
           /\ FlattenSeq(EntriesOf(OtherParts(r))) = r.rest
           /\ \A j \in 1 .. Len(OtherParts(r)) : RestFits(OtherParts(r)[j])
           /\ Carried(r) \in Nat
           /\ Carried(r) # 0 =>
                 /\ Len(OtherParts(r)) = 1 /\ ~ Exceeds(OtherParts(r)[1])
                 /\ RestSize(OtherParts(r)[1]) + Carried(r) <= MaxRPCSize
<1>0. PICK entries \in Seq(Entries) : entries = r.rest
  OBVIOUS
<1>4. /\ Carried(r) \in Nat /\ (~ FitsWhole(r) => Carried(r) = 0)
      /\ (FitsWhole(r) => Carried(r) = r.partial)
  BY DEF Carried
<1>1. CASE ~ FitsWhole(r)
  <2>1. OtherParts(r) = SplitRest(entries)
    BY <1>0, <1>1 DEF OtherParts
  <2> QED BY <1>0, <1>1, <1>4, <2>1, RestSplit
<1>2. CASE FitsWhole(r) /\ entries = <<>> /\ r.partial = 0
  <2>1. PICK res \in Seq(Rests) : res = <<>>
    <3>1. <<>> \in Seq(Rests)
      OBVIOUS
    <3> QED BY <3>1
  <2>2. OtherParts(r) = res
    BY <1>0, <1>2, <2>1 DEF OtherParts
  <2>3. EntriesOf(res) = <<>>
    <3>1. Len(EntriesOf(res)) = 0 /\ EntriesOf(res) \in Seq(Seq(Entries))
      BY <2>1, EntriesOfType
    <3> QED BY <3>1, EmptySeq
  <2>4. \A j \in 1 .. Len(res) : RestFits(res[j])
    BY <2>1
  <2> QED BY <1>0, <1>2, <1>4, <2>2, <2>3, <2>4, FlattenEmpty
<1>3. CASE FitsWhole(r) /\ ~ (entries = <<>> /\ r.partial = 0)
  <2>1. PICK whole \in Rests : whole = Whole(entries) /\ whole.entries = entries
    BY WholeType
  <2>2. PICK none \in Seq(Rests) : none = <<>>
    <3>1. <<>> \in Seq(Rests)
      OBVIOUS
    <3> QED BY <3>1
  <2>3. PICK res \in Seq(Rests) : res = Append(none, whole)
    <3>1. Append(none, whole) \in Seq(Rests)
      BY AppendProperties
    <3> QED BY <3>1
  <2>4. OtherParts(r) = res
    <3>1. res = <<whole>>
      BY <2>2, <2>3
    <3> QED BY <1>0, <1>3, <2>1, <3>1 DEF OtherParts
  <2>5. EntriesOf(none) = <<>>
    <3>1. Len(EntriesOf(none)) = 0 /\ EntriesOf(none) \in Seq(Seq(Entries))
      BY <2>2, EntriesOfType
    <3> QED BY <3>1, EmptySeq
  <2>6. PICK old \in Seq(Seq(Entries)) : old = <<>>
    BY <2>5, EntriesOfType
  <2>7. EntriesOf(res) = Append(old, entries)
    BY <2>1, <2>3, <2>5, <2>6, EntriesOfAppend
  <2>8. FlattenSeq(Append(old, entries)) = FlattenSeq(old) \o entries
    BY FlattenAppend
  <2>9. <<>> \o entries = entries
    BY ConcatEmptySeq
  <2>10. FlattenSeq(EntriesOf(res)) = entries
    BY <2>6, <2>7, <2>8, <2>9, FlattenEmpty
  <2>11. Len(res) = 1 /\ res[1] = whole
    BY <2>2, <2>3
  <2>12. ~ Exceeds(whole) /\ RestSize(whole) + r.partial <= MaxRPCSize
    BY <1>0, <1>3, <2>1 DEF FitsWhole
  <2>13. \A j \in 1 .. Len(res) : RestFits(res[j])
    BY <2>11, <2>12 DEF RestFits
  <2>14. ~ Exceeds(res[1]) /\ RestSize(res[1]) + Carried(r) <= MaxRPCSize
    BY <1>3, <1>4, <2>11, <2>12
  <2> QED BY <1>0, <1>4, <2>4, <2>10, <2>11, <2>13, <2>14
<1> QED BY <1>1, <1>2, <1>3

-----------------------------------------------------------------------------
(* split: the parts together.                                              *)

Parts == [publish : Seq(Nat), rest : Rests, partial : Nat]

PublishOf(ps) == [i \in DOMAIN ps |-> ps[i].publish]
RestOf(ps) == [i \in DOMAIN ps |-> ps[i].rest.entries]

PartFits(part) ==
    \/ /\ TotalSize(part.publish) <= MaxRPCSize
       /\ ~ Exceeds(part.rest)
       /\ RestSize(part.rest) + part.partial <= MaxRPCSize
    \/ Len(part.publish) + Len(part.rest.entries) = 1

LEMMA ColumnsType ==
    ASSUME NEW ps \in Seq(Parts)
    PROVE  /\ PublishOf(ps) \in Seq(Seq(Nat)) /\ Len(PublishOf(ps)) = Len(ps)
           /\ RestOf(ps) \in Seq(Seq(Entries)) /\ Len(RestOf(ps)) = Len(ps)
           /\ \A i \in 1 .. Len(ps) : PublishOf(ps)[i] = ps[i].publish /\ RestOf(ps)[i] = ps[i].rest.entries
<1>1. \A p \in Parts : p.publish \in Seq(Nat) /\ p.rest.entries \in Seq(Entries)
  BY DEF Parts, Rests
<1>2. \A i \in 1 .. Len(ps) : ps[i] \in Parts
  OBVIOUS
<1>3. \A i \in 1 .. Len(ps) : ps[i].publish \in Seq(Nat) /\ ps[i].rest.entries \in Seq(Entries)
  BY <1>1, <1>2
<1>4. PublishOf(ps) \in Seq(Seq(Nat)) /\ Len(PublishOf(ps)) = Len(ps)
  BY <1>3 DEF PublishOf
<1>5. RestOf(ps) \in Seq(Seq(Entries)) /\ Len(RestOf(ps)) = Len(ps)
  BY <1>3 DEF RestOf
<1>6. \A i \in 1 .. Len(ps) : PublishOf(ps)[i] = ps[i].publish /\ RestOf(ps)[i] = ps[i].rest.entries
  BY DEF PublishOf, RestOf
<1> QED BY <1>4, <1>5, <1>6

LEMMA ColumnsJoin ==
    ASSUME NEW a \in Seq(Parts), NEW b \in Seq(Parts)
    PROVE  /\ PublishOf(a \o b) = PublishOf(a) \o PublishOf(b)
           /\ RestOf(a \o b) = RestOf(a) \o RestOf(b)
<1>1. PICK c \in Seq(Parts) : c = a \o b
  <2>1. a \o b \in Seq(Parts)
    BY ConcatProperties
  <2> QED BY <2>1
<1>2. /\ Len(c) = Len(a) + Len(b) /\ Len(a) \in Nat /\ Len(b) \in Nat
      /\ \A i \in 1 .. Len(a) : c[i] = a[i]
      /\ \A k \in 1 .. Len(b) : c[Len(a) + k] = b[k]
  BY <1>1
<1>3. PublishOf(c) = PublishOf(a) \o PublishOf(b)
  <2>1. PICK u \in Seq(Seq(Nat)) : u = PublishOf(a) /\ Len(u) = Len(a) /\ \A i \in 1 .. Len(a) : u[i] = a[i].publish
    BY ColumnsType
  <2>2. PICK v \in Seq(Seq(Nat)) : v = PublishOf(b) /\ Len(v) = Len(b) /\ \A i \in 1 .. Len(b) : v[i] = b[i].publish
    BY ColumnsType
  <2>3. PICK w \in Seq(Seq(Nat)) : w = PublishOf(c) /\ Len(w) = Len(c) /\ \A i \in 1 .. Len(c) : w[i] = c[i].publish
    BY ColumnsType
  <2>4. Len(w) = Len(u) + Len(v)
    BY <1>2, <2>1, <2>2, <2>3
  <2>5. \A i \in 1 .. Len(u) : w[i] = u[i]
    <3>1. \A i \in 1 .. Len(a) : i \in 1 .. Len(c)
      BY <1>2
    <3> QED BY <1>2, <2>1, <2>3, <3>1
  <2>6. ASSUME NEW k \in 1 .. Len(v) PROVE w[Len(u) + k] = v[k]
    <3>1. PICK m \in 1 .. Len(c) : m = Len(a) + k
      BY <1>2, <2>2
    <3>2. c[m] = b[k]
      BY <1>2, <2>2, <3>1
    <3> QED BY <2>1, <2>2, <2>3, <3>1, <3>2
  <2>7. w = u \o v
    BY <2>4, <2>5, <2>6, JoinIs
  <2> QED BY <2>1, <2>2, <2>3, <2>7
<1>4. RestOf(c) = RestOf(a) \o RestOf(b)
  <2>1. PICK u \in Seq(Seq(Entries)) : u = RestOf(a) /\ Len(u) = Len(a) /\ \A i \in 1 .. Len(a) : u[i] = a[i].rest.entries
    BY ColumnsType
  <2>2. PICK v \in Seq(Seq(Entries)) : v = RestOf(b) /\ Len(v) = Len(b) /\ \A i \in 1 .. Len(b) : v[i] = b[i].rest.entries
    BY ColumnsType
  <2>3. PICK w \in Seq(Seq(Entries)) : w = RestOf(c) /\ Len(w) = Len(c) /\ \A i \in 1 .. Len(c) : w[i] = c[i].rest.entries
    BY ColumnsType
  <2>4. Len(w) = Len(u) + Len(v)
    BY <1>2, <2>1, <2>2, <2>3
  <2>5. \A i \in 1 .. Len(u) : w[i] = u[i]
    <3>1. \A i \in 1 .. Len(a) : i \in 1 .. Len(c)
      BY <1>2
    <3> QED BY <1>2, <2>1, <2>3, <3>1
  <2>6. ASSUME NEW k \in 1 .. Len(v) PROVE w[Len(u) + k] = v[k]
    <3>1. PICK m \in 1 .. Len(c) : m = Len(a) + k
      BY <1>2, <2>2
    <3>2. c[m] = b[k]
      BY <1>2, <2>2, <3>1
    <3> QED BY <2>1, <2>2, <2>3, <3>1, <3>2
  <2>7. w = u \o v
    BY <2>4, <2>5, <2>6, JoinIs
  <2> QED BY <2>1, <2>2, <2>3, <2>7
<1> QED BY <1>1, <1>3, <1>4

\* The parts of the messages, put before those of the other entries, which carry c
Combined(messages, others, c) ==
    [i \in DOMAIN messages |-> Part(messages[i], Nothing, 0)]
        \o [i \in DOMAIN others |-> Part(<<>>, others[i], c)]

LEMMA CombinedIsFaithful ==
    ASSUME NEW messages \in Seq(Seq(Nat)), NEW others \in Seq(Rests), NEW c \in Nat,
           \A j \in 1 .. Len(messages) : Fits(messages[j]),
           \A j \in 1 .. Len(others) : RestFits(others[j]),
           c # 0 => /\ Len(others) = 1 /\ ~ Exceeds(others[1])
                    /\ RestSize(others[1]) + c <= MaxRPCSize,
           NEW all, all = Combined(messages, others, c)
    PROVE  /\ FlattenSeq(PublishOf(all)) = FlattenSeq(messages)
           /\ FlattenSeq(RestOf(all)) = FlattenSeq(EntriesOf(others))
           /\ \A i \in DOMAIN all : PartFits(all[i])
           /\ \A i \in DOMAIN all : all[i].partial # 0 => i = Len(all)
           /\ c # 0 => all # <<>> /\ all[Len(all)].partial = c
<1>0. Nothing \in Rests /\ Nothing.entries = <<>> /\ ~ Exceeds(Nothing) /\ <<>> \in Seq(Nat)
      /\ TotalSize(<<>>) <= MaxRPCSize /\ MaxRPCSize \in Nat
      /\ RestSize(Nothing) + 0 <= MaxRPCSize
  <2>1. MaxRPCSize \in Nat /\ Nothing \in Rests /\ ~ Exceeds(Nothing)
    BY NothingHeld, Limits
  <2>2. RestSize(Nothing) \in Nat
    BY <2>1, RestSizeIs
  <2>3. RestSize(Nothing) + 0 <= MaxRPCSize
    BY <2>1, <2>2 DEF Exceeds
  <2> QED BY <2>1, <2>3, NothingHeld, SizeOfNone, Limits
<1>1. PICK a \in Seq(Parts) :
         /\ a = [i \in DOMAIN messages |-> Part(messages[i], Nothing, 0)] /\ Len(a) = Len(messages)
         /\ \A i \in 1 .. Len(a) : a[i].publish = messages[i] /\ a[i].rest = Nothing /\ a[i].partial = 0
  <2> DEFINE f == [i \in DOMAIN messages |-> Part(messages[i], Nothing, 0)]
  <2>1. \A i \in 1 .. Len(messages) : messages[i] \in Seq(Nat)
    OBVIOUS
  <2>2. \A m \in Seq(Nat) : LET x == Part(m, Nothing, 0) IN
           x \in Parts /\ x.publish = m /\ x.rest = Nothing /\ x.partial = 0
    BY <1>0 DEF Part, Parts
  <2>3. f \in Seq(Parts) /\ Len(f) = Len(messages)
    <3>1. \A i \in 1 .. Len(messages) : Part(messages[i], Nothing, 0) \in Parts
      BY <2>1, <2>2
    <3>2. f \in [1 .. Len(messages) -> Parts] /\ Len(messages) \in Nat
      BY <3>1
    <3> QED BY <3>2
  <2>4. ASSUME NEW i \in 1 .. Len(f)
        PROVE  f[i].publish = messages[i] /\ f[i].rest = Nothing /\ f[i].partial = 0
    <3>1. i \in 1 .. Len(messages) /\ f[i] = Part(messages[i], Nothing, 0)
      BY <2>3
    <3> QED BY <2>1, <2>2, <3>1
  <2> HIDE DEF f
  <2> QED BY <2>3, <2>4 DEF f
<1>2. PICK b \in Seq(Parts) :
         /\ b = [i \in DOMAIN others |-> Part(<<>>, others[i], c)] /\ Len(b) = Len(others)
         /\ \A i \in 1 .. Len(b) : b[i].publish = <<>> /\ b[i].rest = others[i] /\ b[i].partial = c
  <2> DEFINE f == [i \in DOMAIN others |-> Part(<<>>, others[i], c)]
  <2>1. \A i \in 1 .. Len(others) : others[i] \in Rests
    OBVIOUS
  <2>2. \A o \in Rests : LET x == Part(<<>>, o, c) IN
           x \in Parts /\ x.publish = <<>> /\ x.rest = o /\ x.partial = c
    BY <1>0 DEF Part, Parts
  <2>3. f \in Seq(Parts) /\ Len(f) = Len(others)
    <3>1. \A i \in 1 .. Len(others) : Part(<<>>, others[i], c) \in Parts
      BY <2>1, <2>2
    <3>2. f \in [1 .. Len(others) -> Parts] /\ Len(others) \in Nat
      BY <3>1
    <3> QED BY <3>2
  <2>4. ASSUME NEW i \in 1 .. Len(f)
        PROVE  f[i].publish = <<>> /\ f[i].rest = others[i] /\ f[i].partial = c
    <3>1. i \in 1 .. Len(others) /\ f[i] = Part(<<>>, others[i], c)
      BY <2>3
    <3> QED BY <2>1, <2>2, <3>1
  <2> HIDE DEF f
  <2> QED BY <2>3, <2>4 DEF f
<1>3. all = a \o b
  BY <1>1, <1>2 DEF Combined
<1>4. FlattenSeq(PublishOf(a \o b)) = FlattenSeq(messages)
  <2>1. PublishOf(a) = messages
    <3>1. PublishOf(a) \in Seq(Seq(Nat)) /\ Len(PublishOf(a)) = Len(messages)
      BY <1>1, ColumnsType
    <3>2. \A i \in 1 .. Len(a) : PublishOf(a)[i] = a[i].publish
      BY ColumnsType
    <3>3. \A i \in 1 .. Len(messages) : PublishOf(a)[i] = messages[i]
      BY <1>1, <3>2
    <3>4. PICK r \in Seq(Seq(Nat)) : r = PublishOf(a)
      BY <3>1
    <3>5. r = messages
      BY <3>1, <3>3, <3>4, SeqEqual
    <3> QED BY <3>4, <3>5
  <2>2. PICK e \in Seq(Seq(Nat)) : e = PublishOf(b) /\ \A i \in 1 .. Len(e) : e[i] = <<>>
    <3>1. \A i \in 1 .. Len(b) : PublishOf(b)[i] = b[i].publish
      BY ColumnsType
    <3>2. PublishOf(b) \in Seq(Seq(Nat)) /\ Len(PublishOf(b)) = Len(b)
      BY ColumnsType
    <3>3. \A i \in 1 .. Len(b) : PublishOf(b)[i] = <<>>
      BY <1>2, <3>1
    <3> QED BY <3>2, <3>3
  <2>3. FlattenSeq(e) = <<>>
    BY <2>2, FlattenEmpties
  <2>4. FlattenSeq(messages \o e) = FlattenSeq(messages) \o FlattenSeq(e)
    BY FlattenConcat
  <2>5. FlattenSeq(messages) \o <<>> = FlattenSeq(messages)
    BY FlattenType, ConcatEmptySeq
  <2> QED BY <2>1, <2>2, <2>3, <2>4, <2>5, ColumnsJoin
<1>5. FlattenSeq(RestOf(a \o b)) = FlattenSeq(EntriesOf(others))
  <2>1. PICK os \in Seq(Seq(Entries)) : os = EntriesOf(others)
    BY EntriesOfType
  <2>2. RestOf(b) = os
    <3>1. RestOf(b) \in Seq(Seq(Entries)) /\ Len(RestOf(b)) = Len(others) /\ Len(os) = Len(others)
      BY <1>2, <2>1, ColumnsType, EntriesOfType
    <3>a. \A i \in 1 .. Len(b) : RestOf(b)[i] = b[i].rest.entries
      BY ColumnsType
    <3>2. \A i \in 1 .. Len(others) : RestOf(b)[i] = others[i].entries
      BY <1>2, <3>a
    <3>3. \A i \in 1 .. Len(others) : os[i] = others[i].entries
      BY <2>1 DEF EntriesOf
    <3>4. PICK r \in Seq(Seq(Entries)) : r = RestOf(b)
      BY <3>1
    <3>5. Len(r) = Len(os) /\ Len(os) = Len(others)
      BY <3>1, <3>4
    <3>6. \A i \in 1 .. Len(others) : r[i] = os[i]
      BY <3>2, <3>3, <3>4
    <3>7. r = os
      BY <3>5, <3>6, SeqEqual
    <3> QED BY <3>4, <3>7
  <2>3. PICK e \in Seq(Seq(Entries)) : e = RestOf(a) /\ \A i \in 1 .. Len(e) : e[i] = <<>>
    <3>1. \A i \in 1 .. Len(a) : RestOf(a)[i] = a[i].rest.entries
      BY ColumnsType
    <3>2. RestOf(a) \in Seq(Seq(Entries)) /\ Len(RestOf(a)) = Len(a)
      BY ColumnsType
    <3>3. \A i \in 1 .. Len(a) : RestOf(a)[i] = <<>>
      BY <1>0, <1>1, <3>1
    <3> QED BY <3>2, <3>3
  <2>4. FlattenSeq(e) = <<>>
    BY <2>3, FlattenEmpties
  <2>5. FlattenSeq(e \o os) = FlattenSeq(e) \o FlattenSeq(os)
    BY FlattenConcat
  <2>6. <<>> \o FlattenSeq(os) = FlattenSeq(os)
    BY FlattenType, ConcatEmptySeq
  <2> QED BY <2>1, <2>2, <2>3, <2>4, <2>5, <2>6, ColumnsJoin
<1>6. \A i \in 1 .. Len(a) : PartFits(a[i])
  <2> SUFFICES ASSUME NEW i \in 1 .. Len(a) PROVE PartFits(a[i])
    OBVIOUS
  <2>1. a[i].publish = messages[i] /\ a[i].rest = Nothing /\ Fits(messages[i]) /\ Len(<<>>) = 0
    BY <1>1
  <2>2. Len(messages[i]) \in Nat
    BY <1>1
  <2>3. CASE TotalSize(messages[i]) <= MaxRPCSize
    <3>1. a[i].partial = 0
      BY <1>1
    <3>2. RestSize(a[i].rest) + a[i].partial <= MaxRPCSize /\ ~ Exceeds(a[i].rest)
      BY <1>0, <2>1, <3>1, SplitAssumption
    <3> QED BY <2>1, <2>3, <3>2 DEF PartFits
  <2>4. CASE Len(messages[i]) = 1
    <3>1. Len(a[i].publish) + Len(a[i].rest.entries) = 1
      BY <1>0, <2>1, <2>4
    <3> QED BY <3>1 DEF PartFits
  <2> QED BY <2>1, <2>3, <2>4 DEF Fits
<1>7. \A i \in 1 .. Len(b) : PartFits(b[i])
  <2> SUFFICES ASSUME NEW i \in 1 .. Len(b) PROVE PartFits(b[i])
    OBVIOUS
  <2>1. /\ b[i].publish = <<>> /\ b[i].rest = others[i] /\ RestFits(others[i]) /\ Len(<<>>) = 0
        /\ b[i].partial = c /\ others[i] \in Rests
    <3>1. i \in 1 .. Len(others)
      BY <1>2
    <3>2. b[i].publish = <<>> /\ b[i].rest = others[i] /\ b[i].partial = c
      BY <1>2
    <3>3. others[i] \in Rests
      BY <3>1
    <3>4. Len(<<>>) = 0
      OBVIOUS
    <3> QED BY <3>1, <3>2, <3>3, <3>4
  <2>2. CASE Len(others[i].entries) = 1
    BY <2>1, <2>2 DEF PartFits
  <2>3. CASE ~ Exceeds(others[i])
    <3>1. RestSize(others[i]) \in Nat
      BY <2>1, RestSizeIs
    <3>2. RestSize(others[i]) + c <= MaxRPCSize
      <4>1. CASE c = 0
        BY <1>0, <2>3, <3>1, <4>1 DEF Exceeds
      <4>2. CASE c # 0
        <5>1. i = 1
          BY <1>2, <4>2
        <5> QED BY <4>2, <5>1
      <4> QED BY <4>1, <4>2
    <3> QED BY <1>0, <2>1, <2>3, <3>2 DEF PartFits
  <2> QED BY <2>1, <2>2, <2>3 DEF RestFits
<1>8. \A i \in DOMAIN (a \o b) : PartFits((a \o b)[i])
  BY <1>6, <1>7
<1>9. /\ Len(a \o b) = Len(a) + Len(b) /\ Len(a) \in Nat /\ Len(b) \in Nat
      /\ DOMAIN (a \o b) = 1 .. Len(a) + Len(b)
      /\ \A i \in 1 .. Len(a) : (a \o b)[i] = a[i]
      /\ \A k \in 1 .. Len(b) : (a \o b)[Len(a) + k] = b[k]
  OBVIOUS
<1>10. ASSUME NEW i \in DOMAIN all, all[i].partial # 0 PROVE i = Len(all)
  <2>1. PICK k \in 1 .. Len(b) : i = Len(a) + k
    <3>1. i \in 1 .. Len(a) + Len(b)
      BY <1>3, <1>9
    <3>2. i \notin 1 .. Len(a)
      <4> SUFFICES ASSUME i \in 1 .. Len(a) PROVE FALSE
        OBVIOUS
      <4>1. a[i].partial = 0
        BY <1>1
      <4>2. all[i] = a[i]
        BY <1>3, <1>9
      <4> QED BY <1>10, <4>1, <4>2
    <3>3. PICK k \in Int : k = i - Len(a)
      BY <1>9, <3>1
    <3>4. k \in 1 .. Len(b) /\ i = Len(a) + k
      BY <1>9, <3>1, <3>2, <3>3
    <3> QED BY <3>4
  <2>2. all[i] = b[k]
    BY <1>3, <1>9, <2>1
  <2>3. c # 0
    BY <1>2, <1>10, <2>1, <2>2
  <2>4. Len(b) = 1
    BY <1>2, <2>3
  <2> QED BY <1>3, <1>9, <2>1, <2>4
<1>11. c # 0 => all # <<>> /\ all[Len(all)].partial = c
  <2> SUFFICES ASSUME c # 0 PROVE all # <<>> /\ all[Len(all)].partial = c
    OBVIOUS
  <2>1. Len(b) = 1
    BY <1>2
  <2>2. b[1].partial = c /\ 1 \in 1 .. Len(b)
    <3>1. 1 \in 1 .. Len(b)
      BY <2>1
    <3> QED BY <1>2, <3>1
  <2>3. Len(all) = Len(a) + 1 /\ all[Len(a) + 1] = b[1]
    BY <1>3, <1>9, <2>1, <2>2
  <2>4. all # <<>>
    <3>1. Len(all) # 0
      BY <1>9, <2>3
    <3> QED BY <3>1
  <2> QED BY <2>2, <2>3, <2>4
<1> QED BY <1>3, <1>4, <1>5, <1>8, <1>10, <1>11

\* The inductive invariant: split leaves the RPC as it was, and what it yields is faithful.
RpcKnown == rpc.publish \in Seq(Sizes) /\ rpc.rest \in Seq(Entries) /\ rpc.partial \in Nat

LEMMA BoundedIsSeq ==
    ASSUME NEW S, NEW n \in Nat, NEW s \in BoundedSeq(S, n)
    PROVE  s \in Seq(S)
<1>1. PICK m \in 0 .. n : s \in [1 .. m -> S]
  BY DEF BoundedSeq, SeqOf
<1> QED BY <1>1

LEMMA SplitSteps ==
    ASSUME RpcKnown, Split
    PROVE  RpcKnown' /\ SplitFaithful'
<1>1. PICK messages \in Seq(Seq(Nat)) : messages = SplitPublish(rpc.publish)
  BY PublishSplit DEF RpcKnown
<1>2. PICK others \in Seq(Rests) : others = OtherParts(rpc)
  BY OthersSplit DEF RpcKnown
<1>3. FlattenSeq(messages) = rpc.publish /\ \A j \in 1 .. Len(messages) : Fits(messages[j])
  BY <1>1, PublishSplit DEF RpcKnown
<1>4. FlattenSeq(EntriesOf(others)) = rpc.rest /\ \A j \in 1 .. Len(others) : RestFits(others[j])
  BY <1>2, OthersSplit DEF RpcKnown
<1>5. PICK c \in Nat : /\ c = Carried(rpc)
                       /\ c # 0 => /\ Len(others) = 1 /\ ~ Exceeds(others[1])
                                   /\ RestSize(others[1]) + c <= MaxRPCSize
  BY <1>2, OthersSplit DEF RpcKnown
<1>6. parts' = Combined(messages, others, c) /\ rpc' = rpc
  BY <1>1, <1>2, <1>5 DEF Split, Combined
<1>7. /\ FlattenSeq(PublishOf(parts')) = rpc'.publish
      /\ FlattenSeq(RestOf(parts')) = rpc'.rest
      /\ \A i \in DOMAIN parts' : PartFits(parts'[i])
      /\ \A i \in DOMAIN parts' : parts'[i].partial # 0 => i = Len(parts')
      /\ c # 0 => parts' # <<>> /\ parts'[Len(parts')].partial = c
  BY <1>3, <1>4, <1>5, <1>6, CombinedIsFaithful
<1>8. FitsWhole(rpc) /\ rpc.partial # 0 => c = rpc.partial
  BY <1>5 DEF Carried
<1>9. FitsWhole(rpc)' = FitsWhole(rpc)
  BY <1>6 DEF FitsWhole
<1>10. FitsWhole(rpc)' /\ rpc'.partial # 0 => parts' # <<>> /\ parts'[Len(parts')].partial = rpc'.partial
  BY <1>6, <1>7, <1>8, <1>9
<1> HIDE DEF FitsWhole
<1>11. SplitFaithful'
  BY <1>7, <1>10 DEF SplitFaithful, PublishOf, RestOf, PartFits
<1> QED BY <1>6, <1>11 DEF RpcKnown

\* RPC.split (pubsub.go) loses, repeats and reorders nothing whatever the sizes and the
\* limits are: its parts hold every message and every other entry of the RPC once and in
\* order, and each of them is within the limits unless it holds a single message or entry;
\* the partial message goes with the last part, if all but the messages fits there.
THEOREM SplitFaithfulHolds == SplitSpec => []SplitFaithful
<1>1. SplitInit => RpcKnown /\ SplitFaithful
  <2> SUFFICES ASSUME SplitInit PROVE RpcKnown /\ SplitFaithful
    OBVIOUS
  <2>1. /\ rpc.publish \in BoundedSeq(Sizes, MaxMessages) /\ rpc.rest \in BoundedSeq(Entries, MaxEntries)
        /\ rpc.partial \in {0} \cup Sizes
    BY DEF SplitInit, Rpcs
  <2>2. rpc.publish \in Seq(Sizes) /\ rpc.rest \in Seq(Entries)
    <3>1. MaxMessages \in Nat /\ MaxEntries \in Nat
      BY SplitAssumption
    <3>2. rpc.publish \in Seq(Sizes)
      BY <2>1, <3>1, BoundedIsSeq
    <3>3. rpc.rest \in Seq(Entries)
      BY <2>1, <3>1, BoundedIsSeq
    <3> QED BY <3>2, <3>3
  <2>a. rpc.partial \in Nat
    <3>1. rpc.partial = 0 \/ rpc.partial \in Sizes
      BY <2>1
    <3>2. \A n \in Sizes : n \in Nat
      BY SplitAssumption
    <3> QED BY <3>1, <3>2
  <2>3. ~ called
    BY DEF SplitInit
  <2> QED BY <2>2, <2>a, <2>3 DEF SplitFaithful, RpcKnown
<1>2. RpcKnown /\ SplitFaithful /\ [SplitNext]_splitVars => (RpcKnown /\ SplitFaithful)'
  <2> SUFFICES ASSUME RpcKnown, SplitFaithful, [SplitNext]_splitVars PROVE RpcKnown' /\ SplitFaithful'
    OBVIOUS
  <2>1. CASE Split
    BY <2>1, SplitSteps
  <2>2. CASE UNCHANGED splitVars
    BY <2>2 DEF splitVars, RpcKnown, SplitFaithful
  <2> QED BY <2>1, <2>2 DEF SplitNext
<1> QED BY <1>1, <1>2, PTL DEF SplitSpec

=============================================================================
