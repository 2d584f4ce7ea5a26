------------------------------ MODULE RpcQueue ------------------------------
(***************************************************************************)
(* The outbound queue of a peer (rpc_queue.go): a mutex, two condition     *)
(* variables and two slices, pushed to and popped from by goroutines.      *)
(*                                                                         *)
(* What runs under queueMu is one step, except in Pop: between its test of *)
(* ctx.Done and its entry in the wait list of dataAvailable the AfterFunc  *)
(* of the context can run, because it broadcasts without the mutex.        *)
(***************************************************************************)
EXTENDS Integers, FiniteSets, Sequences, FiniteSetsExt

CONSTANTS
    Pushers,    \* goroutines that call Push and UrgentPush
    Poppers,    \* goroutines that call Pop
    MaxSize,    \* maxSize
    Pushes      \* bound: how often each pusher pushes

ASSUME QueueAssumption ==
    /\ IsFiniteSet(Pushers) /\ IsFiniteSet(Poppers)
    /\ Pushers \cap Poppers = {}
    /\ MaxSize \in Nat \ {0}
    /\ Pushes \in Nat

VARIABLES
    normal, priority,  \* the two slices of priorityQueue
    closed,
    pc,         \* what every goroutine is doing
    op,         \* the push a pusher is executing, NoOp if it returned
    count,      \* how many pushes a pusher has begun
    dataWait,   \* the wait list of dataAvailable
    spaceWait,  \* the wait list of spaceAvailable
    cancelled,  \* poppers whose context is done
    after       \* the AfterFunc of a popper: off, registered, or running

qVars == <<normal, priority, closed>>
vars == <<normal, priority, closed, pc, op, count, dataWait, spaceWait, cancelled, after>>

Items == Pushers \X (1 .. Pushes)
Ops == [urgent : BOOLEAN, block : BOOLEAN]
NoOp == [urgent |-> FALSE, block |-> FALSE]
Size == Len(normal) + Len(priority)

\* A popper that has tested its context holds the mutex until it waits.
MutexFree == \A o \in Poppers : pc[o] # "tested"

Init ==
    /\ normal = <<>> /\ priority = <<>> /\ closed = FALSE
    /\ pc = [x \in Pushers \cup Poppers |-> "idle"]
    /\ op = [u \in Pushers |-> NoOp]
    /\ count = [u \in Pushers |-> 0]
    /\ dataWait = <<>> /\ spaceWait = <<>>
    /\ cancelled = {}
    /\ after = [o \in Poppers |-> "off"]

\* Faulty variant: nobody is woken
SignalPcNone(list, f) == f

\* Cond.Signal wakes the first of the wait list, if there is one.
SignalPc(list, f) == IF list = <<>> THEN f ELSE [f EXCEPT ![Head(list)] = "woken"]
SignalList(list) == IF list = <<>> THEN list ELSE Tail(list)

\* Cond.Broadcast wakes all of them.
BroadcastPc(lists, f) ==
    [x \in DOMAIN f |-> IF \E l \in lists : \E i \in DOMAIN l : l[i] = x THEN "woken" ELSE f[x]]

-----------------------------------------------------------------------------
\* Push or UrgentPush is called
PushCall(u, o) ==
    /\ pc[u] = "idle" /\ count[u] < Pushes
    /\ pc' = [pc EXCEPT ![u] = "lock"]
    /\ op' = [op EXCEPT ![u] = o]
    /\ count' = [count EXCEPT ![u] = @ + 1]
    /\ UNCHANGED <<qVars, dataWait, spaceWait, cancelled, after>>

\* Whether the loop of push has to wait or give up
NoSpace(u) == Size = MaxSize

PushPanic(u) ==
    /\ closed
    /\ pc' = [pc EXCEPT ![u] = "panic"]
    /\ op' = [op EXCEPT ![u] = NoOp]
    /\ UNCHANGED <<qVars, count, dataWait, spaceWait, cancelled, after>>

PushWait(u) ==
    /\ ~ closed /\ NoSpace(u) /\ op[u].block
    /\ spaceWait' = Append(spaceWait, u)
    /\ pc' = [pc EXCEPT ![u] = "wait"]
    /\ UNCHANGED <<qVars, op, count, dataWait, cancelled, after>>

PushFull(u) ==
    /\ ~ closed /\ NoSpace(u) /\ ~ op[u].block
    /\ pc' = [pc EXCEPT ![u] = "idle"]
    /\ op' = [op EXCEPT ![u] = NoOp]
    /\ UNCHANGED <<qVars, count, dataWait, spaceWait, cancelled, after>>

PushDo(u) ==
    LET x == <<u, count[u]>>
    IN  /\ ~ closed /\ ~ NoSpace(u)
        /\ IF op[u].urgent
           THEN priority' = Append(priority, x) /\ UNCHANGED normal
           ELSE normal' = Append(normal, x) /\ UNCHANGED priority
        /\ pc' = SignalPc(dataWait, [pc EXCEPT ![u] = "idle"])
        /\ dataWait' = SignalList(dataWait)
        /\ op' = [op EXCEPT ![u] = NoOp]
        /\ UNCHANGED <<closed, count, spaceWait, cancelled, after>>

\* push has the mutex: for the first time, or again after spaceAvailable.Wait
Push(u) ==
    /\ MutexFree
    /\ pc[u] \in {"lock", "woken"}
    /\ PushPanic(u) \/ PushWait(u) \/ PushFull(u) \/ PushDo(u)

-----------------------------------------------------------------------------
PopCall(o) ==
    /\ pc[o] = "idle"
    /\ pc' = [pc EXCEPT ![o] = "lock"]
    /\ UNCHANGED <<qVars, op, count, dataWait, spaceWait, cancelled, after>>

\* AfterFunc registers the callback, and starts it at once if ctx is done; a return
\* of Pop unregisters it, unless it was started.
Registered(o) ==
    IF pc[o] # "lock" THEN after[o] ELSE IF o \in cancelled THEN "running" ELSE "registered"
Unregistered(o) == IF Registered(o) = "running" THEN "running" ELSE "off"

PopClosed(o) ==
    /\ closed
    /\ pc' = [pc EXCEPT ![o] = "done"]
    /\ after' = [after EXCEPT ![o] = IF pc[o] = "lock" THEN @ ELSE Unregistered(o)]
    /\ UNCHANGED <<qVars, op, count, dataWait, spaceWait, cancelled>>

PopCancelled(o) ==
    /\ ~ closed /\ Size = 0 /\ o \in cancelled
    /\ pc' = [pc EXCEPT ![o] = "done"]
    /\ after' = [after EXCEPT ![o] = Unregistered(o)]
    /\ UNCHANGED <<qVars, op, count, dataWait, spaceWait, cancelled>>

\* The context is not done; the goroutine keeps the mutex
PopTest(o) ==
    /\ ~ closed /\ Size = 0 /\ o \notin cancelled
    /\ pc' = [pc EXCEPT ![o] = "tested"]
    /\ after' = [after EXCEPT ![o] = Registered(o)]
    /\ UNCHANGED <<qVars, op, count, dataWait, spaceWait, cancelled>>

\* Faulty variant: the order is reversed
PopItemNormalFirst ==
    IF normal # <<>> THEN normal' = Tail(normal) /\ UNCHANGED priority
                     ELSE priority' = Tail(priority) /\ UNCHANGED normal

\* priorityQueue.Pop: urgent RPCs first
PopItem ==
    IF priority # <<>> THEN priority' = Tail(priority) /\ UNCHANGED normal
                       ELSE normal' = Tail(normal) /\ UNCHANGED priority

PopDo(o) ==
    /\ ~ closed /\ Size > 0
    /\ PopItem
    /\ pc' = SignalPc(spaceWait, [pc EXCEPT ![o] = "idle"])
    /\ spaceWait' = SignalList(spaceWait)
    /\ after' = [after EXCEPT ![o] = Unregistered(o)]
    /\ UNCHANGED <<closed, op, count, dataWait, cancelled>>

\* Pop has the mutex: for the first time, or again after dataAvailable.Wait
Pop(o) ==
    /\ MutexFree
    /\ pc[o] \in {"lock", "woken"}
    /\ PopClosed(o) \/ PopCancelled(o) \/ PopTest(o) \/ PopDo(o)

\* dataAvailable.Wait enters the wait list, then releases the mutex
PopWait(o) ==
    /\ pc[o] = "tested"
    /\ pc' = [pc EXCEPT ![o] = "wait"]
    /\ dataWait' = Append(dataWait, o)
    /\ UNCHANGED <<qVars, op, count, spaceWait, cancelled, after>>

-----------------------------------------------------------------------------
\* The context of a popper is cancelled, which starts its callback
Cancel(o) ==
    /\ o \notin cancelled
    /\ cancelled' = cancelled \cup {o}
    /\ after' = [after EXCEPT ![o] = IF @ = "registered" THEN "running" ELSE @]
    /\ UNCHANGED <<qVars, pc, op, count, dataWait, spaceWait>>

\* The callback of AfterFunc: Broadcast without the mutex
AfterFunc(o) ==
    /\ after[o] = "running"
    /\ after' = [after EXCEPT ![o] = "off"]
    /\ pc' = BroadcastPc({dataWait}, pc)
    /\ dataWait' = <<>>
    /\ UNCHANGED <<qVars, op, count, spaceWait, cancelled>>

\* Faulty variant: Pushes are not woken
CloseWakesPoppers == {dataWait}

\* The wait lists Close broadcasts to
CloseWakes == {dataWait, spaceWait}

Close ==
    /\ MutexFree
    /\ ~ closed
    /\ closed' = TRUE
    /\ pc' = BroadcastPc(CloseWakes, pc)
    /\ dataWait' = <<>> /\ spaceWait' = <<>>
    /\ UNCHANGED <<normal, priority, op, count, cancelled, after>>

-----------------------------------------------------------------------------
PopStep(o) == Pop(o) \/ PopWait(o) \/ AfterFunc(o)

Next ==
    \/ \E u \in Pushers : Push(u) \/ \E o \in Ops : PushCall(u, o)
    \/ \E o \in Poppers : PopStep(o) \/ PopCall(o) \/ Cancel(o)
    \/ Close

Spec == Init /\ [][Next]_vars

\* A goroutine that can get the mutex gets it eventually: sync.Mutex is starvation
\* free.  Nothing forces another call of Push, Pop, Close or cancel.
Fairness ==
    /\ \A u \in Pushers : WF_vars(Push(u))
    /\ \A o \in Poppers : WF_vars(Pop(o)) /\ WF_vars(PopWait(o)) /\ WF_vars(AfterFunc(o))

-----------------------------------------------------------------------------
Woken(S) == {x \in S : pc[x] = "woken"}

\* The types of the queue, its wait lists and the goroutines; the queue never holds
\* more than maxSize RPCs, however many pushers are woken by one Pop.
TypeOK ==
    /\ normal \in Seq(Items) /\ priority \in Seq(Items) /\ Size <= MaxSize
    /\ closed \in BOOLEAN
    /\ pc \in [Pushers \cup Poppers ->
                 {"idle", "lock", "wait", "woken", "tested", "done", "panic"}]
    /\ op \in [Pushers -> Ops]
    /\ count \in [Pushers -> 0 .. Pushes]
    /\ dataWait \in Seq(Poppers) /\ spaceWait \in Seq(Pushers)
    /\ cancelled \subseteq Poppers
    /\ after \in [Poppers -> {"off", "registered", "running"}]

\* No wakeup is lost: while a Pop waits, the RPCs in the queue are outnumbered by the
\* Pops that are awake to take them, and while a Push waits, the free places by the
\* Pushes that are awake to fill them.
NoLostWakeup ==
    /\ dataWait # <<>> => Size <= Cardinality(Woken(Poppers))
    /\ spaceWait # <<>> => MaxSize - Size <= Cardinality(Woken(Pushers))

\* The goroutines that block in a call
Blocked(x) == pc[x] \in {"lock", "wait", "woken", "tested"}

\* After Close every call returns, or panics in the case of a blocked Push, and in the
\* end nobody is left in the queue.
CloseReleases == closed ~> \A x \in Pushers \cup Poppers : ~ Blocked(x)

\* The queue behaves like a bounded queue with two classes.
Abstract == INSTANCE BoundedQueue WITH
    Items <- Items, MaxSize <- MaxSize,
    normal <- normal, priority <- priority, closed <- closed
ImplementsQueue == Abstract!Spec
=============================================================================
