--------------------------- MODULE InboundStreams ---------------------------
(***************************************************************************)
(* The inbound streams of one peer: handleNewStream (comm.go) runs in a    *)
(* goroutine per stream and reports to processLoop (pubsub.go) over the    *)
(* channel p.incoming.  A newer stream replaces an older one.              *)
(***************************************************************************)
EXTENDS Integers, FiniteSets, Sequences, SequencesExt

CONSTANTS
    Streams,      \* the streams the peer opens
    None,         \* no stream
    IncomingCap,  \* capacity of p.incoming
    MaxRPCs       \* bound: RPCs the peer sends on one stream

ASSUME StreamAssumption ==
    /\ None \notin Streams
    /\ IncomingCap \in Nat \ {0}
    /\ MaxRPCs \in Nat

VARIABLES
    pc,          \* where the handler of each stream is
    entry,       \* p.inboundStreams[peer]
    prev,        \* the handler that a handler found registered
    reset,       \* streams that were reset
    done,        \* handlers whose done channel is closed
    sentNew,     \* handlers that sent their newStream notification
    rpcs,        \* how many RPCs were read from each stream
    hand,        \* the subscription RPC a handler has read and not sent yet
    incoming,    \* the channel p.incoming
    ctxDone,     \* the PubSub was shut down
    open,        \* streams processLoop was told of and not told the end of
    subscribed   \* the peer is in p.topics, for one topic

inboundVars == <<pc, entry, prev, reset, done, sentNew, rpcs, hand, incoming, ctxDone, open, subscribed>>

InboundInit ==
    /\ pc = [s \in Streams |-> "unopened"]
    /\ entry = None
    /\ prev = [s \in Streams |-> None]
    /\ reset = {} /\ done = {} /\ sentNew = {}
    /\ rpcs = [s \in Streams |-> 0]
    /\ hand = [s \in Streams |-> FALSE]
    /\ incoming = <<>>
    /\ ctxDone = FALSE
    /\ open = {}
    /\ subscribed = FALSE

Goto(s, label) == pc' = [pc EXCEPT ![s] = label]

\* A send on p.incoming does not block
Room == Len(incoming) < IncomingCap

\* The peer opens a stream
Open(s) ==
    /\ pc[s] = "unopened"
    /\ Goto(s, "register")
    /\ UNCHANGED <<entry, prev, reset, done, sentNew, rpcs, hand, incoming, ctxDone, open, subscribed>>

\* Under inboundStreamsMx: take the place of the handler that is registered
Register(s) ==
    /\ pc[s] = "register"
    /\ prev' = [prev EXCEPT ![s] = entry]
    /\ entry' = s
    /\ Goto(s, IF entry = None THEN "announce" ELSE "replace")
    /\ UNCHANGED <<reset, done, sentNew, rpcs, hand, incoming, ctxDone, open, subscribed>>

\* prev.s.Reset()
ResetPrev(s) ==
    /\ pc[s] = "replace"
    /\ reset' = reset \cup {prev[s]}
    /\ Goto(s, "await")
    /\ UNCHANGED <<entry, prev, done, sentNew, rpcs, hand, incoming, ctxDone, open, subscribed>>

\* Faulty variant: it does not wait
PrevEndedUnasked(s) == TRUE

\* <-prev.done
PrevEnded(s) == prev[s] \in done

AwaitPrev(s) ==
    /\ pc[s] = "await"
    /\ \/ PrevEnded(s) /\ Goto(s, "announce")
       \/ ctxDone /\ Goto(s, "leave")
    /\ UNCHANGED <<entry, prev, reset, done, sentNew, rpcs, hand, incoming, ctxDone, open, subscribed>>

SendNewStream(s) ==
    /\ pc[s] = "announce"
    /\ \/ /\ Room
          /\ incoming' = Append(incoming, [kind |-> "new", s |-> s])
          /\ sentNew' = sentNew \cup {s}
          /\ Goto(s, "read")
          /\ UNCHANGED reset
       \/ /\ ctxDone
          /\ reset' = reset \cup {s}
          /\ Goto(s, "leave")
          /\ UNCHANGED <<incoming, sentNew>>
    /\ UNCHANGED <<entry, prev, done, rpcs, hand, ctxDone, open, subscribed>>

\* An RPC arrives, with the peer's subscription
ReadRPC(s, sub) ==
    /\ pc[s] = "read" /\ s \notin reset /\ rpcs[s] < MaxRPCs
    /\ rpcs' = [rpcs EXCEPT ![s] = @ + 1]
    /\ hand' = [hand EXCEPT ![s] = sub]
    /\ Goto(s, "send")
    /\ UNCHANGED <<entry, prev, reset, done, sentNew, incoming, ctxDone, open, subscribed>>

SendRPC(s) ==
    /\ pc[s] = "send"
    /\ \/ /\ Room
          /\ incoming' = Append(incoming, [kind |-> "rpc", s |-> s, sub |-> hand[s]])
          /\ Goto(s, "read")
          /\ UNCHANGED reset
       \/ /\ ctxDone
          /\ reset' = reset \cup {s}
          /\ Goto(s, "leave")
          /\ UNCHANGED incoming
    /\ UNCHANGED <<entry, prev, done, sentNew, rpcs, hand, ctxDone, open, subscribed>>

\* The read fails because the stream was reset
ReadError(s) ==
    /\ pc[s] = "read" /\ s \in reset
    /\ Goto(s, "leave")
    /\ UNCHANGED <<entry, prev, reset, done, sentNew, rpcs, hand, incoming, ctxDone, open, subscribed>>

\* The peer closes the stream, or sends what cannot be decoded
RemoteClose(s) ==
    /\ pc[s] = "read"
    /\ Goto(s, "leave")
    /\ UNCHANGED <<entry, prev, reset, done, sentNew, rpcs, hand, incoming, ctxDone, open, subscribed>>

\* The deferred function: unregister, unless already replaced
EntryAfterLeaving(s) == IF entry = s THEN None ELSE entry

Unregister(s) ==
    /\ pc[s] = "leave"
    /\ entry' = EntryAfterLeaving(s)
    /\ Goto(s, IF s \in sentNew THEN "notify" ELSE "finish")
    /\ UNCHANGED <<prev, reset, done, sentNew, rpcs, hand, incoming, ctxDone, open, subscribed>>

\* ... the closedStream notification
SendClosedStream(s) ==
    /\ pc[s] = "notify"
    /\ \/ Room /\ incoming' = Append(incoming, [kind |-> "closed", s |-> s])
       \/ ctxDone /\ UNCHANGED incoming
    /\ Goto(s, "finish")
    /\ UNCHANGED <<entry, prev, reset, done, sentNew, rpcs, hand, ctxDone, open, subscribed>>

\* Faulty variant: done is only closed after a newStream notification
CloseDoneAnnounced(s) ==
    /\ pc[s] = "finish"
    /\ done' = IF s \in sentNew THEN done \cup {s} ELSE done
    /\ Goto(s, "exited")
    /\ UNCHANGED <<entry, prev, reset, sentNew, rpcs, hand, incoming, ctxDone, open, subscribed>>

\* ... close(done)
CloseDone(s) ==
    /\ pc[s] = "finish"
    /\ done' = done \cup {s}
    /\ Goto(s, "exited")
    /\ UNCHANGED <<entry, prev, reset, sentNew, rpcs, hand, incoming, ctxDone, open, subscribed>>

\* Faulty variant: the topic state stays
SubscribedAfterCloseKept == subscribed

\* What the end of a stream leaves of the peer's topic state
SubscribedAfterClose == FALSE

\* processLoop: onClosedIncomingStream clears the topic state of the peer
Process ==
    /\ ~ ctxDone
    /\ incoming # <<>>
    /\ incoming' = Tail(incoming)
    /\ LET e == Head(incoming)
       IN  \/ e.kind = "new" /\ open' = open \cup {e.s} /\ UNCHANGED subscribed
           \/ e.kind = "rpc" /\ subscribed' = e.sub /\ UNCHANGED open
           \/ /\ e.kind = "closed"
              /\ open' = open \ {e.s}
              /\ subscribed' = SubscribedAfterClose
    /\ UNCHANGED <<pc, entry, prev, reset, done, sentNew, rpcs, hand, ctxDone>>

\* The context of the PubSub is cancelled
Shutdown ==
    /\ ~ ctxDone
    /\ ctxDone' = TRUE
    /\ UNCHANGED <<pc, entry, prev, reset, done, sentNew, rpcs, hand, incoming, open, subscribed>>

-----------------------------------------------------------------------------
\* The steps a handler takes on its own
Handler(s) ==
    \/ Register(s) \/ ResetPrev(s) \/ AwaitPrev(s) \/ SendNewStream(s) \/ SendRPC(s)
    \/ ReadError(s) \/ Unregister(s) \/ SendClosedStream(s) \/ CloseDone(s)

InboundNext ==
    \/ \E s \in Streams : \/ Handler(s) \/ Open(s) \/ RemoteClose(s)
                          \/ \E sub \in BOOLEAN : ReadRPC(s, sub)
    \/ Process
    \/ Shutdown

\* Goroutines are scheduled, and a sender blocked on a channel gets its turn.  The
\* peer does nothing it is not asked for.
InboundFairness == WF_inboundVars(Process) /\ \A s \in Streams : WF_inboundVars(Handler(s))

-----------------------------------------------------------------------------
\* A handler that replaced another one is only announced to processLoop after the
\* end of the other one was, so that clearing the peer's state cannot hit it.
ReplacedFirst ==
    ~ ctxDone =>
    \A s \in open : prev[s] # None =>
        /\ prev[s] \notin open
        /\ ~ \E i \in DOMAIN incoming : incoming[i] = [kind |-> "closed", s |-> prev[s]]

\* When all streams the peer opened have ended and processLoop is idle, nothing is
\* left of the peer's topic state.
NoTopicLeak ==
    (/\ ~ ctxDone /\ incoming = <<>>
     /\ \A s \in Streams : pc[s] \in {"unopened", "exited"})
    => ~ subscribed /\ open = {} /\ entry = None

\* A handler whose stream is reset exits, however many handlers replace one another
\* and even if the PubSub shuts down meanwhile.
ResetEnds == \A s \in Streams : s \in reset ~> s \in done
=============================================================================
