------------------------------ MODULE PeerGater ------------------------------
(***************************************************************************)
(* The peer gater (peer_gater.go): statistics shared by all peers of an IP *)
(* address, and the decision to drop messages before validation while the  *)
(* validation pipeline is overloaded.                                      *)
(*                                                                         *)
(* All operations hold the gater's mutex.  peerStats and ipStats hold      *)
(* pointers, so that an entry of one may outlive the entry of the other    *)
(* for the same object; objects are numbers here.  The four counters of an *)
(* object are summed up in total, since only a total of zero makes a       *)
(* difference to a decision that is otherwise random.                      *)
(***************************************************************************)
EXTENDS Naturals, FiniteSets, FiniteSetsExt

CONSTANTS
    GatedPeers,     \* the remote peers
    Addresses,      \* what getPeerIP can return
    RetainStats, Quiet,
    MaxEvents,      \* bound: counters stop here
    MaxOpen         \* bound: streams of a peer that are announced at a time

\* A peer and an address each refer to at most one object.
Objects == 1 .. Cardinality(GatedPeers) + Cardinality(Addresses)
None == 0

ASSUME GaterAssumption ==
    /\ IsFiniteSet(GatedPeers) /\ IsFiniteSet(Addresses) /\ Addresses # {}
    /\ {RetainStats, Quiet, MaxEvents, MaxOpen} \subseteq Nat

VARIABLES
    open,       \* OnNewOutboundStream less OnClosedOutboundStream calls for each peer
    address,    \* the address getPeerIP finds for each peer
    peerObj,    \* peerStats
    ipObj,      \* ipStats
    obj,        \* the objects
    validate, throttle, lastThrottle    \* lastThrottle is the time since then

gaterVars == <<open, address, peerObj, ipObj, obj, validate, throttle, lastThrottle>>
global    == <<validate, throttle, lastThrottle>>

\* left is the time until expire; a new object has a zero expire, which is past.
NewObj == [connected |-> 0, left |-> 0, total |-> 0]
UpTo(n, x) == IF x > n THEN n ELSE x
Less(x) == IF x = 0 THEN 0 ELSE x - 1

\* The objects ob as long as one of the maps po and io refers to them
Live(ob, po, io) ==
    [o \in Objects |-> IF \/ \E q \in GatedPeers : po[q] = o
                          \/ \E a \in Addresses : io[a] = o THEN ob[o] ELSE NewObj]

\* getPeerStats: the object of p, found by its address if p has none; a fresh one if
\* there is none for the address either
Unused == {o \in Objects : /\ \A q \in GatedPeers : peerObj[q] # o
                           /\ \A a \in Addresses : ipObj[a] # o}
PeerStats(p) ==
    IF peerObj[p] # None THEN peerObj[p]
    ELSE IF ipObj[address[p]] # None THEN ipObj[address[p]] ELSE Min(Unused)

\* p is bound to its object, which becomes st.
Bind(p, st) ==
    LET o == PeerStats(p)
    IN  /\ peerObj' = [peerObj EXCEPT ![p] = o]
        /\ ipObj' = IF peerObj[p] = None THEN [ipObj EXCEPT ![address[p]] = o] ELSE ipObj
        /\ obj' = [obj EXCEPT ![o] = st]

\* The address of p changes, or is not known while p has no connection.
Move(p, a) ==
    /\ address[p] # a
    /\ address' = [address EXCEPT ![p] = a]
    /\ UNCHANGED <<open, peerObj, ipObj, obj, global>>

\* OnNewOutboundStream, which may come again before the stream of p is reported closed
GaterNewOutboundStream(p) ==
    /\ open[p] < MaxOpen
    /\ open' = [open EXCEPT ![p] = @ + 1]
    /\ Bind(p, [obj[PeerStats(p)] EXCEPT !.connected = @ + 1])
    /\ UNCHANGED <<address, global>>

\* Faulty variant: the count is not taken back
RemovePeerStatsKeepCount(p, outbound) ==
    IF peerObj[p] = None THEN UNCHANGED <<peerObj, obj>>
    ELSE LET o == peerObj[p]
         IN  IF obj[o].connected = 0
             THEN /\ peerObj' = [peerObj EXCEPT ![p] = None]
                  /\ obj' = Live([obj EXCEPT ![o].left = RetainStats + 1], peerObj', ipObj)
             ELSE UNCHANGED <<peerObj, obj>>

\* removePeerStats
RemovePeerStats(p, outbound) ==
    IF peerObj[p] = None THEN UNCHANGED <<peerObj, obj>>
    ELSE LET o == peerObj[p]
             n == IF outbound THEN Less(obj[o].connected) ELSE obj[o].connected
         IN  /\ peerObj' = IF n = 0 THEN [peerObj EXCEPT ![p] = None] ELSE peerObj
             /\ obj' = Live([obj EXCEPT ![o] =
                               [connected |-> n, total |-> @.total,
                                left |-> IF n = 0 THEN RetainStats + 1 ELSE @.left]],
                            peerObj', ipObj)

\* OnClosedOutboundStream.  handleDeadPeers calls it for every peer that has a queue,
\* also when the stream was not announced yet.
GaterClosedOutboundStream(p) ==
    /\ open' = [open EXCEPT ![p] = Less(@)]
    /\ RemovePeerStats(p, TRUE)
    /\ UNCHANGED <<address, ipObj, global>>

GaterClosedIncomingStream(p) ==
    /\ RemovePeerStats(p, FALSE)
    /\ UNCHANGED <<open, address, ipObj, global>>

\* ValidateMessage
GaterValidate ==
    /\ validate' = UpTo(MaxEvents, validate + 1)
    /\ UNCHANGED <<open, address, peerObj, ipObj, obj, throttle, lastThrottle>>

\* DeliverMessage, DuplicateMessage and RejectMessage for a message of p, the latter
\* for other reasons than throttling.  The peer may be gone.
GaterCount(p) ==
    /\ Bind(p, [obj[PeerStats(p)] EXCEPT !.total = UpTo(MaxEvents, @ + 1)])
    /\ UNCHANGED <<open, address, global>>

\* RejectMessage: the queue was full, or a validation throttled
GaterThrottle ==
    /\ throttle' = UpTo(MaxEvents, throttle + 1)
    /\ lastThrottle' = 0
    /\ UNCHANGED <<open, address, peerObj, ipObj, obj, validate>>

\* decayStats
DecayStats ==
    LET recorded == {o \in Objects : \E a \in Addresses : ipObj[a] = o}
        gone == {o \in recorded : obj[o].connected = 0 /\ obj[o].left = 0}
    IN  /\ validate' = validate \div 2
        /\ throttle' = throttle \div 2
        /\ ipObj' = [a \in Addresses |-> IF ipObj[a] \in gone THEN None ELSE ipObj[a]]
        /\ obj' = Live([o \in Objects |-> IF o \in recorded /\ obj[o].connected > 0
                                          THEN [obj[o] EXCEPT !.total = @ \div 2] ELSE obj[o]],
                       peerObj, ipObj')
        /\ UNCHANGED <<open, address, peerObj, lastThrottle>>

\* AcceptFrom: while the gater is active it looks p up, and messages of p may be
\* dropped if its total is not zero.  low says whether the ratio of throttled messages
\* is below Threshold.
AcceptFrom(p, low) ==
    /\ ~ (lastThrottle > Quiet \/ throttle = 0 \/ (validate # 0 /\ low))
    /\ Bind(p, obj[PeerStats(p)])
    /\ UNCHANGED <<open, address, global>>

\* Time passes
GaterTick ==
    /\ lastThrottle' = UpTo(Quiet + 1, lastThrottle + 1)
    /\ obj' = [o \in Objects |-> [obj[o] EXCEPT !.left = Less(@)]]
    /\ UNCHANGED <<open, address, peerObj, ipObj, validate, throttle>>

-----------------------------------------------------------------------------
GaterInit ==
    /\ open = [p \in GatedPeers |-> 0]
    /\ address \in [GatedPeers -> Addresses]
    /\ peerObj = [p \in GatedPeers |-> None]
    /\ ipObj = [a \in Addresses |-> None]
    /\ obj = [o \in Objects |-> NewObj]
    /\ validate = 0 /\ throttle = 0 /\ lastThrottle = Quiet + 1

GaterNext ==
    \/ \E p \in GatedPeers, a \in Addresses : Move(p, a)
    \/ \E p \in GatedPeers :
          \/ GaterNewOutboundStream(p) \/ GaterClosedOutboundStream(p)
          \/ GaterClosedIncomingStream(p) \/ GaterCount(p)
          \/ \E low \in BOOLEAN : AcceptFrom(p, low)
    \/ GaterValidate \/ GaterThrottle \/ DecayStats \/ GaterTick

-----------------------------------------------------------------------------
(* Properties.                                                             *)

\* The streams of p, if p is bound to object o
Share(o) == [p \in GatedPeers |-> IF peerObj[p] = o THEN open[p] ELSE 0]

\* An object never counts more than the streams of the peers that are bound to it,
\* whatever the order in which colocated peers come, go, change their address and are
\* heard of late: every stream that is reported closed takes back what one of them
\* added, also when the object is shared, and a peer that is let go takes nothing along.
StreamsBound ==
    \A o \in Objects : obj[o].connected <= MapThenSumSet(LAMBDA p : Share(o)[p], GatedPeers)

\* The count of an object is a count of peers: "number of connected peer IDs mapped to
\* this stat object".
CountBound ==
    \A o \in Objects :
       obj[o].connected <= Cardinality({p \in GatedPeers : peerObj[p] = o /\ open[p] > 0})

=============================================================================
