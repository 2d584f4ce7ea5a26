--------------------------- MODULE PartialMessages ---------------------------
(***************************************************************************)
(* The extensions peers tell each other about when their streams start     *)
(* (extensions.go) and the one real extension: groups of partial messages  *)
(* of one topic, which we open by publishing and peers open by sending to  *)
(* us, up to a limit (partialmessages/partialmsgs.go).                     *)
(***************************************************************************)
EXTENDS Naturals, FiniteSets, FiniteSetsExt

CONSTANTS
    Partners,    \* the remote peers
    Groups,      \* group ids
    GroupTTL,    \* max(GroupTTLByHeatbeat, minGroupTTL)
    TotalLimit,  \* PeerInitiatedGroupLimitPerTopic
    PeerLimit    \* PeerInitiatedGroupLimitPerTopicPerPeer

ASSUME PartialAssumption ==
    /\ IsFiniteSet(Partners) /\ {"us", "nobody"} \cap Partners = {}
    /\ IsFiniteSet(Groups)
    /\ GroupTTL \in Nat /\ TotalLimit \in Nat /\ PeerLimit \in Nat

NoGroup == [ttl |-> 0, by |-> "nobody", states |-> {}]

VARIABLES
    peerExtensions,  \* what a peer said: "unknown", "none" or "partial"
    sentExtensions,  \* peers we sent ours to
    group,           \* statePerTopicPerGroup: its ttl, who initiated it ("us" for the
                     \* empty id) and the peers in its peerState
    total, perPeer   \* peerInitiatedGroupCounter

extVars  == <<peerExtensions, sentExtensions>>
partVars == <<peerExtensions, sentExtensions, group, total, perPeer>>

PartialInit ==
    /\ peerExtensions = [p \in Partners |-> "unknown"]
    /\ sentExtensions = {}
    /\ group = [g \in Groups |-> NoGroup]
    /\ total = 0 /\ perPeer = [p \in Partners |-> 0]

Live(g) == group[g] # NoGroup
InitiatedBy(p) == {g \in Groups : Live(g) /\ group[g].by = p}

-----------------------------------------------------------------------------
(* The counter of groups that peers initiated.                             *)

CanInc(p) == total < TotalLimit /\ perPeer[p] < PeerLimit

\* Dec, once for each group of gs that a peer initiated; a peer whose count is gone is
\* not counted down
Dec(gs) ==
    LET n == [p \in Partners |-> Min({perPeer[p], Cardinality(gs \cap InitiatedBy(p))})]
    IN  /\ perPeer' = [p \in Partners |-> perPeer[p] - n[p]]
        /\ total' = total - MapThenSumSet(LAMBDA p : n[p], Partners)

-----------------------------------------------------------------------------
(* Streams.                                                                *)

\* The first RPC of an inbound stream tells the peer's extensions; another one that does
\* so is reported as misbehaviour and changes nothing here
HandleExtensions(p, said) ==
    /\ peerExtensions[p] = "unknown"
    /\ peerExtensions' = [peerExtensions EXCEPT ![p] = said]
    /\ UNCHANGED <<sentExtensions, group, total, perPeer>>

OnClosedIncomingStream(p) ==
    /\ peerExtensions[p] # "unknown"
    /\ peerExtensions' = [peerExtensions EXCEPT ![p] = "unknown"]
    /\ UNCHANGED <<sentExtensions, group, total, perPeer>>

OnNewOutboundStream(p) ==
    /\ p \notin sentExtensions
    /\ sentExtensions' = sentExtensions \cup {p}
    /\ UNCHANGED <<peerExtensions, group, total, perPeer>>

\* The extension is told only if both sides' extensions are known; it forgets the peer's
\* states and its count, not the groups the peer initiated
OnClosedOutboundStream(p) ==
    /\ p \in sentExtensions
    /\ sentExtensions' = sentExtensions \ {p}
    /\ IF peerExtensions[p] = "partial"
       THEN /\ group' = [g \in Groups |-> [group[g] EXCEPT !.states = @ \ {p}]]
            /\ total' = total - perPeer[p]
            /\ perPeer' = [perPeer EXCEPT ![p] = 0]
       ELSE UNCHANGED <<group, total, perPeer>>
    /\ UNCHANGED peerExtensions

-----------------------------------------------------------------------------
(* Groups.                                                                 *)

\* HandleRPC with a partial message: groupState on behalf of the peer, which fails at the
\* limit, then OnIncomingRPC, which may record a state for the peer
HandleRPC(p, g, records) ==
    LET state == IF Live(g) THEN group[g] ELSE [ttl |-> GroupTTL, by |-> p, states |-> {}]
    IN
    /\ peerExtensions[p] = "partial"
    /\ Live(g) \/ CanInc(p)
    /\ group' = [group EXCEPT ![g] =
                    [state EXCEPT !.states = IF records THEN @ \cup {p} ELSE @]]
    /\ IF Live(g) THEN UNCHANGED <<total, perPeer>>
       ELSE total' = total + 1 /\ perPeer' = [perPeer EXCEPT ![p] = @ + 1]
    /\ UNCHANGED extVars

\* Faulty variant: a group we take over still counts as the peer's
PublishPartialKeepCount(g, ps) ==
    /\ group' = [group EXCEPT ![g] = [ttl |-> GroupTTL, by |-> "us", states |-> @.states \cup ps]]
    /\ UNCHANGED <<total, perPeer, extVars>>

\* PublishPartial: the group is ours from now on.  The peers ps of
\* partialMessageRouter.MeshPeers get a state: mesh or fanout peers whose extensions
\* include partial messages, and any that ask for them with their subscription, whatever
\* we know of their extensions
PublishPartial(g, ps) ==
    /\ Dec({g})
    /\ group' = [group EXCEPT ![g] = [ttl |-> GroupTTL, by |-> "us", states |-> @.states \cup ps]]
    /\ UNCHANGED extVars

\* EmitGossip, to peers of the topic outside the mesh
EmitGossip(ps) ==
    /\ group' = [g \in Groups |-> IF Live(g) /\ group[g].by = "us"
                                  THEN [group[g] EXCEPT !.states = @ \cup ps] ELSE group[g]]
    /\ UNCHANGED <<total, perPeer, extVars>>

\* Heartbeat: a group ends with its ttl, or when no peer has a state in it
Heartbeat ==
    LET over == {g \in Groups : Live(g) /\ (group[g].ttl = 0 \/ group[g].states = {})}
    IN  /\ group' = [g \in Groups |-> IF g \in over \/ ~ Live(g) THEN NoGroup
                                      ELSE [group[g] EXCEPT !.ttl = @ - 1]]
        /\ Dec(over)
        /\ UNCHANGED extVars

-----------------------------------------------------------------------------
PartialNext ==
    \/ \E p \in Partners : \/ \E said \in {"none", "partial"} : HandleExtensions(p, said)
                           \/ OnClosedIncomingStream(p)
                           \/ OnNewOutboundStream(p)
                           \/ OnClosedOutboundStream(p)
                           \/ \E g \in Groups, records \in BOOLEAN : HandleRPC(p, g, records)
    \/ \E ps \in SUBSET Partners : EmitGossip(ps) \/ \E g \in Groups : PublishPartial(g, ps)
    \/ Heartbeat

-----------------------------------------------------------------------------
\* A peer is not refused for groups that are gone: the counter never counts more groups
\* of a peer than there are, and the total is the sum of the counts.
NoPhantomGroups ==
    /\ \A p \in Partners : perPeer[p] \in 0 .. Cardinality(InitiatedBy(p))
    /\ total = MapThenSumSet(LAMBDA p : perPeer[p], Partners)

=============================================================================
