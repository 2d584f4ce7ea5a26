------------------------------ MODULE MCGossip ------------------------------
(* What we and our peers tell each other of topics and of messages, on     *)
(* small instances: Announcements, TopicEvents and Gossip.  They share no  *)
(* state and are checked side by side: in a behaviour only one of them     *)
(* moves.  The others stay in their initial states, where nothing that is  *)
(* fair is enabled but the heartbeat, which is fair only where it moves.   *)
EXTENDS Announcements, TopicEvents, Gossip

CONSTANTS p1, p2, h1, r1, r2

VARIABLE part

ToldInit ==
    /\ AnnInit /\ EvtInit /\ GossipInit
    /\ part \in {"announcements", "events", "gossip"}
    /\ part # "events" => ~ filtered
    /\ part # "gossip" => strategy = "first"

ToldNext ==
    /\ UNCHANGED part
    /\ \/ part = "announcements" /\ AnnNext /\ UNCHANGED <<evtVars, gossipVars>>
       \/ part = "events" /\ EvtNext /\ UNCHANGED <<annVars, gossipVars>>
       \/ part = "gossip" /\ GossipNext /\ UNCHANGED <<annVars, evtVars>>

ToldSpec ==
    /\ ToldInit
    /\ [][ToldNext]_<<part, annVars, evtVars, gossipVars>>
    /\ AnnFairness
    /\ WF_gossipVars(SendIWant) /\ WF_gossipVars(part = "gossip" /\ GossipHeartbeat)
=============================================================================
