---------------------------- MODULE MessageTracers ----------------------------
(***************************************************************************)
(* What the raw tracers keep of each message: the delivery records of      *)
(* score.go and the near-first deliveries of tag_tracer.go.  The operators *)
(* are the tracer methods, as functions from the state before to the state *)
(* after; pubsubTracer (trace.go) calls them for messages of remote peers. *)
(*                                                                         *)
(* The counters of the peers are kept as a ledger: how often the score was *)
(* asked to count a delivery of this message for a peer.  What the         *)
(* counters become is in PeerScore.                                        *)
(***************************************************************************)
EXTENDS Naturals

CONSTANTS
    Peers,      \* the remote peers
    Msgs,       \* message ids
    MaxCount    \* bound of the ledger's entries

ASSUME MaxCountAssumption == MaxCount \in Nat

\* status and peers are the deliveryRecord, "none" if there is none; tracking are the
\* messages with an entry in tagTracer.nearFirst.  An entry of the ledger counts first
\* deliveries, duplicates that count as mesh deliveries, and invalid deliveries: those
\* found by a validator and those that are plain to see.
NoTraces ==
    [status |-> [m \in Msgs |-> "none"], peers |-> [m \in Msgs |-> {}],
     tracking |-> {},
     ledger |-> [x \in Peers \X Msgs |-> [first |-> 0, near |-> 0, bad |-> 0, plain |-> 0]]]

-----------------------------------------------------------------------------
Up(n) == IF n < MaxCount THEN n + 1 ELSE n

\* markFirstMessageDelivery, markDuplicateMessageDelivery, markInvalidMessageDelivery
MarkFirst(led, p, m) == [led EXCEPT ![<<p, m>>].first = Up(@)]
MarkNear(led, S, m) ==
    [x \in DOMAIN led |-> IF x[1] \in S /\ x[2] = m THEN [led[x] EXCEPT !.near = Up(@)] ELSE led[x]]
MarkBad(led, S, m) ==
    [x \in DOMAIN led |-> IF x[1] \in S /\ x[2] = m THEN [led[x] EXCEPT !.bad = Up(@)] ELSE led[x]]
MarkPlain(led, p, m) == [led EXCEPT ![<<p, m>>].plain = Up(@)]

\* getRecord: the status of a record that is looked up
Looked(ts, m) == IF ts.status[m] = "none" THEN "unknown" ELSE ts.status[m]

\* ValidateMessage: validation begins
TraceValidate(ts, m) ==
    [status   |-> [ts.status EXCEPT ![m] = Looked(ts, m)],
     peers    |-> ts.peers,
     tracking |-> ts.tracking \cup {m},
     ledger   |-> ts.ledger]

\* DeliverMessage: the first delivery counts in any case; the peers that forwarded the
\* message in the meantime get their share if this is the first outcome
TraceDeliver(ts, p, m) ==
    LET fresh == Looked(ts, m) = "unknown"
    IN  [status   |-> [ts.status EXCEPT ![m] = IF fresh THEN "valid" ELSE @],
         peers    |-> ts.peers,
         tracking |-> ts.tracking \ {m},
         ledger   |-> MarkNear(MarkFirst(ts.ledger, p, m),
                               IF fresh THEN ts.peers[m] \ {p} ELSE {}, m)]

\* RejectMessage for reasons found before the message is tracked: the signature or the
\* origin are wrong, it comes from a blacklisted peer, or the queue is full
TraceRejectEarly(ts, p, m, reason) ==
    IF reason \in {"signature", "policy", "selfOrigin"}
    THEN [ts EXCEPT !.ledger = MarkPlain(@, p, m)] ELSE ts

\* RejectMessage for the outcomes of validation: "throttled", "ignored" or "failed"
TraceReject(ts, p, m, reason) ==
    LET again == p \in ts.peers[m]
        led   == MarkBad(ts.ledger, {p} \cup ts.peers[m], m)
    IN  IF Looked(ts, m) # "unknown" THEN [ts EXCEPT !.tracking = @ \ {m}]
        ELSE [status   |-> [ts.status EXCEPT ![m] = IF reason = "failed" THEN "invalid" ELSE reason],
              peers    |-> [ts.peers EXCEPT ![m] = {}],
              tracking |-> ts.tracking \ {m},
              ledger   |-> IF reason # "failed" THEN ts.ledger
                           ELSE IF again THEN MarkBad(led, {p}, m) ELSE led]

\* Faulty variant: a copy of a valid message counts every time
TraceDuplicateUnchecked(ts, p, m) ==
    [ts EXCEPT !.status[m] = Looked(ts, m),
               !.peers[m] = IF Looked(ts, m) \in {"unknown", "valid"} THEN @ \cup {p} ELSE @,
               !.ledger = IF ts.status[m] = "valid" THEN MarkNear(@, {p}, m) ELSE @]

\* DuplicateMessage: a peer is noted once; what it earns depends on what is known of
\* the message
TraceDuplicate(ts, p, m) ==
    LET s   == Looked(ts, m)
        new == p \notin ts.peers[m]
    IN  [status   |-> [ts.status EXCEPT ![m] = s],
         peers    |-> [ts.peers EXCEPT ![m] = IF s \in {"unknown", "valid"} THEN @ \cup {p} ELSE @],
         tracking |-> ts.tracking,
         ledger   |-> IF ~ new THEN ts.ledger
                      ELSE IF s = "valid" THEN MarkNear(ts.ledger, {p}, m)
                      ELSE IF s = "invalid" THEN MarkBad(ts.ledger, {p}, m) ELSE ts.ledger]
=============================================================================
