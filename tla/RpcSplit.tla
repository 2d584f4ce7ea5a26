------------------------------ MODULE RpcSplit ------------------------------
(***************************************************************************)
(* RPC.split (pubsub.go): an RPC that exceeds the size limits becomes      *)
(* several.  An RPC is the sizes of its messages, a sequence of other      *)
(* entries in the order split visits them (subscriptions, entries of the   *)
(* control message: extensions, GRAFT, PRUNE, and message ids, which sit   *)
(* in lists of the control message: IWANT, IDONTWANT and an IHAVE for each *)
(* topic) and the size of the fields split does not visit (partial).       *)
(***************************************************************************)
EXTENDS Naturals, Sequences, SequencesExt

CONSTANTS
    MaxRPCSize, MaxControlSize, \* maxMessageSize, maxControlMessageSize
    Sizes,                   \* sizes of messages and entries
    HaveTopics,              \* the topics of IHAVEs
    MaxMessages, MaxEntries  \* bounds: messages and other entries of an RPC

\* The limits leave room for a control message with an empty list
ASSUME SplitAssumption ==
    /\ MaxRPCSize \in Nat \ {0, 1} /\ MaxControlSize \in Nat \ {0, 1}
    /\ Sizes \subseteq Nat \ {0}
    /\ HaveTopics \cap {"sub", "entry", "iwant", "idontwant"} = {}
    /\ MaxMessages \in Nat /\ MaxEntries \in Nat

VARIABLES
    rpc,    \* the RPC: its messages, its other entries and what is partial
    called, \* whether split was called
    parts   \* what it yielded, a sequence of RPCs

splitVars == <<rpc, called, parts>>

Lists == {"iwant", "idontwant"} \cup HaveTopics

\* The order in which split visits the entries.  IHAVEs keep the order they have.
Rank(kind) == CASE kind = "sub" -> 0 [] kind = "entry" -> 1 [] kind = "iwant" -> 2
                [] kind = "idontwant" -> 3 [] OTHER -> 4

\* The kind of a message id is the list it is in.
Entries == [kind : {"sub", "entry"} \cup Lists, size : Sizes]
Rpcs == {r \in [publish : BoundedSeq(Sizes, MaxMessages), rest : BoundedSeq(Entries, MaxEntries),
                partial : {0} \cup Sizes] :
            \A i, j \in DOMAIN r.rest : i < j => Rank(r.rest[i].kind) <= Rank(r.rest[j].kind)}

SplitInit == rpc \in Rpcs /\ called = FALSE /\ parts = <<>>

-----------------------------------------------------------------------------
IsControl(e) == e.kind # "sub"
InList(e)    == e.kind \in Lists

TotalSize(sizes) ==
    LET sum[i \in 0 .. Len(sizes)] == IF i = 0 THEN 0 ELSE sum[i - 1] + sizes[i]
    IN  sum[Len(sizes)]

\* What an RPC has besides messages and the partial fields: whether there is a control
\* message, the lists of ids in it, and the entries
Rest(control, lists, entries) == [control |-> control, lists |-> lists, entries |-> entries]
Nothing == Rest(FALSE, <<>>, <<>>)

\* Whether the id at place i begins a list
Begins(entries, i) ==
    InList(entries[i]) /\ (i = 1 \/ entries[i - 1].kind # entries[i].kind)
ListsOf(entries) ==
    FlattenSeq([i \in DOMAIN entries |->
                  IF Begins(entries, i) THEN <<entries[i].kind>> ELSE <<>>])
Whole(entries) ==
    Rest(\E i \in DOMAIN entries : IsControl(entries[i]), ListsOf(entries), entries)

\* controlRPCSize, and proto.Size for an RPC without messages and partial fields.  The
\* control message and each list take room of their own, even when they are empty
RestSize(rest) ==
    TotalSize([i \in DOMAIN rest.entries |-> rest.entries[i].size])
        + (IF rest.control THEN 1 ELSE 0) + Len(rest.lists)

\* exceedsSizeLimits
Exceeds(rest) == RestSize(rest) > MaxRPCSize \/ RestSize(rest) > MaxControlSize

\* The messages: a new RPC whenever one does not fit
AddMessage(acc, size) ==
    IF acc.total + size > MaxRPCSize
    THEN [out |-> Append(acc.out, acc.next), next |-> <<size>>, total |-> size]
    ELSE [out |-> acc.out, next |-> Append(acc.next, size), total |-> acc.total + size]

SplitPublish(publish) ==
    LET after[i \in 0 .. Len(publish)] ==
            IF i = 0 THEN [out |-> <<>>, next |-> <<>>, total |-> 0]
            ELSE AddMessage(after[i - 1], publish[i])
        all == after[Len(publish)]
    IN  IF all.total > 0 THEN Append(all.out, all.next) ELSE all.out

\* Faulty variant: what does not fit is left out
PackDropping(acc, extended, alone) ==
    IF Exceeds(extended)
    THEN [out |-> Append(acc.out, acc.next), next |-> Nothing]
    ELSE [out |-> acc.out, next |-> extended]

\* The next RPC is extended; if that makes it too large, it is yielded as it was and
\* another one starts with what was to be added
Pack(acc, extended, alone) ==
    IF Exceeds(extended)
    THEN [out |-> Append(acc.out, acc.next), next |-> alone]
    ELSE [out |-> acc.out, next |-> extended]

\* The control message is opened before its first entry, a list whenever the next RPC
\* does not end with the one that is wanted
OpenControl(acc, e) ==
    IF IsControl(e) /\ ~ acc.next.control
    THEN Pack(acc, Rest(TRUE, acc.next.lists, acc.next.entries), Rest(TRUE, <<>>, <<>>))
    ELSE acc

OpenList(acc, e) ==
    IF InList(e) /\ (acc.next.lists = <<>> \/ Last(acc.next.lists) # e.kind)
    THEN Pack(acc, Rest(acc.next.control, Append(acc.next.lists, e.kind), acc.next.entries),
              Rest(TRUE, <<e.kind>>, <<>>))
    ELSE acc

AddEntry(acc, e) ==
    Pack(acc, Rest(acc.next.control, acc.next.lists, Append(acc.next.entries, e)), Whole(<<e>>))

SplitRest(entries) ==
    LET after[i \in 0 .. Len(entries)] ==
            IF i = 0 THEN [out |-> <<>>, next |-> Nothing]
            ELSE AddEntry(OpenList(OpenControl(after[i - 1], entries[i]), entries[i]), entries[i])
        all == after[Len(entries)]
    IN  IF RestSize(all.next) > 0 THEN Append(all.out, all.next) ELSE all.out

\* The fast path is for an RPC that fits without its messages; it keeps what is partial
FitsWhole(r) ==
    ~ Exceeds(Whole(r.rest)) /\ RestSize(Whole(r.rest)) + r.partial <= MaxRPCSize

OtherParts(r) ==
    IF ~ FitsWhole(r) THEN SplitRest(r.rest)
    ELSE IF r.rest = <<>> /\ r.partial = 0 THEN <<>> ELSE <<Whole(r.rest)>>
Carried(r) == IF FitsWhole(r) THEN r.partial ELSE 0

Part(publish, rest, partial) == [publish |-> publish, rest |-> rest, partial |-> partial]

\* split: the messages first
Split ==
    /\ ~ called /\ called' = TRUE
    /\ LET messages == SplitPublish(rpc.publish)
           others   == OtherParts(rpc)
       IN  parts' = [i \in DOMAIN messages |-> Part(messages[i], Nothing, 0)]
                        \o [i \in DOMAIN others |-> Part(<<>>, others[i], Carried(rpc))]
    /\ UNCHANGED rpc

SplitNext == Split

SplitSpec == SplitInit /\ [][SplitNext]_splitVars

-----------------------------------------------------------------------------
\* The parts hold every message and entry once and in order; the last one has what is
\* partial if everything but the messages fits into it, and no other part has it (the slow
\* path, which visits only the entries, loses it); and each part is within the limits
\* unless it holds a single message or entry, which the caller then drops.
SplitFaithful ==
    called =>
        /\ FlattenSeq([i \in DOMAIN parts |-> parts[i].publish]) = rpc.publish
        /\ FlattenSeq([i \in DOMAIN parts |-> parts[i].rest.entries]) = rpc.rest
        /\ \A i \in DOMAIN parts : parts[i].partial # 0 => i = Len(parts)
        /\ FitsWhole(rpc) /\ rpc.partial # 0 =>
              parts # <<>> /\ parts[Len(parts)].partial = rpc.partial
        /\ \A i \in DOMAIN parts :
              \/ /\ TotalSize(parts[i].publish) <= MaxRPCSize
                 /\ ~ Exceeds(parts[i].rest)
                 /\ RestSize(parts[i].rest) + parts[i].partial <= MaxRPCSize
              \/ Len(parts[i].publish) + Len(parts[i].rest.entries) = 1
=============================================================================
