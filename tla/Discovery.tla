------------------------------ MODULE Discovery ------------------------------
(***************************************************************************)
(* Discovery as one node sees it.  Every interval the scheduler broadcasts *)
(* a DISCOVER_REQUEST; each peer's dispatcher answers with its alias; this *)
(* node's dispatcher enters the answer in the neighbors dictionary, the    *)
(* only place that learns of peers: a request from a peer is answered and  *)
(* leaves no trace here.                                                   *)
(*                                                                         *)
(* The dictionary keeps insertion order, so it is a sequence of entries.   *)
(* last_seen is abstracted to the age classes the code tells apart; an     *)
(* entry may grow older at any time.                                       *)
(***************************************************************************)
EXTENDS Nodes, Sequences, FiniteSets, SequencesExt

CONSTANTS
    MaxWire,        \* bound: frames under way between two nodes
    MaxAge,         \* bound: the oldest age class that is told apart
    Silent,         \* bound: the peers not heard of for longer
    MaxLoss,        \* bound: frames the network drops
    MaxRestarts     \* bound: restarts of peers, maybe under another alias

ASSUME DiscoveryAssumption ==
    /\ MaxAge \in 0 .. 2 /\ Silent \subseteq Peers
    /\ MaxWire \in Nat \ {0} /\ MaxLoss \in Nat /\ MaxRestarts \in Nat

VARIABLES
    alias,          \* what each peer is called now
    table,          \* Discovery.neighbors
    requests,       \* requests under way to each peer
    replies,        \* the aliases in the replies under way from each peer
    losses, restarts,
    announced       \* history: the aliases each peer has ever sent

discoveryVars ==
    <<alias, table, requests, replies, losses, restarts, announced>>

\* Age classes: seen within 10 s (0), within 60 s (1), longer ago (2).
Online == 0
Entry(mac, name) == [mac |-> mac, name |-> name, age |-> Online]

DiscoveryInit ==
    /\ alias \in [Peers -> Names]
    /\ table = <<>>
    /\ requests = [p \in Peers |-> 0] /\ replies = [p \in Peers |-> <<>>]
    /\ losses = 0 /\ restarts = 0
    /\ announced = [p \in Peers |-> {}]

\* The broadcast reaches every peer.  The interval is longer than it takes
\* MaxWire frames to get through.
TimerDiscover ==
    /\ \A p \in Peers : requests[p] + Len(replies[p]) < MaxWire
    /\ requests' = [p \in Peers |-> requests[p] + 1]
    /\ UNCHANGED <<alias, table, replies, losses, restarts, announced>>

\* Mutant: answers without having been asked.
OnDiscoverRequestAlways(p) ==
    /\ requests' = [requests EXCEPT ![p] = @ - 1]
    /\ replies' = [replies EXCEPT ![p] = Append(@, alias[p])]
    /\ announced' = [announced EXCEPT ![p] = @ \union {alias[p]}]
    /\ UNCHANGED <<alias, table, losses, restarts>>

\* The peer answers with the alias it has then.
OnDiscoverRequest(p) ==
    /\ requests[p] > 0
    /\ requests' = [requests EXCEPT ![p] = @ - 1]
    /\ replies' = [replies EXCEPT ![p] = Append(@, alias[p])]
    /\ announced' = [announced EXCEPT ![p] = @ \union {alias[p]}]
    /\ UNCHANGED <<alias, table, losses, restarts>>

\* Mutant: every reply makes an entry of its own.
EnteredTwice(mac, name) == Append(table, Entry(mac, name))

\* Mutant: a known neighbor is only marked as seen.
EnteredOnce(mac, name) ==
    IF \E i \in DOMAIN table : table[i].mac = mac
    THEN [i \in DOMAIN table |->
            IF table[i].mac = mac THEN [table[i] EXCEPT !.age = Online]
                                  ELSE table[i]]
    ELSE Append(table, Entry(mac, name))

\* An entry keeps its place when it is replaced.
Entered(mac, name) ==
    IF \E i \in DOMAIN table : table[i].mac = mac
    THEN [i \in DOMAIN table |->
            IF table[i].mac = mac THEN Entry(mac, name) ELSE table[i]]
    ELSE Append(table, Entry(mac, name))

OnDiscoverReply(p) ==
    /\ replies[p] # <<>>
    /\ replies' = [replies EXCEPT ![p] = Tail(@)]
    /\ table' = Entered(p, Head(replies[p]))
    /\ UNCHANGED <<alias, requests, losses, restarts, announced>>

-----------------------------------------------------------------------------
GrowOlder(i) ==
    /\ i \in DOMAIN table
    /\ table[i].mac \in Silent /\ table[i].age < MaxAge
    /\ table' = [table EXCEPT ![i].age = @ + 1]
    /\ UNCHANGED <<alias, requests, replies, losses, restarts, announced>>

LoseRequest(p) ==
    /\ losses < MaxLoss
    /\ requests[p] > 0
    /\ losses' = losses + 1
    /\ requests' = [requests EXCEPT ![p] = @ - 1]
    /\ UNCHANGED <<alias, table, replies, restarts, announced>>

LoseReply(p) ==
    /\ losses < MaxLoss
    /\ losses' = losses + 1
    /\ \E k \in DOMAIN replies[p] :
            replies' = [replies EXCEPT ![p] = RemoveAt(@, k)]
    /\ UNCHANGED <<alias, table, requests, restarts, announced>>

\* A peer's program ends and starts again: its queues are empty, its alias is
\* what the environment now says.
Restart(p, name) ==
    /\ restarts < MaxRestarts
    /\ restarts' = restarts + 1
    /\ alias' = [alias EXCEPT ![p] = name]
    /\ requests' = [requests EXCEPT ![p] = 0]
    /\ \E k \in 0 .. Len(replies[p]) :
            replies' = [replies EXCEPT ![p] = SubSeq(@, 1, k)]
    /\ UNCHANGED <<table, losses, announced>>

DiscoveryEnvironment ==
    \/ \E i \in 1 .. Cardinality(Peers) : GrowOlder(i)
    \/ \E p \in Peers : LoseRequest(p) \/ LoseReply(p)
    \/ \E p \in Peers, name \in Names : Restart(p, name)

DiscoveryNext ==
    \/ TimerDiscover
    \/ \E p \in Peers : OnDiscoverRequest(p) \/ OnDiscoverReply(p)
    \/ DiscoveryEnvironment

DiscoverySpec == DiscoveryInit /\ [][DiscoveryNext]_discoveryVars

-----------------------------------------------------------------------------
(***************************************************************************)
(* Properties                                                              *)
(***************************************************************************)

\* The dictionary, the wires and the counters have their types.
DiscoveryTypeOK ==
    /\ alias \in [Peers -> Names]
    /\ table \in Seq([mac : Peers, name : Names, age : 0 .. MaxAge])
    /\ requests \in [Peers -> 0 .. MaxWire]
    /\ replies \in [Peers -> Seq(Names)]
    /\ losses \in 0 .. MaxLoss /\ restarts \in 0 .. MaxRestarts
    /\ announced \in [Peers -> SUBSET Names]

\* A peer is listed once, under a name it has really announced, whatever is
\* lost and whoever restarts (_on_discover_request, _on_discover_reply).
TableSound ==
    /\ \A i, j \in DOMAIN table : table[i].mac = table[j].mac => i = j
    /\ \A i \in DOMAIN table : table[i].name \in announced[table[i].mac]

\* An entry never disappears and never moves: the user interface relies on
\* snapshots that only grow at the end (_on_discover_reply).
TableOnlyGrows ==
    [][/\ Len(table) <= Len(table')
       /\ \A i \in DOMAIN table : table'[i].mac = table[i].mac]_discoveryVars

\* The table has every peer, under its current alias.
TableRight ==
    \A p \in Peers : \E i \in DOMAIN table :
        table[i].mac = p /\ table[i].name = alias[p]
=============================================================================
