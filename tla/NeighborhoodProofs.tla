-------------------------- MODULE NeighborhoodProofs --------------------------
(***************************************************************************)
(* From the neighbor table to the contact list, for any set of peers, any  *)
(* aliases and any bounds.  First discovery alone: the types, that the     *)
(* table lists each peer once under a name it has announced, and that its  *)
(* entries keep their places.  Then the composition: it takes only steps   *)
(* of discovery, and a user interface that has read its events lists what  *)
(* the table has.                                                          *)
(***************************************************************************)
EXTENDS Neighborhood, RosterProofs

Entries == [mac : Peers, name : Names, age : 0 .. MaxAge]

-----------------------------------------------------------------------------
(***************************************************************************)
(* Sequences                                                               *)
(***************************************************************************)

\* Head and tail of a sequence keep its type, and its elements.
LEMMA HeadTail ==
    ASSUME NEW S, NEW s \in Seq(S), s # <<>>
    PROVE  /\ Head(s) \in S /\ Head(s) = s[1] /\ 1 \in DOMAIN s
           /\ Tail(s) \in Seq(S)
           /\ \A i \in DOMAIN Tail(s) :
                i + 1 \in DOMAIN s /\ Tail(s)[i] = s[i + 1]
OBVIOUS

\* Appending keeps the elements and their places.
LEMMA Appending ==
    ASSUME NEW S, NEW s \in Seq(S), NEW x \in S
    PROVE  /\ Append(s, x) \in Seq(S)
           /\ Len(Append(s, x)) = Len(s) + 1
           /\ \A i \in DOMAIN s : Append(s, x)[i] = s[i]
           /\ Append(s, x)[Len(s) + 1] = x
           /\ DOMAIN Append(s, x) = DOMAIN s \union {Len(s) + 1}
OBVIOUS

\* The second part of two sequences put together.
LEMMA SecondPart ==
    ASSUME NEW S, NEW s \in Seq(S), NEW t \in Seq(S),
           NEW i \in DOMAIN (s \o t), i > Len(s)
    PROVE  i - Len(s) \in DOMAIN t /\ (s \o t)[i] = t[i - Len(s)]
OBVIOUS

\* An entry that has grown older is an entry of the same peer and name.
LEMMA OlderEntry ==
    ASSUME table \in Seq(Entries), NEW i \in DOMAIN table, MaxAge \in Nat,
           table[i].age < MaxAge,
           NEW older, older = [table EXCEPT ![i].age = @ + 1]
    PROVE  /\ older \in Seq(Entries) /\ Len(older) = Len(table)
           /\ \A j \in DOMAIN table : /\ older[j].mac = table[j].mac
                                      /\ older[j].name = table[j].name
<1> DEFINE e == [table[i] EXCEPT !.age = @ + 1]
<1>1. table[i] \in Entries
  OBVIOUS
<1>2. /\ table[i].age \in Nat
      /\ e = [mac |-> table[i].mac, name |-> table[i].name,
              age |-> table[i].age + 1]
  BY <1>1 DEF Entries
<1>3. e \in Entries /\ e.mac = table[i].mac /\ e.name = table[i].name
  BY <1>1, <1>2 DEF Entries
<1>4. older = [table EXCEPT ![i] = e]
  OBVIOUS
<1> HIDE DEF e
<1> QED BY <1>3, <1>4

\* What is left when one element is taken out was there before.
LEMMA Removing ==
    ASSUME NEW S, NEW s \in Seq(S), NEW k \in DOMAIN s
    PROVE  /\ RemoveAt(s, k) \in Seq(S)
           /\ \A i \in DOMAIN RemoveAt(s, k) :
                \E j \in DOMAIN s : RemoveAt(s, k)[i] = s[j]
<1>1. /\ SubSeq(s, 1, k - 1) \in Seq(S)
      /\ Len(SubSeq(s, 1, k - 1)) = k - 1
      /\ \A i \in 1 .. k - 1 : SubSeq(s, 1, k - 1)[i] = s[i]
  OBVIOUS
<1>2. /\ SubSeq(s, k + 1, Len(s)) \in Seq(S)
      /\ Len(SubSeq(s, k + 1, Len(s))) = Len(s) - k
      /\ \A i \in 1 .. Len(s) - k : SubSeq(s, k + 1, Len(s))[i] = s[k + i]
  OBVIOUS
<1>3. RemoveAt(s, k) \in Seq(S)
  BY <1>1, <1>2 DEF RemoveAt
<1>4. ASSUME NEW i \in DOMAIN RemoveAt(s, k)
      PROVE  \E j \in DOMAIN s : RemoveAt(s, k)[i] = s[j]
  <2>1. CASE i \in 1 .. k - 1
    <3>1. RemoveAt(s, k)[i] = s[i] /\ i \in DOMAIN s
      BY <1>1, <1>2, <2>1 DEF RemoveAt
    <3> QED BY <3>1
  <2>2. CASE i \notin 1 .. k - 1
    <3>1. i \in Nat /\ i > k - 1
      BY <1>1, <1>2, <1>4, <2>2 DEF RemoveAt
    <3>2. /\ i - (k - 1) \in 1 .. Len(s) - k
          /\ RemoveAt(s, k)[i] = SubSeq(s, k + 1, Len(s))[i - (k - 1)]
      <4> DEFINE u == SubSeq(s, 1, k - 1)
                 v == SubSeq(s, k + 1, Len(s))
      <4>1. u \in Seq(S) /\ v \in Seq(S) /\ Len(u) = k - 1
            /\ Len(v) = Len(s) - k /\ RemoveAt(s, k) = u \o v
        BY <1>1, <1>2 DEF RemoveAt
      <4> HIDE DEF u, v
      <4>2. i - Len(u) \in DOMAIN v /\ (u \o v)[i] = v[i - Len(u)]
        BY <1>4, <3>1, <4>1, SecondPart
      <4>3. i - (k - 1) \in DOMAIN v /\ RemoveAt(s, k)[i] = v[i - (k - 1)]
        BY <4>1, <4>2
      <4>4. DOMAIN v = 1 .. Len(s) - k
        BY <4>1
      <4> QED BY <4>3, <4>4 DEF v
    <3>3. SubSeq(s, k + 1, Len(s))[i - (k - 1)] = s[k + (i - (k - 1))]
      BY <1>2, <3>2
    <3>4. k + (i - (k - 1)) \in DOMAIN s
      BY <3>2
    <3> QED BY <3>2, <3>3, <3>4
  <2> QED BY <2>1, <2>2
<1> QED BY <1>3, <1>4

-----------------------------------------------------------------------------
(***************************************************************************)
(* The table                                                               *)
(***************************************************************************)

\* Entering a reply adds at most one entry, at the end, for a peer that had
\* none; the others keep peer and place.
LEMMA EnteredTable ==
    ASSUME table \in Seq(Entries), NEW p \in Peers, NEW name \in Names,
           MaxAge \in Nat
    PROVE  /\ Entered(p, name) \in Seq(Entries)
           /\ Len(table) <= Len(Entered(p, name))
           /\ \A i \in DOMAIN table : Entered(p, name)[i].mac = table[i].mac
           /\ \A i \in DOMAIN table :
                Entered(p, name)[i] \in {table[i], Entry(p, name)}
           /\ \A i \in DOMAIN Entered(p, name) \ DOMAIN table :
                /\ i = Len(table) + 1 /\ Entered(p, name)[i] = Entry(p, name)
                /\ \A j \in DOMAIN table : table[j].mac # p
<1>1. Entry(p, name) \in Entries /\ Entry(p, name).mac = p
  BY DEF Entry, Entries, Online
<1>2. CASE \E i \in DOMAIN table : table[i].mac = p
  <2>1. Entered(p, name) =
            [i \in DOMAIN table |->
                IF table[i].mac = p THEN Entry(p, name) ELSE table[i]]
    BY <1>2 DEF Entered
  <2>2. DOMAIN Entered(p, name) = DOMAIN table
    BY <2>1
  <2>3. Entered(p, name) \in Seq(Entries) /\ Len(Entered(p, name)) = Len(table)
    BY <1>1, <2>1
  <2> QED BY <1>1, <2>1, <2>2, <2>3
<1>3. CASE ~ \E i \in DOMAIN table : table[i].mac = p
  <2>1. Entered(p, name) = Append(table, Entry(p, name))
    BY <1>3 DEF Entered
  <2> QED BY <1>1, <1>3, <2>1, Appending
<1> QED BY <1>2, <1>3

-----------------------------------------------------------------------------
(***************************************************************************)
(* Types                                                                   *)
(***************************************************************************)

\* The types hold at the start.
LEMMA InitTypes == DiscoveryInit => DiscoveryTypeOK
  BY DiscoveryAssumption DEF DiscoveryInit, DiscoveryTypeOK

\* Every step keeps the types.
LEMMA NextTypes ==
    DiscoveryTypeOK /\ [DiscoveryNext]_discoveryVars => DiscoveryTypeOK'
<1> SUFFICES ASSUME DiscoveryTypeOK, [DiscoveryNext]_discoveryVars
             PROVE  DiscoveryTypeOK'
  OBVIOUS
<1> USE DiscoveryAssumption
<1>1. CASE TimerDiscover
  <2>1. \A p \in Peers : Len(replies[p]) \in Nat
    BY DEF DiscoveryTypeOK
  <2>2. \A p \in Peers : requests[p] + 1 \in 0 .. MaxWire
    BY <1>1, <2>1 DEF TimerDiscover, DiscoveryTypeOK
  <2> QED BY <1>1, <2>2 DEF TimerDiscover, DiscoveryTypeOK
<1>2. ASSUME NEW p \in Peers, OnDiscoverRequest(p)
      PROVE  DiscoveryTypeOK'
  <2>1. Append(replies[p], alias[p]) \in Seq(Names)
    BY DEF DiscoveryTypeOK
  <2>2. requests[p] - 1 \in 0 .. MaxWire
    BY <1>2 DEF OnDiscoverRequest, DiscoveryTypeOK
  <2> QED BY <1>2, <2>1, <2>2 DEF OnDiscoverRequest, DiscoveryTypeOK
<1>3. ASSUME NEW p \in Peers, OnDiscoverReply(p)
      PROVE  DiscoveryTypeOK'
  <2>1. replies[p] \in Seq(Names) /\ replies[p] # <<>>
    BY <1>3 DEF OnDiscoverReply, DiscoveryTypeOK
  <2>2. Head(replies[p]) \in Names /\ Tail(replies[p]) \in Seq(Names)
    BY <2>1, HeadTail
  <2>3. table \in Seq(Entries) /\ MaxAge \in Nat
    BY DEF DiscoveryTypeOK, Entries
  <2>4. Entered(p, Head(replies[p])) \in Seq(Entries)
    BY <2>2, <2>3, EnteredTable
  <2> QED BY <1>3, <2>2, <2>4 DEF OnDiscoverReply, DiscoveryTypeOK, Entries
<1>4. ASSUME NEW i, GrowOlder(i)
      PROVE  DiscoveryTypeOK'
  <2>1. table \in Seq(Entries) /\ i \in DOMAIN table
    BY <1>4 DEF GrowOlder, DiscoveryTypeOK, Entries
  <2>2. table' \in Seq(Entries)
    BY SMTT(60), <1>4, <2>1, OlderEntry DEF GrowOlder
  <2> QED BY <1>4, <2>2 DEF GrowOlder, DiscoveryTypeOK, Entries
<1>5. ASSUME NEW p \in Peers, LoseRequest(p)
      PROVE  DiscoveryTypeOK'
  <2>1. requests[p] - 1 \in 0 .. MaxWire /\ losses + 1 \in 0 .. MaxLoss
    BY <1>5 DEF LoseRequest, DiscoveryTypeOK
  <2> QED BY <1>5, <2>1 DEF LoseRequest, DiscoveryTypeOK
<1>6. ASSUME NEW p \in Peers, LoseReply(p)
      PROVE  DiscoveryTypeOK'
  <2>1. PICK k \in DOMAIN replies[p] :
            replies' = [replies EXCEPT ![p] = RemoveAt(@, k)]
    BY <1>6 DEF LoseReply
  <2>2. RemoveAt(replies[p], k) \in Seq(Names)
    BY Removing DEF DiscoveryTypeOK
  <2>3. losses + 1 \in 0 .. MaxLoss
    BY <1>6 DEF LoseReply, DiscoveryTypeOK
  <2> QED BY <1>6, <2>1, <2>2, <2>3 DEF LoseReply, DiscoveryTypeOK
<1>7. ASSUME NEW p \in Peers, NEW name \in Names, Restart(p, name)
      PROVE  DiscoveryTypeOK'
  <2>1. PICK k \in 0 .. Len(replies[p]) :
            replies' = [replies EXCEPT ![p] = SubSeq(@, 1, k)]
    BY <1>7 DEF Restart
  <2>2. replies[p] \in Seq(Names)
    BY DEF DiscoveryTypeOK
  <2>3. SubSeq(replies[p], 1, k) \in Seq(Names)
    BY <2>2
  <2>4. restarts + 1 \in 0 .. MaxRestarts
    BY <1>7 DEF Restart, DiscoveryTypeOK
  <2> QED BY <1>7, <2>1, <2>3, <2>4 DEF Restart, DiscoveryTypeOK
<1>8. CASE UNCHANGED discoveryVars
  BY <1>8 DEF discoveryVars, DiscoveryTypeOK
<1> QED
  BY <1>1, <1>2, <1>3, <1>4, <1>5, <1>6, <1>7, <1>8
  DEF DiscoveryNext, DiscoveryEnvironment

\* The dictionary, the wires and the counters keep their types.
THEOREM DiscoveryTypeCorrect == DiscoverySpec => []DiscoveryTypeOK
  BY InitTypes, NextTypes, PTL DEF DiscoverySpec

-----------------------------------------------------------------------------
(***************************************************************************)
(* The table is sound                                                      *)
(***************************************************************************)

\* A reply under way carries an alias its sender has announced.
RepliesAnnounced ==
    \A p \in Peers : \A i \in DOMAIN replies[p] :
        replies[p][i] \in announced[p]

DInv == DiscoveryTypeOK /\ TableSound /\ RepliesAnnounced

\* The strengthened invariant holds at the start.
LEMMA InitDInv == DiscoveryInit => DInv
  BY InitTypes DEF DiscoveryInit, DInv, TableSound, RepliesAnnounced

\* Every step keeps it: only a request that is answered announces an alias, and
\* only a reply under way gets into the table.
LEMMA NextDInv == DInv /\ [DiscoveryNext]_discoveryVars => DInv'
<1> SUFFICES ASSUME DInv, [DiscoveryNext]_discoveryVars
             PROVE  (TableSound /\ RepliesAnnounced)'
  BY NextTypes DEF DInv
<1> USE DiscoveryAssumption DEF DInv
<1>1. CASE TimerDiscover
  BY <1>1 DEF TimerDiscover, TableSound, RepliesAnnounced
<1>2. ASSUME NEW p \in Peers, OnDiscoverRequest(p)
      PROVE  (TableSound /\ RepliesAnnounced)'
  <2>1. /\ announced' = [announced EXCEPT ![p] = @ \union {alias[p]}]
        /\ announced \in [Peers -> SUBSET Names] /\ table' = table
    BY <1>2 DEF OnDiscoverRequest, DiscoveryTypeOK
  <2>2. \A q \in Peers : announced[q] \subseteq announced'[q]
    BY <2>1
  <2>3. \A i \in DOMAIN table : table[i].mac \in Peers
    <3>1. table \in Seq(Entries)
      BY DEF DiscoveryTypeOK, Entries
    <3>2. \A i \in DOMAIN table : table[i] \in Entries
      BY <3>1
    <3> QED BY <3>2 DEF Entries
  <2>4. TableSound'
    BY <2>1, <2>2, <2>3 DEF TableSound
  <2>5. replies[p] \in Seq(Names) /\ alias[p] \in Names
    BY DEF DiscoveryTypeOK
  <2>6. /\ replies'[p] = Append(replies[p], alias[p])
        /\ \A q \in Peers \ {p} : replies'[q] = replies[q]
        /\ alias[p] \in announced'[p]
    BY <1>2, <2>1 DEF OnDiscoverRequest, DiscoveryTypeOK
  <2>7. \A i \in DOMAIN replies'[p] : replies'[p][i] \in announced'[p]
    BY <2>2, <2>5, <2>6, Appending DEF RepliesAnnounced
  <2>8. RepliesAnnounced'
    BY <2>2, <2>6, <2>7 DEF RepliesAnnounced
  <2> QED BY <2>4, <2>8
<1>3. ASSUME NEW p \in Peers, OnDiscoverReply(p)
      PROVE  (TableSound /\ RepliesAnnounced)'
  <2>1. replies[p] \in Seq(Names) /\ replies[p] # <<>>
    BY <1>3 DEF OnDiscoverReply, DiscoveryTypeOK
  <2> DEFINE name == Head(replies[p])
  <2>2. name \in Names /\ name \in announced[p]
    BY <2>1, HeadTail DEF RepliesAnnounced
  <2>3. /\ table' = Entered(p, name) /\ announced' = announced
        /\ replies' = [replies EXCEPT ![p] = Tail(@)]
    BY <1>3 DEF OnDiscoverReply
  <2>4. Entry(p, name).mac = p /\ Entry(p, name).name = name
    BY DEF Entry
  <2> HIDE DEF name
  <2>5. /\ \A i \in DOMAIN table : table'[i].mac = table[i].mac
        /\ \A i \in DOMAIN table : table'[i] \in {table[i], Entry(p, name)}
        /\ \A i \in DOMAIN table' \ DOMAIN table :
             /\ i = Len(table) + 1 /\ table'[i] = Entry(p, name)
             /\ \A j \in DOMAIN table : table[j].mac # p
    <3>1. table \in Seq(Entries) /\ MaxAge \in Nat
      BY DEF DiscoveryTypeOK, Entries
    <3> QED BY <2>2, <2>3, <3>1, EnteredTable
  <2>6. \A i, j \in DOMAIN table' : table'[i].mac = table'[j].mac => i = j
    BY <2>4, <2>5 DEF TableSound
  <2>7. \A i \in DOMAIN table' : table'[i].name \in announced[table'[i].mac]
    BY <2>2, <2>4, <2>5 DEF TableSound
  <2>8. RepliesAnnounced'
    BY <2>1, <2>3, HeadTail DEF RepliesAnnounced, DiscoveryTypeOK
  <2> QED BY <2>3, <2>6, <2>7, <2>8 DEF TableSound
<1>4. ASSUME NEW i, GrowOlder(i)
      PROVE  (TableSound /\ RepliesAnnounced)'
  <2>1. /\ table' = [table EXCEPT ![i].age = @ + 1] /\ i \in DOMAIN table
        /\ replies' = replies /\ announced' = announced
    BY <1>4 DEF GrowOlder
  <2>2. table \in Seq(Entries) /\ table[i].age < MaxAge
    BY <1>4 DEF GrowOlder, DiscoveryTypeOK, Entries
  <2>3. /\ DOMAIN table' = DOMAIN table
        /\ \A j \in DOMAIN table : /\ table'[j].mac = table[j].mac
                                   /\ table'[j].name = table[j].name
    BY <2>1, <2>2, OlderEntry
  <2> QED BY <2>1, <2>3 DEF TableSound, RepliesAnnounced
<1>5. ASSUME NEW p \in Peers, LoseRequest(p)
      PROVE  (TableSound /\ RepliesAnnounced)'
  BY <1>5 DEF LoseRequest, TableSound, RepliesAnnounced
<1>6. ASSUME NEW p \in Peers, LoseReply(p)
      PROVE  (TableSound /\ RepliesAnnounced)'
  <2>1. PICK k \in DOMAIN replies[p] :
            replies' = [replies EXCEPT ![p] = RemoveAt(@, k)]
    BY <1>6 DEF LoseReply
  <2>2. replies[p] \in Seq(Names)
    BY DEF DiscoveryTypeOK
  <2>3. \A i \in DOMAIN RemoveAt(replies[p], k) :
            RemoveAt(replies[p], k)[i] \in announced[p]
    BY <2>2, Removing DEF RepliesAnnounced
  <2> QED
    BY <1>6, <2>1, <2>3
    DEF LoseReply, TableSound, RepliesAnnounced, DiscoveryTypeOK
<1>7. ASSUME NEW p \in Peers, NEW name \in Names, Restart(p, name)
      PROVE  (TableSound /\ RepliesAnnounced)'
  <2>1. PICK k \in 0 .. Len(replies[p]) :
            replies' = [replies EXCEPT ![p] = SubSeq(@, 1, k)]
    BY <1>7 DEF Restart
  <2>2. replies[p] \in Seq(Names)
    BY DEF DiscoveryTypeOK
  <2>3. \A i \in DOMAIN SubSeq(replies[p], 1, k) :
            SubSeq(replies[p], 1, k)[i] \in announced[p]
    BY <2>2 DEF RepliesAnnounced
  <2> QED
    BY <1>7, <2>1, <2>3
    DEF Restart, TableSound, RepliesAnnounced, DiscoveryTypeOK
<1>8. CASE UNCHANGED discoveryVars
  BY <1>8 DEF discoveryVars, TableSound, RepliesAnnounced
<1> QED
  BY <1>1, <1>2, <1>3, <1>4, <1>5, <1>6, <1>7, <1>8
  DEF DiscoveryNext, DiscoveryEnvironment

\* However many peers there are, and whatever is lost or restarted, the table
\* lists each once and under a name it has announced.
THEOREM TableSoundness == DiscoverySpec => []TableSound
<1>1. DInv => TableSound
  BY DEF DInv
<1> QED BY <1>1, InitDInv, NextDInv, PTL DEF DiscoverySpec

-----------------------------------------------------------------------------
(***************************************************************************)
(* The table only grows                                                    *)
(***************************************************************************)

\* No single step shortens the table or puts another peer at a position.
LEMMA StepGrows ==
    DiscoveryTypeOK /\ [DiscoveryNext]_discoveryVars =>
        [/\ Len(table) <= Len(table')
         /\ \A i \in DOMAIN table :
                table'[i].mac = table[i].mac]_discoveryVars
<1> SUFFICES ASSUME DiscoveryTypeOK, DiscoveryNext
             PROVE  /\ Len(table) <= Len(table')
                    /\ \A i \in DOMAIN table : table'[i].mac = table[i].mac
  OBVIOUS
<1> USE DiscoveryAssumption
<1>1. CASE table' = table
  BY <1>1 DEF DiscoveryTypeOK
<1>2. ASSUME NEW p \in Peers, OnDiscoverReply(p)
      PROVE  /\ Len(table) <= Len(table')
             /\ \A i \in DOMAIN table : table'[i].mac = table[i].mac
  <2>1. replies[p] \in Seq(Names) /\ replies[p] # <<>>
    BY <1>2 DEF OnDiscoverReply, DiscoveryTypeOK
  <2>2. Head(replies[p]) \in Names
    BY <2>1, HeadTail
  <2>3. table \in Seq(Entries) /\ MaxAge \in Nat
    BY DEF DiscoveryTypeOK, Entries
  <2> DEFINE name == Head(replies[p])
  <2>4. table' = Entered(p, name) /\ name \in Names
    BY <1>2, <2>2 DEF OnDiscoverReply
  <2> HIDE DEF name
  <2> QED BY <2>3, <2>4, EnteredTable
<1>3. ASSUME NEW i, GrowOlder(i)
      PROVE  /\ Len(table) <= Len(table')
             /\ \A j \in DOMAIN table : table'[j].mac = table[j].mac
  <2>1. table \in Seq(Entries)
    BY DEF DiscoveryTypeOK, Entries
  <2>2. /\ Len(table') = Len(table)
        /\ \A j \in DOMAIN table : table'[j].mac = table[j].mac
    BY <1>3, <2>1, OlderEntry DEF GrowOlder
  <2> QED BY <2>1, <2>2
<1> QED
  BY <1>1, <1>2, <1>3
  DEF DiscoveryNext, DiscoveryEnvironment, TimerDiscover, OnDiscoverRequest,
      LoseRequest, LoseReply, Restart

\* No step takes an entry out of the table or moves it.
THEOREM TableGrowth == DiscoverySpec => TableOnlyGrows
  BY DiscoveryTypeCorrect, StepGrows, PTL DEF DiscoverySpec, TableOnlyGrows

-----------------------------------------------------------------------------
(***************************************************************************)
(* The composition takes steps of discovery                                *)
(***************************************************************************)

\* Scheduling, broadcasting and listing touch nothing of discovery.
LEMMA StepIsDiscovery == [Next]_vars => [DiscoveryNext]_discoveryVars
<1> SUFFICES ASSUME [Next]_vars
             PROVE  DiscoveryNext \/ UNCHANGED discoveryVars
  OBVIOUS
<1>1. CASE TimerDiscover \/ (\E p \in Peers : OnDiscoverRequest(p))
           \/ DiscoveryEnvironment
  BY <1>1 DEF DiscoveryNext
<1>2. ASSUME NEW p \in Peers, Reply(p)
      PROVE  DiscoveryNext
  BY <1>2 DEF Reply, DiscoveryNext
<1>3. CASE IpcNext
  BY <1>3 DEF IpcNext, StartIpc, Connect, Bootstrap, NeighborsGet, Broadcast,
              PumpEvent
<1>4. CASE UNCHANGED vars
  BY <1>4 DEF vars
<1> QED BY <1>1, <1>2, <1>3, <1>4 DEF Next

\* The node with its user interface behaves towards the peers as discovery
\* alone: whatever the path to the list does, it does not disturb the table.
THEOREM ImplementsDiscovery == Spec => DiscoverySpec
<1>1. Init => DiscoveryInit
  BY DEF Init
<1> QED BY <1>1, StepIsDiscovery, PTL DEF Spec, DiscoverySpec

\* The dictionary, the wires and the counters keep their types in the
\* composition.
THEOREM TableTypes == Spec => []DiscoveryTypeOK
  BY ImplementsDiscovery, DiscoveryTypeCorrect, PTL

\* Nor does the table list a peer twice, or under a name it never announced.
THEOREM TableIsSound == Spec => []TableSound
  BY ImplementsDiscovery, TableSoundness, PTL

-----------------------------------------------------------------------------
(***************************************************************************)
(* A list that has read everything is complete                             *)
(***************************************************************************)

\* The rows are those of the table, but for the ages.
SameRows(rows, t) ==
    /\ DOMAIN rows = DOMAIN t
    /\ \A i \in DOMAIN t : rows[i].mac = t[i].mac /\ rows[i].name = t[i].name

\* A snapshot of the table t or of what it was before.
Early(rows, t) == Event(rows) /\ MacsOf(rows) \subseteq MacsOf(t)

\* The newest broadcast that waits is of the table as it is; so is, when none
\* waits, the newest line the user interface has not read.  The answer to
\* neighbors_get may overtake broadcasts of older tables, never the newest.
PathInv ==
    /\ ListInv /\ MacsOf(contacts) \subseteq MacsOf(table)
    /\ asked \in BOOLEAN /\ answered \in BOOLEAN
    /\ asked => ipc = "connected"
    /\ answered => asked
    /\ ipc = "down" => scheduled = <<>>
    /\ scheduled \in Seq(Seq(Rows))
    /\ \A i \in DOMAIN scheduled : Early(scheduled[i], table)
    /\ scheduled # <<>> => SameRows(scheduled[Len(scheduled)], table)
    /\ events \in Seq(Seq(Rows))
    /\ \A i \in DOMAIN events : Early(events[i], table)
    /\ answered /\ scheduled = <<>> /\ events # <<>>
            => SameRows(events[Len(events)], table)
    /\ RosterComplete

NInv == DInv /\ PathInv

\* A snapshot tells of every entry of the table, once.
LEMMA SnapshotTells ==
    ASSUME NEW t, t \in Seq(Entries),
           \A i, j \in DOMAIN t : t[i].mac = t[j].mac => i = j
    PROVE  /\ Event(SnapshotOf(t)) /\ SameRows(SnapshotOf(t), t)
<1> DEFINE rows == SnapshotOf(t)
<1>1. /\ DOMAIN rows = DOMAIN t
      /\ \A i \in DOMAIN t :
            rows[i] = [mac |-> t[i].mac, name |-> t[i].name,
                       online |-> t[i].age = Online]
  BY DEF SnapshotOf
<1>2. /\ Len(t) \in Nat /\ DOMAIN t = 1 .. Len(t)
      /\ \A i \in DOMAIN t : t[i].mac \in Peers /\ t[i].name \in Names
  <2>1. \A i \in DOMAIN t : t[i] \in Entries
    OBVIOUS
  <2> QED BY <2>1 DEF Entries
<1>3. \A i \in DOMAIN t : /\ rows[i] \in Rows /\ rows[i].mac = t[i].mac
                          /\ rows[i].name = t[i].name
  <2> HIDE DEF rows
  <2> SUFFICES ASSUME NEW i \in DOMAIN t
               PROVE  /\ rows[i] \in Rows /\ rows[i].mac = t[i].mac
                      /\ rows[i].name = t[i].name
    OBVIOUS
  <2> DEFINE o == t[i].age = Online
  <2>1. o \in BOOLEAN
    OBVIOUS
  <2>2. rows[i] = [mac |-> t[i].mac, name |-> t[i].name, online |-> o]
    BY <1>1
  <2> HIDE DEF o
  <2> QED BY <1>2, <2>1, <2>2 DEF Rows
<1>4. rows \in [1 .. Len(t) -> Rows]
  <2>1. rows = [i \in 1 .. Len(t) |-> rows[i]]
    BY <1>2 DEF SnapshotOf
  <2> HIDE DEF rows
  <2> QED BY <1>2, <1>3, <2>1
<1> HIDE DEF rows
<1>5. rows \in Seq(Rows)
  BY <1>2, <1>4
<1> QED BY <1>1, <1>3, <1>5 DEF Event, Distinct, SameRows, rows

\* Rows of the same neighbors and names list the same MACs.
LEMMA SameMacs ==
    ASSUME NEW rows, NEW t, SameRows(rows, t)
    PROVE  MacsOf(rows) = MacsOf(t)
BY DEF SameRows, MacsOf

\* They have each name as often.
LEMMA SameNames ==
    ASSUME NEW rows, NEW t, SameRows(rows, t), NEW name
    PROVE  Named(rows, name) = Named(t, name)
<1>1. {i \in DOMAIN rows : rows[i].name = name}
        = {i \in DOMAIN t : t[i].name = name}
  BY DEF SameRows
<1> QED BY <1>1 DEF Named

\* A list that shows the rows has each name as often as they.
LEMMA ShownNames ==
    ASSUME NEW s, NEW rows \in Seq(Rows), Shows(s, rows), NEW name
    PROVE  Named(s, name) = Named(rows, name)
<1> DEFINE S == {i \in DOMAIN rows : rows[i].name = name}
           T == {i \in DOMAIN s : s[i].name = name}
<1>1. PICK b \in Bijection(DOMAIN rows, DOMAIN s) :
        \A j \in DOMAIN rows : s[b[j]].name = rows[j].name
  BY DEF Shows
<1>2. /\ b \in [DOMAIN rows -> DOMAIN s]
      /\ \A i, j \in DOMAIN rows : b[i] = b[j] => i = j
      /\ \A k \in DOMAIN s : \E i \in DOMAIN rows : b[i] = k
  BY BijectionFacts
<1> DEFINE f == [i \in S |-> b[i]]
<1>3. f \in [S -> T] /\ \A i, j \in S : f[i] = f[j] => i = j
  BY <1>1, <1>2
<1>4. \A k \in T : \E i \in S : f[i] = k
  BY <1>1, <1>2
<1>5. IsFiniteSet(DOMAIN rows)
  BY FS_Interval
<1>6. IsFiniteSet(S)
  BY <1>5, FS_Subset
<1> HIDE DEF f, S, T
<1>7. f \in Bijection(S, T)
  BY <1>3, <1>4, Fun_IsBij
<1>8. Cardinality(T) = Cardinality(S)
  BY <1>6, <1>7, FS_Bijection DEF ExistsBijection
<1> QED BY <1>8 DEF Named, S, T

\* What is appended is the last element.
LEMMA Queued ==
    ASSUME NEW S, NEW s \in Seq(S), NEW x \in S
    PROVE  /\ Append(s, x) \in Seq(S) /\ Append(s, x) # <<>>
           /\ Append(s, x)[Len(Append(s, x))] = x
           /\ \A i \in DOMAIN Append(s, x) :
                \/ Append(s, x)[i] = x
                \/ \E j \in DOMAIN s : Append(s, x)[i] = s[j]
OBVIOUS

\* What is left of a queue ends as the queue did; of a queue of one nothing is
\* left.
LEMMA Dequeued ==
    ASSUME NEW S, NEW s \in Seq(S), s # <<>>
    PROVE  /\ Tail(s) # <<>> => Tail(s)[Len(Tail(s))] = s[Len(s)]
           /\ Tail(s) = <<>> => Head(s) = s[Len(s)]
           /\ \A i \in DOMAIN Tail(s) : \E j \in DOMAIN s : Tail(s)[i] = s[j]
<1>1. /\ Len(s) \in Nat \ {0} /\ Len(Tail(s)) = Len(s) - 1
      /\ DOMAIN s = 1 .. Len(s) /\ DOMAIN Tail(s) = 1 .. Len(s) - 1
      /\ \A i \in 1 .. Len(s) - 1 : Tail(s)[i] = s[i + 1]
      /\ Head(s) = s[1]
  OBVIOUS
<1>2. Tail(s) = <<>> => Len(s) = 1
  <2>1. Len(<<>>) = 0
    OBVIOUS
  <2>2. Tail(s) = <<>> => Len(Tail(s)) = Len(<<>>)
    BY Zenon
  <2> QED BY <1>1, <2>1, <2>2
<1>3. Tail(s) # <<>> => Len(s) > 1
  OBVIOUS
<1> QED BY <1>1, <1>2, <1>3

\* While the table keeps its entries, but for the ages, and nothing else moves,
\* the path stays as it is.
LEMMA PathStays ==
    ASSUME PathInv, SameRows(table', table), UNCHANGED <<rosterVars, ipcVars>>
    PROVE  PathInv'
<1>1. /\ contacts' = contacts /\ idx' = idx /\ ipc' = ipc /\ asked' = asked
      /\ answered' = answered /\ scheduled' = scheduled /\ events' = events
  BY DEF rosterVars, ipcVars
<1>2. MacsOf(table') = MacsOf(table)
  BY SameMacs
<1>3. \A name : Named(table', name) = Named(table, name)
  BY SameNames
<1>4. \A rows : SameRows(rows, table) => SameRows(rows, table')
  BY DEF SameRows
<1>5. \A rows : Early(rows, table) => Early(rows, table')
  BY <1>2 DEF Early
<1>6. ListInv'
  BY <1>1 DEF PathInv, ListInv
<1>7. RosterComplete'
  BY <1>1, <1>2, <1>3 DEF PathInv, RosterComplete, Quiet
<1> QED BY <1>1, <1>2, <1>4, <1>5, <1>6, <1>7 DEF PathInv

\* The peers, the network and time leave the entries of the table as they are,
\* but for the ages.
LEMMA EntriesStay ==
    ASSUME DInv,
           \/ TimerDiscover
           \/ \E p \in Peers : OnDiscoverRequest(p)
           \/ DiscoveryEnvironment
    PROVE  SameRows(table', table)
<1>1. CASE table' = table
  BY <1>1 DEF SameRows
<1>2. ASSUME NEW i, GrowOlder(i)
      PROVE  SameRows(table', table)
  <2>1. table \in Seq(Entries) /\ MaxAge \in Nat
    BY DiscoveryAssumption DEF DInv, DiscoveryTypeOK, Entries
  <2>2. /\ i \in DOMAIN table /\ table[i].age < MaxAge
        /\ table' = [table EXCEPT ![i].age = @ + 1]
    BY <1>2 DEF GrowOlder
  <2>3. DOMAIN table' = DOMAIN table
    BY <2>2
  <2> QED BY <2>1, <2>2, <2>3, OlderEntry DEF SameRows
<1> QED
  BY <1>1, <1>2
  DEF DiscoveryEnvironment, TimerDiscover, OnDiscoverRequest, LoseRequest,
      LoseReply, Restart

\* A reply that is entered is also scheduled, once there is a loop.
LEMMA ReplyKeepsPath ==
    ASSUME DInv, DInv', PathInv, NEW p \in Peers, Reply(p)
    PROVE  PathInv'
<1>1. /\ contacts' = contacts /\ idx' = idx /\ ipc' = ipc /\ asked' = asked
      /\ answered' = answered /\ events' = events
      /\ scheduled' = IF ipc = "down" THEN scheduled
                      ELSE Append(scheduled, SnapshotOf(table'))
  BY DEF Reply, rosterVars
<1>2. MacsOf(table) \subseteq MacsOf(table')
  <2>1. DiscoveryTypeOK /\ DiscoveryNext
    BY DEF DInv, Reply, DiscoveryNext
  <2>2. CASE UNCHANGED discoveryVars
    BY <2>2 DEF discoveryVars
  <2>3. CASE ~ UNCHANGED discoveryVars
    <3>1. /\ Len(table) <= Len(table')
          /\ \A i \in DOMAIN table : table'[i].mac = table[i].mac
      BY <2>1, <2>3, StepGrows
    <3>2. table \in Seq(Entries) /\ table' \in Seq(Entries)
      BY DEF DInv, DiscoveryTypeOK, Entries
    <3>3. DOMAIN table \subseteq DOMAIN table'
      BY <3>1, <3>2
    <3> QED BY <3>1, <3>3 DEF MacsOf
  <2> QED BY <2>2, <2>3
<1> DEFINE rows == SnapshotOf(table')
<1>3. Event(rows) /\ SameRows(rows, table')
  <2>1. table' \in Seq(Entries)
    BY DEF DInv, DiscoveryTypeOK, Entries
  <2>2. \A i, j \in DOMAIN table' : table'[i].mac = table'[j].mac => i = j
    BY DEF DInv, TableSound
  <2> QED BY <2>1, <2>2, SnapshotTells
<1> HIDE DEF rows
<1>4. Early(rows, table') /\ rows \in Seq(Rows)
  BY <1>3, SameMacs DEF Early, Event
<1>5. \A r : Early(r, table) => Early(r, table')
  BY <1>2 DEF Early
<1>6. ListInv' /\ MacsOf(contacts') \subseteq MacsOf(table')
  BY <1>1, <1>2 DEF PathInv, ListInv
<1>7. CASE ipc = "down"
  <2>1. scheduled' = scheduled /\ scheduled = <<>> /\ ~answered
    BY <1>1, <1>7 DEF PathInv
  <2>2. RosterComplete'
    BY <1>1, <2>1 DEF RosterComplete, Quiet
  <2> QED BY <1>1, <1>5, <1>6, <2>1, <2>2 DEF PathInv
<1>8. CASE ipc # "down"
  <2>1. scheduled' = Append(scheduled, rows) /\ scheduled \in Seq(Seq(Rows))
    BY <1>1, <1>8 DEF PathInv, rows
  <2>2. /\ scheduled' \in Seq(Seq(Rows)) /\ scheduled' # <<>>
        /\ scheduled'[Len(scheduled')] = rows
        /\ \A i \in DOMAIN scheduled' :
                scheduled'[i] = rows
                \/ \E j \in DOMAIN scheduled : scheduled'[i] = scheduled[j]
    BY <1>4, <2>1, Queued
  <2>3. \A i \in DOMAIN scheduled' : Early(scheduled'[i], table')
    BY <1>4, <1>5, <2>2 DEF PathInv
  <2>4. RosterComplete'
    BY <2>2 DEF RosterComplete, Quiet
  <2>5. \A i \in DOMAIN events : Early(events[i], table')
    BY <1>5 DEF PathInv
  <2> QED
    BY <1>1, <1>3, <1>6, <1>8, <2>2, <2>3, <2>4, <2>5 DEF PathInv
<1> QED BY <1>7, <1>8

\* The answer to neighbors_get is a snapshot of the table as it is.
LEMMA AnswerKeepsPath ==
    ASSUME DInv, PathInv, NeighborsGet
    PROVE  PathInv'
<1>1. /\ contacts' = contacts /\ idx' = idx /\ ipc' = ipc /\ asked' = asked
      /\ asked = TRUE /\ answered' = TRUE /\ scheduled' = scheduled
      /\ events' = Append(events, SnapshotOf(table)) /\ table' = table
  BY DEF NeighborsGet, PathInv, rosterVars, discoveryVars
<1> DEFINE rows == SnapshotOf(table)
<1>2. Event(rows) /\ SameRows(rows, table)
  BY SnapshotTells DEF DInv, DiscoveryTypeOK, TableSound, Entries
<1> HIDE DEF rows
<1>3. Early(rows, table) /\ rows \in Seq(Rows)
  BY <1>2, SameMacs DEF Early, Event
<1>4. events' = Append(events, rows) /\ events \in Seq(Seq(Rows))
  BY <1>1 DEF PathInv, rows
<1>5. /\ events' \in Seq(Seq(Rows)) /\ events' # <<>>
      /\ events'[Len(events')] = rows
      /\ \A i \in DOMAIN events' :
            events'[i] = rows \/ \E j \in DOMAIN events : events'[i] = events[j]
  BY <1>3, <1>4, Queued
<1>6. \A i \in DOMAIN events' : Early(events'[i], table)
  BY <1>3, <1>5 DEF PathInv
<1>7. ListInv' /\ RosterComplete'
  BY <1>1, <1>5 DEF PathInv, ListInv, RosterComplete, Quiet
<1> QED BY <1>1, <1>2, <1>5, <1>6, <1>7 DEF PathInv

\* A broadcast moves the oldest snapshot that waits to the lines of the user
\* interface, if it is connected.
LEMMA BroadcastKeepsPath ==
    ASSUME PathInv, Broadcast
    PROVE  PathInv'
<1>1. /\ contacts' = contacts /\ idx' = idx /\ ipc' = ipc /\ asked' = asked
      /\ answered' = answered /\ table' = table /\ scheduled # <<>>
      /\ scheduled' = Tail(scheduled)
      /\ events' = IF ipc = "connected" THEN Append(events, Head(scheduled))
                   ELSE events
  BY DEF Broadcast, rosterVars, discoveryVars
<1>2. /\ scheduled \in Seq(Seq(Rows)) /\ events \in Seq(Seq(Rows))
      /\ \A i \in DOMAIN scheduled : Early(scheduled[i], table)
      /\ \A i \in DOMAIN events : Early(events[i], table)
      /\ SameRows(scheduled[Len(scheduled)], table)
  BY <1>1 DEF PathInv
<1> DEFINE rows == Head(scheduled)
<1>3. /\ rows \in Seq(Rows) /\ Early(rows, table)
      /\ scheduled' \in Seq(Seq(Rows))
  BY <1>1, <1>2, HeadTail
<1>4. /\ scheduled' # <<>>
            => scheduled'[Len(scheduled')] = scheduled[Len(scheduled)]
      /\ scheduled' = <<>> => rows = scheduled[Len(scheduled)]
      /\ \A i \in DOMAIN scheduled' :
            \E j \in DOMAIN scheduled : scheduled'[i] = scheduled[j]
  BY ZenonT(60), <1>1, <1>2, Dequeued
<1> HIDE DEF rows
<1>5. \A i \in DOMAIN scheduled' : Early(scheduled'[i], table)
  BY <1>2, <1>4
<1>6. ListInv' /\ MacsOf(contacts') \subseteq MacsOf(table')
  BY <1>1 DEF PathInv, ListInv
<1>7. ipc' = "down" => scheduled' = <<>>
  BY <1>1 DEF PathInv
<1>8. CASE ipc = "connected"
  <2>1. events' = Append(events, rows)
    BY <1>1, <1>8 DEF rows
  <2>2. /\ events' \in Seq(Seq(Rows)) /\ events' # <<>>
        /\ events'[Len(events')] = rows
        /\ \A i \in DOMAIN events' :
              events'[i] = rows
              \/ \E j \in DOMAIN events : events'[i] = events[j]
    <3>1. events \in Seq(Seq(Rows)) /\ rows \in Seq(Rows)
      BY <1>2, <1>3
    <3> QED BY <2>1, <3>1, Queued
  <2>3. \A i \in DOMAIN events' : Early(events'[i], table)
    BY <1>2, <1>3, <2>2
  <2>4. RosterComplete'
    BY <2>2 DEF RosterComplete, Quiet
  <2> QED
    BY <1>1, <1>2, <1>3, <1>4, <1>5, <1>6, <1>7, <2>2, <2>3, <2>4 DEF PathInv
<1>9. CASE ipc # "connected"
  <2>1. ~answered' /\ events' = events
    BY <1>1, <1>9 DEF PathInv
  <2>2. RosterComplete'
    BY <2>1 DEF RosterComplete, Quiet
  <2> QED
    BY <1>1, <1>2, <1>3, <1>4, <1>5, <1>6, <1>7, <2>1, <2>2 DEF PathInv
<1> QED BY <1>8, <1>9

\* The last line read tells of the table as it is, so the list shows it.
LEMMA PumpKeepsPath ==
    ASSUME PathInv, PumpEvent
    PROVE  PathInv'
<1>1. /\ ipc' = ipc /\ asked' = asked /\ answered' = answered
      /\ scheduled' = scheduled /\ table' = table
      /\ events # <<>> /\ events' = Tail(events)
      /\ OnNeighborsChanged(Head(events))
  BY DEF PumpEvent, discoveryVars
<1> DEFINE rows == Head(events)
<1>2. /\ events \in Seq(Seq(Rows))
      /\ \A i \in DOMAIN events : Early(events[i], table)
      /\ ListInv /\ MacsOf(contacts) \subseteq MacsOf(table)
  BY DEF PathInv
<1>3. events' \in Seq(Seq(Rows)) /\ Early(rows, table)
  BY <1>1, <1>2, HeadTail
<1>4. /\ events' # <<>> => events'[Len(events')] = events[Len(events)]
      /\ events' = <<>> => rows = events[Len(events)]
      /\ \A i \in DOMAIN events' :
            \E j \in DOMAIN events : events'[i] = events[j]
  BY ZenonT(60), <1>1, <1>2, Dequeued
<1>5. OnNeighborsChanged(rows)
  BY <1>1
<1> HIDE DEF rows
<1>6. Event(rows) /\ MacsOf(rows) \subseteq MacsOf(table)
  BY <1>3 DEF Early
<1>7. /\ contacts' \in Seq(Rows) /\ Distinct(contacts')
      /\ MacsOf(contacts') = MacsOf(contacts) \union MacsOf(rows)
      /\ idx' \in Bijection(MacsOf(contacts'), DOMAIN contacts')
      /\ MacsOf(contacts) \subseteq MacsOf(rows) => Shows(contacts', rows)
  BY <1>2, <1>5, <1>6, EventKeepsList, Zenon
<1>8. ListInv' /\ MacsOf(contacts') \subseteq MacsOf(table')
  BY <1>1, <1>2, <1>6, <1>7 DEF ListInv
<1>9. \A i \in DOMAIN events' : Early(events'[i], table)
  BY <1>2, <1>4
<1>10. RosterComplete'
  <2> SUFFICES ASSUME Quiet'
               PROVE  /\ MacsOf(contacts') = MacsOf(table)
                      /\ \A name : Named(contacts', name) = Named(table, name)
    BY <1>1 DEF RosterComplete
  <2>1. events' = <<>> /\ scheduled = <<>> /\ answered
    BY <1>1 DEF Quiet
  <2>2. SameRows(rows, table)
    BY <1>1, <1>4, <2>1 DEF PathInv
  <2>3. MacsOf(rows) = MacsOf(table)
    BY <2>2, SameMacs
  <2>4. Shows(contacts', rows) /\ MacsOf(contacts') = MacsOf(table)
    BY <1>2, <1>7, <2>3
  <2>5. rows \in Seq(Rows)
    BY <1>6 DEF Event
  <2>6. \A name : Named(contacts', name) = Named(rows, name)
    BY <2>4, <2>5, ShownNames
  <2>7. \A name : Named(rows, name) = Named(table, name)
    BY <2>2, SameNames
  <2> QED BY <2>4, <2>6, <2>7
<1> QED BY <1>1, <1>3, <1>4, <1>8, <1>9, <1>10 DEF PathInv

\* A user interface that starts, connects and asks has not been answered yet.
LEMMA StartKeepsPath ==
    ASSUME PathInv, StartIpc \/ Connect \/ Bootstrap
    PROVE  PathInv'
<1>1. /\ contacts' = contacts /\ idx' = idx /\ answered' = answered
      /\ scheduled' = scheduled /\ events' = events /\ table' = table
      /\ ~answered
      /\ ipc' # "down" /\ asked' \in BOOLEAN
      /\ asked' => ipc' = "connected"
  <2>1. /\ asked \in BOOLEAN /\ answered \in BOOLEAN
        /\ asked => ipc = "connected"
        /\ answered => asked
    BY DEF PathInv
  <2>2. CASE StartIpc
    BY <2>1, <2>2 DEF StartIpc, rosterVars, discoveryVars
  <2>3. CASE Connect
    BY <2>1, <2>3 DEF Connect, rosterVars, discoveryVars
  <2>4. CASE Bootstrap
    BY <2>1, <2>4 DEF Bootstrap, rosterVars, discoveryVars
  <2> QED BY <2>2, <2>3, <2>4
<1>2. ListInv' /\ RosterComplete'
  BY <1>1 DEF PathInv, ListInv, RosterComplete, Quiet
<1> QED BY <1>1, <1>2 DEF PathInv

\* At the start the table and the list are empty.
LEMMA InitNInv == Init => NInv
<1> SUFFICES ASSUME Init PROVE NInv
  OBVIOUS
<1>1. DInv
  BY InitDInv DEF Init
<1>2. /\ contacts = <<>> /\ idx = [m \in {} |-> 0] /\ ipc = "down"
      /\ asked = FALSE /\ answered = FALSE /\ scheduled = <<>> /\ events = <<>>
  BY DEF Init, RosterInit
<1>3. MacsOf(contacts) = {} /\ DOMAIN contacts = {}
  BY <1>2 DEF MacsOf
<1>4. idx \in Bijection({}, {})
  BY <1>2, Fun_IsBij
<1>5. ListInv
  BY <1>2, <1>3, <1>4 DEF ListInv, Distinct
<1>6. RosterComplete
  BY <1>2 DEF RosterComplete, Quiet
<1>7. /\ <<>> \in Seq(Seq(Rows)) /\ DOMAIN <<>> = {}
      /\ MacsOf(contacts) \subseteq MacsOf(table)
  BY <1>3
<1>8. PathInv
  BY <1>2, <1>5, <1>6, <1>7 DEF PathInv
<1> QED BY <1>1, <1>8 DEF NInv

\* Every step of the composition keeps the invariant.
LEMMA NextNInv == NInv /\ [Next]_vars => NInv'
<1> SUFFICES ASSUME NInv, [Next]_vars PROVE NInv'
  OBVIOUS
<1>1. DInv /\ PathInv /\ DInv'
  BY StepIsDiscovery, NextDInv DEF NInv
<1> SUFFICES PathInv'
  BY <1>1 DEF NInv
<1>2. CASE /\ \/ TimerDiscover
              \/ \E p \in Peers : OnDiscoverRequest(p)
              \/ DiscoveryEnvironment
           /\ UNCHANGED <<rosterVars, ipcVars>>
  BY <1>1, <1>2, EntriesStay, PathStays
<1>3. ASSUME NEW p \in Peers, Reply(p)
      PROVE  PathInv'
  BY <1>1, <1>3, ReplyKeepsPath
<1>4. CASE IpcNext
  BY <1>1, <1>4, StartKeepsPath, AnswerKeepsPath, BroadcastKeepsPath,
     PumpKeepsPath
  DEF IpcNext
<1>5. CASE UNCHANGED vars
  <2>1. SameRows(table', table) /\ UNCHANGED <<rosterVars, ipcVars>>
    BY <1>5 DEF vars, discoveryVars, SameRows
  <2> QED BY <1>1, <2>1, PathStays
<1> QED BY <1>2, <1>3, <1>4, <1>5 DEF Next

\* However many peers, and whenever the user interface connected: once it has
\* been answered and has read its events, it lists exactly the neighbors of the
\* table, and each name as often.
THEOREM ListIsComplete == Spec => []RosterComplete
<1>1. NInv => RosterComplete
  BY DEF NInv, PathInv
<1> QED BY <1>1, InitNInv, NextNInv, PTL DEF Spec
=============================================================================
