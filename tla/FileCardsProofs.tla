---------------------------- MODULE FileCardsProofs ----------------------------
(***************************************************************************)
(* Theorems about FileCards, for any files and bounds.                     *)
(***************************************************************************)
EXTENDS FileCards, FiniteSetTheorems, FunctionTheorems,
        SequenceTheorems, TLAPS

EventKinds == {"started", "progress", "finished", "error"}
EventRecords == [kind : EventKinds, id : Ids, key : Keys]
Contexts == [key : Keys, received : Nat, total_chunks : Nat, finished : BOOLEAN]

CardsShape ==
    /\ ctx \in [DOMAIN ctx -> Contexts] /\ IsFiniteSet(DOMAIN ctx)
    /\ \A id \in DOMAIN ctx : \E f \in Files :
            f.id = id /\ f.chunks = ctx[id].total_chunks /\ f.chunks # 0
    /\ events \in Seq(EventRecords)
    /\ fileid_to_folder_rx \in [DOMAIN fileid_to_folder_rx -> Keys]
    /\ opened \in [Keys -> Nat] /\ stored \in [Keys -> Nat]
    /\ total \in [Keys -> Nat] /\ done \in [Keys -> Nat]

\* An event about id that comes after the first n events of ev goes to the
\* card of key: that is where the last start before it sends it.
GoesTo(ev, id, n, key) ==
    \/ \E j \in 1 .. n :
        /\ ev[j].kind = "started" /\ ev[j].id = id /\ ev[j].key = key
        /\ \A i \in j + 1 .. n : ~(ev[i].kind = "started" /\ ev[i].id = id)
    \/ /\ id \in DOMAIN fileid_to_folder_rx /\ fileid_to_folder_rx[id] = key
       /\ \A i \in 1 .. n : ~(ev[i].kind = "started" /\ ev[i].id = id)

\* Events go to the card of their file, those under way and those to come.
Attributed ==
    /\ \A i \in DOMAIN events : events[i].kind # "started" =>
            GoesTo(events, events[i].id, i - 1, events[i].key)
    /\ \A id \in DOMAIN ctx : GoesTo(events, id, Len(events), ctx[id].key)

\* How many of the first n events of ev are of this kind and key.
Counted(ev, kind, key, n) ==
    {i \in 1 .. n : ev[i].kind = kind /\ ev[i].key = key}
Count(ev, kind, key, n) == Cardinality(Counted(ev, kind, key, n))

Open(key) == {id \in DOMAIN ctx : ctx[id].key = key}

\* The books of the two ends: what one has and the other has not heard of is
\* in the events under way.
Books ==
    \A key \in Keys :
        /\ done[key] + Count(events, "finished", key, Len(events)) = stored[key]
        /\ total[key] + Count(events, "started", key, Len(events)) = opened[key]
        /\ stored[key] + Cardinality(Open(key)) <= opened[key]
        /\ \A n \in 0 .. Len(events) :
            done[key] + Count(events, "finished", key, n)
                <= total[key] + Count(events, "started", key, n)

Received == \A key \in Keys : card[key] = "Recibido" => stored[key] >= total[key]

CardsInv == CardsTypeOK /\ CardsShape /\ Attributed /\ Books /\ Received

-----------------------------------------------------------------------------
(***************************************************************************)
(* Counting events                                                         *)
(***************************************************************************)
One(e, kind, key) == IF e.kind = kind /\ e.key = key THEN 1 ELSE 0

\* How many of the first n events are of a kind and a card is a number.
LEMMA CountType ==
    ASSUME NEW ev, NEW kind, NEW key, NEW n \in Nat
    PROVE  IsFiniteSet(Counted(ev, kind, key, n)) /\ Count(ev, kind, key, n) \in Nat
<1>1. IsFiniteSet(1 .. n)
  BY FS_Interval
<1>2. Counted(ev, kind, key, n) \subseteq 1 .. n
  BY DEF Counted
<1> QED
  BY <1>1, <1>2, FS_Subset, FS_CardinalityType DEF Count

\* None of no events is.
LEMMA CountNone ==
    ASSUME NEW ev, NEW kind, NEW key
    PROVE  Count(ev, kind, key, 0) = 0
<1>1. Counted(ev, kind, key, 0) = {}
  BY DEF Counted
<1> QED
  BY <1>1, FS_EmptySet DEF Count

\* The last of the events counted.
LEMMA CountLast ==
    ASSUME NEW ev, NEW kind, NEW key, NEW n \in Nat
    PROVE  Count(ev, kind, key, n + 1)
                = Count(ev, kind, key, n) + One(ev[n + 1], kind, key)
<1> DEFINE S == Counted(ev, kind, key, n)
<1>1. IsFiniteSet(S) /\ Cardinality(S) \in Nat /\ n + 1 \notin S
  <2>1. n + 1 \notin S
    BY DEF Counted
  <2> QED
    BY <2>1, CountType DEF Count
<1>2. CASE ev[n + 1].kind = kind /\ ev[n + 1].key = key
  <2>1. Counted(ev, kind, key, n + 1) = S \union {n + 1}
    BY <1>2 DEF Counted
  <2> QED
    BY <1>1, <1>2, <2>1, FS_AddElement DEF Count, One
<1>3. CASE ~(ev[n + 1].kind = kind /\ ev[n + 1].key = key)
  <2>1. Counted(ev, kind, key, n + 1) = S
    BY <1>3 DEF Counted
  <2> QED
    BY <1>1, <1>3, <2>1 DEF Count, One
<1> QED
  BY <1>2, <1>3

\* The first event is taken.
LEMMA CountTail ==
    ASSUME NEW ev \in Seq(EventRecords), ev # <<>>, NEW kind, NEW key,
           NEW n \in 0 .. Len(ev) - 1
    PROVE  Count(ev, kind, key, n + 1)
                = Count(Tail(ev), kind, key, n) + One(Head(ev), kind, key)
<1> DEFINE S == Counted(Tail(ev), kind, key, n)
           T == {i \in 2 .. n + 1 : ev[i].kind = kind /\ ev[i].key = key}
           f == [i \in S |-> i + 1]
<1>1. /\ Len(ev) \in Nat /\ n \in Nat
      /\ \A i \in 1 .. n : Tail(ev)[i] = ev[i + 1]
  OBVIOUS
<1>2. IsFiniteSet(S) /\ Cardinality(S) \in Nat
  BY <1>1, CountType DEF Count
<1>3. f \in Bijection(S, T)
  <2>1. \A i \in S : i \in 1 .. n /\ i + 1 \in T
    BY <1>1 DEF Counted
  <2>2. \A j \in T : j - 1 \in S /\ (j - 1) + 1 = j
    BY <1>1 DEF Counted
  <2>3. \A i, j \in S : i + 1 = j + 1 => i = j
    BY <2>1
  <2>4. f \in [S -> T]
    BY <2>1
  <2>5. \A i, j \in S : f[i] = f[j] => i = j
    BY <2>3
  <2>6. \A j \in T : \E i \in S : f[i] = j
    BY <2>2
  <2> HIDE DEF f, S, T
  <2> QED
    BY <2>4, <2>5, <2>6, Fun_IsBij
<1>4. IsFiniteSet(T) /\ Cardinality(T) = Cardinality(S)
  BY <1>2, <1>3, FS_Bijection DEF ExistsBijection
<1>5. Head(ev) = ev[1] /\ 1 \notin T
  BY <1>1
<1>6. CASE ev[1].kind = kind /\ ev[1].key = key
  <2>1. Counted(ev, kind, key, n + 1) = T \union {1}
    BY <1>1, <1>6 DEF Counted
  <2> QED
    BY ZenonT(60), <1>2, <1>4, <1>5, <1>6, <2>1, FS_AddElement DEF Count, One
<1>7. CASE ~(ev[1].kind = kind /\ ev[1].key = key)
  <2>1. Counted(ev, kind, key, n + 1) = T
    BY <1>1, <1>7 DEF Counted
  <2>2. One(Head(ev), kind, key) = 0
    BY <1>5, <1>7 DEF One
  <2>3. Count(ev, kind, key, n + 1) = Cardinality(S)
    BY <1>4, <2>1 DEF Count
  <2> QED
    BY <1>2, <2>2, <2>3 DEF Count
<1> QED
  BY <1>6, <1>7

-----------------------------------------------------------------------------
(***************************************************************************)
(* What a step of FileReceiver adds to the events                          *)
(***************************************************************************)
\* At most three events about one file; a start comes first, an end last.
Reports(es, id, key) ==
    /\ es \in Seq(EventRecords) /\ Len(es) \in 1 .. 3
    /\ \A i \in 1 .. Len(es) : es[i].id = id /\ es[i].key = key
    /\ \A i \in 2 .. Len(es) : es[i].kind # "started"
    /\ \A i \in 1 .. Len(es) - 1 : es[i].kind # "finished"

\* A step of the receiver puts its reports behind those under way.
LEMMA AddedEvents ==
    ASSUME CardsShape, NEW es, NEW id, NEW key, Reports(es, id, key),
           events' = events \o es
    PROVE  /\ Len(events) \in Nat /\ events' \in Seq(EventRecords)
           /\ Len(events') = Len(events) + Len(es)
           /\ DOMAIN events' = 1 .. Len(events')
           /\ \A i \in 1 .. Len(events) : events'[i] = events[i]
           /\ \A i \in 1 .. Len(es) : events'[Len(events) + i] = es[i]
  BY DEF CardsShape, Reports

\* The reports it adds count only from where they are.
LEMMA AddedCounts ==
    ASSUME CardsShape, NEW es, NEW id, NEW key, Reports(es, id, key),
           events' = events \o es, NEW k
    PROVE  /\ \A n \in 0 .. Len(events) : \A kind \in EventKinds :
                Count(events', kind, k, n) = Count(events, kind, k, n)
           /\ \A n \in Len(events) + 1 .. Len(events') :
                /\ Count(events', "started", k, n)
                    = Count(events, "started", k, Len(events))
                        + One(es[1], "started", k)
                /\ Count(events', "finished", k, n)
                    <= Count(events', "finished", k, Len(events'))
           /\ Count(events', "finished", k, Len(events'))
                    = Count(events, "finished", k, Len(events))
                        + One(es[Len(es)], "finished", k)
<1> DEFINE L == Len(events)
           C(kind, n) == Count(events', kind, k, n)
<1>1. /\ L \in Nat /\ Len(es) \in 1 .. 3 /\ Len(events') = L + Len(es)
      /\ \A i \in 1 .. L : events'[i] = events[i]
      /\ \A i \in 1 .. Len(es) : events'[L + i] = es[i]
  BY AddedEvents DEF Reports
<1>2. ASSUME NEW n \in 0 .. L, NEW kind \in EventKinds
      PROVE  C(kind, n) = Count(events, kind, k, n)
  <2>1. n \in Nat /\ \A i \in 1 .. n : events'[i] = events[i]
    BY <1>1
  <2>2. Counted(events', kind, k, n) = Counted(events, kind, k, n)
    BY <2>1 DEF Counted
  <2> QED
    BY <2>2 DEF Count
<1>3. ASSUME NEW kind, NEW i \in 0 .. Len(es) - 1
      PROVE  C(kind, L + i + 1) = C(kind, L + i) + One(es[i + 1], kind, k)
  <2>1. L + i \in Nat /\ events'[L + i + 1] = es[i + 1]
    BY <1>1
  <2> QED
    BY ZenonT(60), <2>1, CountLast
<1>4. /\ \A i \in 2 .. Len(es) : One(es[i], "started", k) = 0
      /\ \A i \in 1 .. Len(es) - 1 : One(es[i], "finished", k) = 0
  BY DEF Reports, One
<1>5. /\ C("started", L) \in Nat /\ C("finished", L) \in Nat
      /\ \A kind, e : One(e, kind, k) \in {0, 1}
  BY <1>1, CountType DEF One
<1> HIDE DEF C, L
<1>6. \A n \in L + 1 .. Len(events') :
        /\ C("started", n) = C("started", L) + One(es[1], "started", k)
        /\ C("finished", n) <= C("finished", Len(events'))
  <2>1. CASE Len(es) = 1
    BY SMTT(60), <1>1, <1>3, <1>4, <1>5, <2>1
  <2>2. CASE Len(es) = 2
    <3>1. /\ C("started", L + 1) = C("started", L) + One(es[1], "started", k)
          /\ C("started", L + 2) = C("started", L + 1)
          /\ C("finished", L + 1) = C("finished", L)
          /\ C("finished", L + 2) = C("finished", L + 1)
                                        + One(es[2], "finished", k)
      BY <1>1, <1>3, <1>4, <1>5, <2>2
    <3> QED
      BY SMTT(60), <1>1, <1>5, <2>2, <3>1
  <2>3. CASE Len(es) = 3
    <3>1. \A kind : /\ C(kind, L + 1) = C(kind, L) + One(es[1], kind, k)
                    /\ C(kind, L + 2) = C(kind, L + 1) + One(es[2], kind, k)
                    /\ C(kind, L + 3) = C(kind, L + 2) + One(es[3], kind, k)
      BY <1>1, <1>3, <2>3
    <3>2. /\ One(es[2], "started", k) = 0 /\ One(es[3], "started", k) = 0
          /\ One(es[1], "finished", k) = 0 /\ One(es[2], "finished", k) = 0
      BY <1>4, <2>3
    <3>3. /\ One(es[1], "started", k) \in {0, 1}
          /\ One(es[3], "finished", k) \in {0, 1}
      BY <1>5
    <3>4. /\ C("started", L + 1) = C("started", L) + One(es[1], "started", k)
          /\ C("started", L + 2) = C("started", L) + One(es[1], "started", k)
          /\ C("started", L + 3) = C("started", L) + One(es[1], "started", k)
      BY <1>5, <3>1, <3>2, <3>3
    <3>5. /\ C("finished", L + 1) = C("finished", L)
          /\ C("finished", L + 2) = C("finished", L)
          /\ C("finished", L + 3) = C("finished", L) + One(es[3], "finished", k)
      BY <1>5, <3>1, <3>2, <3>3
    <3>6. /\ Len(events') = L + 3
          /\ \A n \in L + 1 .. L + 3 : n = L + 1 \/ n = L + 2 \/ n = L + 3
      BY <1>1, <2>3
    <3>7. /\ C("finished", L + 1) <= C("finished", L + 3)
          /\ C("finished", L + 2) <= C("finished", L + 3)
          /\ C("finished", L + 3) <= C("finished", L + 3)
      BY <1>5, <3>3, <3>5
    <3> QED
      BY <3>4, <3>6, <3>7
  <2> QED
    BY <1>1, <2>1, <2>2, <2>3
<1>7. C("finished", Len(events'))
        = C("finished", L) + One(es[Len(es)], "finished", k)
  <2>1. CASE Len(es) = 1
    BY <1>1, <1>3, <1>5, <2>1
  <2>2. CASE Len(es) = 2
    BY <1>1, <1>3, <1>4, <1>5, <2>2
  <2>3. CASE Len(es) = 3
    <3>1. /\ C("finished", L + 1) = C("finished", L)
          /\ C("finished", L + 2) = C("finished", L + 1)
          /\ C("finished", L + 3) = C("finished", L + 2)
                                        + One(es[3], "finished", k)
      BY <1>1, <1>3, <1>4, <1>5, <2>3
    <3> QED
      BY <1>1, <1>5, <2>3, <3>1
  <2> QED
    BY <1>1, <2>1, <2>2, <2>3
<1>8. L \in 0 .. L /\ "started" \in EventKinds /\ "finished" \in EventKinds
  BY <1>1 DEF EventKinds
<1> QED
  BY <1>2, <1>6, <1>7, <1>8 DEF C, L

-----------------------------------------------------------------------------
(***************************************************************************)
(* FileReceiver keeps the books                                            *)
(***************************************************************************)
\* What a step about one file does, whichever way it ends: reports, the
\* counters of its key, and no context but that of its id.
FileStep(es, id, key) ==
    /\ Reports(es, id, key) /\ id \in Ids /\ key \in Keys
    /\ events' = events \o es
    /\ es[1].kind = "started" \/ (id \in DOMAIN ctx /\ ctx[id].key = key)
    /\ opened' = [opened EXCEPT ![key] = @ + One(es[1], "started", key)]
    /\ stored' = [stored EXCEPT ![key] = @ + One(es[Len(es)], "finished", key)]
    /\ ctx' \in [DOMAIN ctx' -> Contexts]
    /\ DOMAIN ctx' \subseteq DOMAIN ctx \union {id}
    /\ \A i \in DOMAIN ctx' : ctx'[i].key = IF i = id THEN key ELSE ctx[i].key
    /\ UNCHANGED cardVars

\* The transfers that are open grow by one when there is a new context, and
\* shrink when a file is stored.
OpenRoom(es, id, key) ==
    \/ One(es[1], "started", key) = 1 /\ One(es[Len(es)], "finished", key) = 0
    \/ One(es[Len(es)], "finished", key) = 1 /\ id \notin DOMAIN ctx'
    \/ One(es[Len(es)], "finished", key) = 0 /\ id \in DOMAIN ctx

\* A file that is opened or stored keeps the bound on the open files.
LEMMA OpenBounded ==
    ASSUME CardsInv, NEW es, NEW id, NEW key,
           FileStep(es, id, key), OpenRoom(es, id, key)
    PROVE  /\ IsFiniteSet(DOMAIN ctx')
           /\ \A k \in Keys : stored'[k] + Cardinality(Open(k)') <= opened'[k]
<1> USE DEF CardsInv
<1>1. IsFiniteSet(DOMAIN ctx) /\ IsFiniteSet(DOMAIN ctx')
  <2>1. IsFiniteSet(DOMAIN ctx \union {id})
    BY FS_AddElement DEF CardsShape
  <2> QED
    BY <2>1, FS_Subset DEF CardsShape, FileStep
<1>2. \A k : IsFiniteSet(Open(k)) /\ Cardinality(Open(k)) \in Nat
  BY <1>1, FS_Subset, FS_CardinalityType DEF Open
<1>3. \A k : IsFiniteSet(Open(k)') /\ Cardinality(Open(k)') \in Nat
  BY <1>1, FS_Subset, FS_CardinalityType DEF Open
<1>4. /\ opened \in [Keys -> Nat] /\ stored \in [Keys -> Nat] /\ key \in Keys
      /\ \A e, kind, k : One(e, kind, k) \in {0, 1}
      /\ \A k \in Keys : stored[k] + Cardinality(Open(k)) <= opened[k]
  BY DEF CardsShape, FileStep, One, Books
<1>5. ASSUME NEW k \in Keys, k # key
      PROVE  stored'[k] + Cardinality(Open(k)') <= opened'[k]
  <2>1. Open(k)' \in SUBSET Open(k)
    BY <1>5 DEF Open, FileStep
  <2>2. Cardinality(Open(k)') <= Cardinality(Open(k))
    BY <1>2, <2>1, FS_Subset
  <2>3. stored'[k] = stored[k] /\ opened'[k] = opened[k]
    BY <1>4, <1>5 DEF FileStep
  <2> QED
    BY <1>2, <1>3, <1>4, <2>2, <2>3
<1>6. stored'[key] + Cardinality(Open(key)') <= opened'[key]
  <2>1. /\ opened'[key] = opened[key] + One(es[1], "started", key)
        /\ stored'[key] = stored[key] + One(es[Len(es)], "finished", key)
    BY <1>4 DEF FileStep
  <2>2. Open(key)' \in SUBSET (Open(key) \union {id})
    BY DEF Open, FileStep
  <2>3. Cardinality(Open(key)') <= Cardinality(Open(key)) + 1
    <3>1. IsFiniteSet(Open(key) \union {id})
      BY <1>2, FS_AddElement
    <3>2. Cardinality(Open(key) \union {id}) <= Cardinality(Open(key)) + 1
      BY <1>2, FS_AddElement
    <3>3. /\ Cardinality(Open(key)') <= Cardinality(Open(key) \union {id})
          /\ Cardinality(Open(key) \union {id}) \in Nat
      BY <2>2, <3>1, FS_Subset, FS_CardinalityType
    <3> QED
      BY <1>2, <1>3, <3>2, <3>3
  <2>4. CASE One(es[1], "started", key) = 1
             /\ One(es[Len(es)], "finished", key) = 0
    BY <1>2, <1>3, <1>4, <2>1, <2>3, <2>4
  <2>5. CASE One(es[Len(es)], "finished", key) = 1 /\ id \notin DOMAIN ctx'
    <3>1. Open(key)' \in SUBSET (Open(key) \ {id})
      BY <2>2, <2>5 DEF Open
    <3>2. /\ IsFiniteSet(Open(key) \ {id})
          /\ Cardinality(Open(key) \ {id}) = IF id \in Open(key)
                                             THEN Cardinality(Open(key)) - 1
                                             ELSE Cardinality(Open(key))
      BY <1>2, FS_RemoveElement
    <3>3. Cardinality(Open(key)') <= Cardinality(Open(key) \ {id})
      BY <3>1, <3>2, FS_Subset
    <3>4. One(es[1], "started", key) = 1 \/ id \in Open(key)
      BY DEF FileStep, One, Open, Reports
    <3> QED
      BY <1>2, <1>3, <1>4, <2>1, <2>5, <3>2, <3>3, <3>4
  <2>6. CASE One(es[Len(es)], "finished", key) = 0 /\ id \in DOMAIN ctx
             /\ One(es[1], "started", key) = 0
    <3>1. Open(key)' \in SUBSET Open(key)
      BY <2>2, <2>6 DEF Open, FileStep, One, Reports
    <3>2. Cardinality(Open(key)') <= Cardinality(Open(key))
      BY <1>2, <3>1, FS_Subset
    <3> QED
      BY <1>2, <1>3, <1>4, <2>1, <2>6, <3>2
  <2> QED
    BY <1>4, <2>4, <2>5, <2>6 DEF OpenRoom
<1> QED
  BY <1>1, <1>5, <1>6

\* A step of the receiver keeps the books: events under way and files agree.
LEMMA BooksKept ==
    ASSUME CardsInv, NEW es, NEW id, NEW key,
           FileStep(es, id, key), OpenRoom(es, id, key)
    PROVE  Books'
<1> USE DEF CardsInv
<1>1. /\ Reports(es, id, key) /\ events' = events \o es
      /\ done' = done /\ total' = total
  BY DEF FileStep, cardVars
<1>2. /\ Len(events) \in Nat /\ Len(events') = Len(events) + Len(es)
      /\ Len(es) \in 1 .. 3
  BY <1>1, AddedEvents DEF Reports
<1>3. ASSUME NEW k \in Keys
      PROVE  /\ done[k] + Count(events', "finished", k, Len(events')) = stored'[k]
             /\ total[k] + Count(events', "started", k, Len(events')) = opened'[k]
             /\ stored'[k] + Cardinality(Open(k)') <= opened'[k]
             /\ \A n \in 0 .. Len(events') :
                    done[k] + Count(events', "finished", k, n)
                        <= total[k] + Count(events', "started", k, n)
  <2>1. /\ done[k] \in Nat /\ total[k] \in Nat
        /\ stored[k] \in Nat /\ opened[k] \in Nat
        /\ One(es[1], "started", k) \in {0, 1}
        /\ One(es[Len(es)], "finished", k) \in {0, 1}
    BY <1>3 DEF CardsShape, One
  <2>0. /\ \A ev, kind : \A n \in Nat : Count(ev, kind, k, n) \in Nat
        /\ Count(events, "started", k, Len(events)) \in Nat
        /\ Count(events, "finished", k, Len(events)) \in Nat
    BY <1>2, CountType
  <2>2. /\ done[k] + Count(events, "finished", k, Len(events)) = stored[k]
        /\ total[k] + Count(events, "started", k, Len(events)) = opened[k]
        /\ \A n \in 0 .. Len(events) :
                done[k] + Count(events, "finished", k, n)
                    <= total[k] + Count(events, "started", k, n)
    BY <1>3 DEF Books
  <2>3. /\ opened'[k] = opened[k] + One(es[1], "started", k)
        /\ stored'[k] = stored[k] + One(es[Len(es)], "finished", k)
    <3>1. es[1].key = key /\ es[Len(es)].key = key
      BY <1>1, <1>2 DEF Reports
    <3> QED
      BY <2>1, <3>1 DEF FileStep, CardsShape, One
  <2>4. /\ "started" \in EventKinds /\ "finished" \in EventKinds
        /\ Len(events') \in Len(events) + 1 .. Len(events')
    <3>1. \A m, n \in Nat, l \in 1 .. 3 : m = n + l => m \in n + 1 .. m
      OBVIOUS
    <3>2. Len(events') \in Nat
      BY <1>2
    <3>3. Len(events') \in Len(events) + 1 .. Len(events')
      BY <1>2, <3>1, <3>2
    <3> QED
      BY <3>3 DEF EventKinds
  <2>5. /\ \A n \in 0 .. Len(events) : \A kind \in EventKinds :
                Count(events', kind, k, n) = Count(events, kind, k, n)
        /\ \A n \in Len(events) + 1 .. Len(events') :
                /\ Count(events', "started", k, n)
                    = Count(events, "started", k, Len(events))
                        + One(es[1], "started", k)
                /\ Count(events', "finished", k, n)
                    <= Count(events', "finished", k, Len(events'))
        /\ Count(events', "finished", k, Len(events'))
                    = Count(events, "finished", k, Len(events))
                        + One(es[Len(es)], "finished", k)
    BY <1>1, AddedCounts
  <2>6. done[k] + Count(events', "finished", k, Len(events')) = stored'[k]
    <3>1. Count(events', "finished", k, Len(events'))
                = Count(events, "finished", k, Len(events))
                    + One(es[Len(es)], "finished", k)
      BY <2>5
    <3>2. /\ done[k] + Count(events, "finished", k, Len(events)) = stored[k]
          /\ stored'[k] = stored[k] + One(es[Len(es)], "finished", k)
      BY <2>2, <2>3
    <3> QED
      BY <2>0, <2>1, <3>1, <3>2
  <2>7. \A n \in Len(events) + 1 .. Len(events') :
            total[k] + Count(events', "started", k, n) = opened'[k]
    <3>1. SUFFICES ASSUME NEW n \in Len(events) + 1 .. Len(events')
                   PROVE  total[k] + Count(events', "started", k, n) = opened'[k]
      OBVIOUS
    <3>2. Count(events', "started", k, n)
            = Count(events, "started", k, Len(events)) + One(es[1], "started", k)
      BY <2>5
    <3>3. /\ total[k] + Count(events, "started", k, Len(events)) = opened[k]
          /\ opened'[k] = opened[k] + One(es[1], "started", k)
      BY <2>2, <2>3
    <3> QED
      BY <2>0, <2>1, <3>2, <3>3
  <2>8. stored'[k] + Cardinality(Open(k)') <= opened'[k]
    BY <1>3, OpenBounded
  <2>9. stored'[k] <= opened'[k] /\ stored'[k] \in Nat /\ opened'[k] \in Nat
    <3>1. Cardinality(Open(k)') \in Nat
      BY OpenBounded, FS_Subset, FS_CardinalityType DEF Open
    <3>2. stored'[k] \in Nat /\ opened'[k] \in Nat
      BY <2>1, <2>3
    <3> QED
      BY <2>8, <3>1, <3>2
  <2>10. ASSUME NEW n \in 0 .. Len(events')
         PROVE  done[k] + Count(events', "finished", k, n)
                    <= total[k] + Count(events', "started", k, n)
    <3>1. CASE n \in 0 .. Len(events)
      BY <2>2, <2>4, <2>5, <3>1
    <3>2. CASE n \in Len(events) + 1 .. Len(events')
      <4>1. /\ Count(events', "finished", k, n) \in Nat
            /\ Count(events', "finished", k, Len(events')) \in Nat
        BY <1>2, <2>0, <3>2
      <4>2. Count(events', "finished", k, n)
                <= Count(events', "finished", k, Len(events'))
        BY <2>5, <3>2
      <4>3. total[k] + Count(events', "started", k, n) = opened'[k]
        BY <2>7, <3>2
      <4> QED
        BY <2>1, <2>6, <2>9, <4>1, <4>2, <4>3
    <3> QED
      BY <1>2, <2>10, <3>1, <3>2
  <2> QED
    BY <2>4, <2>6, <2>7, <2>8, <2>10
<1> QED
  BY <1>1, <1>3 DEF Books

\* Starts of other files do not matter to an event.
LEMMA GoesOn ==
    ASSUME CardsShape, NEW es, NEW id, NEW key, Reports(es, id, key),
           events' = events \o es, UNCHANGED cardVars,
           NEW i, NEW k, NEW n \in 0 .. Len(events), GoesTo(events, i, n, k)
    PROVE  /\ GoesTo(events, i, n, k)'
           /\ (n = Len(events) /\ (i # id \/ es[1].kind # "started")) =>
                \A m \in n .. Len(events') : GoesTo(events, i, m, k)'
<1>1. /\ Len(events) \in Nat /\ Len(events') = Len(events) + Len(es)
      /\ Len(es) \in 1 .. 3
      /\ \A j \in 1 .. Len(events) : events'[j] = events[j]
      /\ \A j \in 1 .. Len(es) : events'[Len(events) + j] = es[j]
  BY AddedEvents DEF Reports
<1>2. fileid_to_folder_rx' = fileid_to_folder_rx
  BY DEF cardVars
<1>3. GoesTo(events, i, n, k)'
  BY <1>1, <1>2 DEF GoesTo
<1>4. ASSUME n = Len(events), i # id \/ es[1].kind # "started",
             NEW m \in n .. Len(events')
      PROVE  GoesTo(events, i, m, k)'
  <2>1. ASSUME NEW j \in n + 1 .. m
        PROVE  ~(events'[j].kind = "started" /\ events'[j].id = i)
    <3>1. j - n \in 1 .. Len(es) /\ n + (j - n) = j
      BY <1>1, <1>4, <2>1
    <3>2. events'[j] = es[j - n]
      BY <1>1, <1>4, <3>1
    <3>3. es[j - n].id = id
      BY <3>1 DEF Reports
    <3>4. j - n = 1 \/ j - n \in 2 .. Len(es)
      BY <1>1, <3>1
    <3>5. es[j - n].kind = "started" => j - n = 1
      BY <3>4 DEF Reports
    <3> QED
      BY <1>4, <3>2, <3>3, <3>5
  <2> QED
    BY <1>1, <1>2, <1>4, <2>1 DEF GoesTo
<1> QED
  BY <1>3, <1>4

\* It keeps every event attributed to the file it reports on.
LEMMA AttributedKept ==
    ASSUME CardsInv, NEW es, NEW id, NEW key, FileStep(es, id, key)
    PROVE  Attributed'
<1> USE DEF CardsInv
<1>1. /\ Reports(es, id, key) /\ events' = events \o es /\ UNCHANGED cardVars
      /\ Len(es) \in 1 .. 3
  BY DEF FileStep, Reports
<1>2. /\ Len(events) \in Nat /\ Len(events') = Len(events) + Len(es)
      /\ DOMAIN events' = 1 .. Len(events') /\ DOMAIN events = 1 .. Len(events)
      /\ \A j \in 1 .. Len(events) : events'[j] = events[j]
      /\ \A j \in 1 .. Len(es) : events'[Len(events) + j] = es[j]
  BY <1>1, AddedEvents DEF CardsShape
<1>3. ASSUME NEW m \in Len(events) + 1 .. Len(events')
      PROVE  GoesTo(events, id, m, key)'
  <2>1. CASE es[1].kind = "started"
    <3>1. /\ events'[Len(events) + 1] = es[1]
          /\ es[1].id = id /\ es[1].key = key
      BY <1>1, <1>2 DEF Reports
    <3>2. ASSUME NEW i \in Len(events) + 2 .. m
          PROVE  ~(events'[i].kind = "started" /\ events'[i].id = id)
      <4>1. /\ i - Len(events) \in 2 .. Len(es)
            /\ Len(events) + (i - Len(events)) = i
        BY <1>1, <1>2, <1>3, <3>2
      <4>2. events'[i] = es[i - Len(events)]
        BY <1>2, <4>1
      <4> QED
        BY <1>1, <4>1, <4>2 DEF Reports
    <3>3. Len(events) + 1 \in 1 .. m /\ (Len(events) + 1) + 1 = Len(events) + 2
      BY <1>1, <1>2, <1>3
    <3> QED
      BY <2>1, <3>1, <3>2, <3>3 DEF GoesTo
  <2>2. CASE es[1].kind # "started"
    <3>1. GoesTo(events, id, Len(events), key)
      BY <2>2 DEF FileStep, Attributed
    <3>2. Len(events) \in 0 .. Len(events) /\ m \in Len(events) .. Len(events')
      BY <1>2, <1>3
    <3> QED
      BY <1>1, <2>2, <3>1, <3>2, GoesOn
  <2> QED
    BY <2>1, <2>2
<1>4. ASSUME NEW i \in DOMAIN events', events'[i].kind # "started"
      PROVE  GoesTo(events, events[i].id, i - 1, events[i].key)'
  <2>1. CASE i \in 1 .. Len(events)
    <3>1. /\ events'[i] = events[i] /\ i \in DOMAIN events
          /\ i - 1 \in 0 .. Len(events)
      BY <1>2, <2>1
    <3>2. GoesTo(events, events[i].id, i - 1, events[i].key)
      BY <1>4, <3>1 DEF Attributed
    <3>3. GoesTo(events, events'[i].id, i - 1, events'[i].key)
      BY <3>1, <3>2
    <3> DEFINE e == events'[i]
    <3>4. ASSUME NEW a, NEW b, a = e.id, b = e.key
          PROVE  GoesTo(events, a, i - 1, b)'
      <4>1. GoesTo(events, a, i - 1, b)
        BY <3>3, <3>4
      <4> QED
        BY <1>1, <3>1, <4>1, GoesOn
    <3> QED
      BY <3>4
  <2>2. CASE i \in Len(events) + 1 .. Len(events')
    <3>1. /\ i - Len(events) \in 1 .. Len(es)
          /\ Len(events) + (i - Len(events)) = i
      BY <1>1, <1>2, <2>2
    <3>2. events'[i] = es[i - Len(events)]
      BY <1>2, <3>1
    <3>3. events'[i].id = id /\ events'[i].key = key
      BY <1>1, <3>1, <3>2 DEF Reports
    <3>4. GoesTo(events, id, i - 1, key)'
      <4>1. CASE i = Len(events) + 1
        <5>1. es[1].kind # "started" /\ i - 1 = Len(events)
          BY <1>2, <1>4, <3>2, <4>1
        <5>2. GoesTo(events, id, i - 1, key) /\ i - 1 \in 0 .. Len(events)
          BY <1>2, <5>1 DEF FileStep, Attributed
        <5> QED
          BY <1>1, <5>2, GoesOn
      <4>2. CASE i # Len(events) + 1
        <5>1. i - 1 \in Len(events) + 1 .. Len(events')
          BY <1>1, <1>2, <2>2, <4>2
        <5> QED
          BY <1>3, <5>1
      <4> QED
        BY <4>1, <4>2
    <3> QED
      BY <3>3, <3>4
  <2> QED
    BY <1>2, <1>4, <2>1, <2>2
<1>5. ASSUME NEW i \in DOMAIN ctx'
      PROVE  GoesTo(events, i, Len(events), ctx[i].key)'
  <2>1. /\ Len(events') \in Len(events) + 1 .. Len(events')
        /\ Len(events') \in Len(events) .. Len(events')
        /\ Len(events) \in 0 .. Len(events)
    <3>1. \A m, n \in Nat, l \in 1 .. 3 : m = n + l =>
            m \in n + 1 .. m /\ m \in n .. m /\ n \in 0 .. n
      OBVIOUS
    <3>2. Len(events') \in Nat
      BY <1>1, <1>2
    <3> QED
      BY <1>1, <1>2, <3>1, <3>2
  <2>2. CASE i = id
    <3>1. ASSUME NEW m, m = Len(events')
          PROVE  GoesTo(events, id, m, key)'
      BY <1>3, <2>1, <3>1
    <3>2. ctx'[i].key = key
      BY <1>5, <2>2 DEF FileStep
    <3> QED
      BY <2>2, <3>1, <3>2
  <2>3. CASE i # id
    <3>1. i \in DOMAIN ctx /\ ctx'[i].key = ctx[i].key
      BY <1>5, <2>3 DEF FileStep
    <3>2. GoesTo(events, i, Len(events), ctx[i].key)
      BY <3>1 DEF Attributed
    <3>3. ASSUME NEW k, k = ctx[i].key, NEW m, m = Len(events')
          PROVE  GoesTo(events, i, m, k)'
      <4>1. GoesTo(events, i, Len(events), k)
        BY <3>2, <3>3
      <4>2. m \in Len(events) .. Len(events')
        BY <2>1, <3>3
      <4> QED
        BY <1>1, <2>1, <2>3, <4>1, <4>2, GoesOn
    <3> QED
      BY <3>1, <3>3
  <2> QED
    BY <2>2, <2>3
<1> QED
  BY <1>4, <1>5 DEF Attributed

\* A context as FileReceiver leaves it.
WellFormed(id, c) ==
    /\ c \in Contexts
    /\ \E f \in Files : f.id = id /\ f.chunks = c.total_chunks /\ f.chunks # 0
    /\ c.received \in 0 .. c.total_chunks
    /\ c.finished <=> c.received = c.total_chunks

\* A step that keeps the types keeps the whole invariant.
LEMMA StepKept ==
    ASSUME CardsInv, NEW es, NEW id, NEW key,
           FileStep(es, id, key), OpenRoom(es, id, key),
           \A i \in DOMAIN ctx' : WellFormed(i, ctx'[i]),
           metas' \in 0 .. MaxMetas, repeats' \in 0 .. MaxRepeats
    PROVE  CardsInv'
<1> USE DEF CardsInv
<1>1. UNCHANGED cardVars /\ Reports(es, id, key) /\ events' = events \o es
  BY DEF FileStep
<1>2. /\ One(es[1], "started", key) \in {0, 1}
      /\ One(es[Len(es)], "finished", key) \in {0, 1}
  BY DEF One
<1>3. CardsTypeOK'
  <2>1. DOMAIN ctx' \subseteq Ids
    BY DEF FileStep, CardsTypeOK
  <2>2. \A i \in DOMAIN ctx' : ctx'[i].key \in Keys
    BY DEF FileStep, Contexts
  <2> QED
    BY <1>1, <2>1, <2>2 DEF CardsTypeOK, WellFormed, cardVars
<1>4. CardsShape'
  <2>1. ctx' \in [DOMAIN ctx' -> Contexts] /\ IsFiniteSet(DOMAIN ctx')
    BY OpenBounded DEF FileStep
  <2>2. \A i \in DOMAIN ctx' : \E f \in Files :
            f.id = i /\ f.chunks = ctx'[i].total_chunks /\ f.chunks # 0
    BY DEF WellFormed
  <2>3. events' \in Seq(EventRecords)
    BY <1>1, AddedEvents
  <2>4. opened' \in [Keys -> Nat] /\ stored' \in [Keys -> Nat]
    BY SMTT(60), <1>2 DEF FileStep, CardsShape
  <2> QED
    BY <1>1, <2>1, <2>2, <2>3, <2>4 DEF CardsShape, cardVars
<1>5. Received'
  <2>1. ASSUME NEW k \in Keys
        PROVE  stored'[k] \in Nat /\ stored[k] \in Nat /\ stored'[k] >= stored[k]
    BY SMTT(60), <1>2, <2>1 DEF FileStep, CardsShape
  <2>2. total' = total /\ card' = card /\ total \in [Keys -> Nat]
    BY <1>1 DEF cardVars, CardsShape
  <2> QED
    BY <2>1, <2>2 DEF Received
<1> QED
  BY <1>3, <1>4, <1>5, AttributedKept, BooksKept

-----------------------------------------------------------------------------
(***************************************************************************)
(* The handlers of FileReceiver                                            *)
(***************************************************************************)
LEMMA EventType ==
    ASSUME NEW kind \in EventKinds, NEW id \in Ids, NEW key \in Keys
    PROVE  /\ Event(kind, id, key) \in EventRecords
           /\ Event(kind, id, key).kind = kind
           /\ Event(kind, id, key).id = id
           /\ Event(kind, id, key).key = key
  BY DEF Event, EventRecords

\* Reports appended one by one are appended together.
LEMMA Joined ==
    ASSUME NEW ev \in Seq(EventRecords), NEW a \in EventRecords,
           NEW b \in EventRecords, NEW c \in EventRecords
    PROVE  /\ ev \o <<a>> \o <<b>> = ev \o <<a, b>>
           /\ ev \o (<<a>> \o <<b>>) \o <<c>> = ev \o <<a, b, c>>
<1>1. /\ <<a>> \in Seq(EventRecords) /\ <<b>> \in Seq(EventRecords)
      /\ <<c>> \in Seq(EventRecords) /\ <<a, b>> \in Seq(EventRecords)
  OBVIOUS
<1>2. <<a>> \o <<b>> = <<a, b>> /\ <<a, b>> \o <<c>> = <<a, b, c>>
  <2>1. /\ <<a>> \o <<b>> \in Seq(EventRecords) /\ Len(<<a>> \o <<b>>) = 2
        /\ (<<a>> \o <<b>>)[1] = a /\ (<<a>> \o <<b>>)[2] = b
    BY <1>1, ConcatProperties
  <2>2. Len(<<a, b>>) = 2 /\ <<a, b>>[1] = a /\ <<a, b>>[2] = b
    OBVIOUS
  <2>3. <<a>> \o <<b>> = <<a, b>>
    <3>1. \A i \in 1 .. 2 : (<<a>> \o <<b>>)[i] = <<a, b>>[i]
      BY <2>1, <2>2
    <3> QED
      BY <1>1, <2>1, <2>2, <3>1, SeqEqual
  <2>4. /\ <<a, b>> \o <<c>> \in Seq(EventRecords) /\ Len(<<a, b>> \o <<c>>) = 3
        /\ (<<a, b>> \o <<c>>)[1] = a /\ (<<a, b>> \o <<c>>)[2] = b
        /\ (<<a, b>> \o <<c>>)[3] = c
    BY <1>1, ConcatProperties
  <2>5. /\ <<a, b, c>> \in Seq(EventRecords) /\ Len(<<a, b, c>>) = 3
        /\ <<a, b, c>>[1] = a /\ <<a, b, c>>[2] = b /\ <<a, b, c>>[3] = c
    OBVIOUS
  <2>6. <<a, b>> \o <<c>> = <<a, b, c>>
    <3>1. \A i \in 1 .. 3 : (<<a, b>> \o <<c>>)[i] = <<a, b, c>>[i]
      BY <2>4, <2>5
    <3> QED
      BY <2>4, <2>5, <3>1, SeqEqual
  <2> QED
    BY <2>3, <2>6
<1>3. ev \o <<a>> \o <<b>> = ev \o (<<a>> \o <<b>>)
  BY <1>1, ConcatAssociative
<1>4. ev \o <<a, b>> \o <<c>> = ev \o (<<a, b>> \o <<c>>)
  BY <1>1, ConcatAssociative
<1> QED
  BY <1>2, <1>3, <1>4

\* The reports of one file: what their first and last event are counted as.
LEMMA ReportsOf ==
    ASSUME NEW id, NEW key,
           NEW a \in EventRecords, a.id = id, a.key = key,
           NEW b \in EventRecords, b.id = id, b.key = key, b.kind # "started",
           NEW c \in EventRecords, c.id = id, c.key = key, c.kind # "started"
    PROVE  /\ a.kind # "finished" => Reports(<<a>>, id, key)
           /\ a.kind # "finished" => Reports(<<a, b>>, id, key)
           /\ (a.kind # "finished" /\ b.kind # "finished")
                => Reports(<<a, b, c>>, id, key)
           /\ <<a>>[1] = a /\ <<a>>[Len(<<a>>)] = a
           /\ <<a, b>>[1] = a /\ <<a, b>>[Len(<<a, b>>)] = b
           /\ <<a, b, c>>[1] = a /\ <<a, b, c>>[Len(<<a, b, c>>)] = c
<1>1. a.kind # "finished" => Reports(<<a>>, id, key)
  BY DEF Reports
<1>2. a.kind # "finished" => Reports(<<a, b>>, id, key)
  BY DEF Reports
<1>3. (a.kind # "finished" /\ b.kind # "finished")
            => Reports(<<a, b, c>>, id, key)
  BY DEF Reports
<1> QED
  BY <1>1, <1>2, <1>3

\* FILE_META keeps the invariant.
LEMMA MetaKept ==
    ASSUME FileCardsAssumption, CardsInv, NEW f \in Files, OnMeta(f)
    PROVE  CardsInv'
<1> DEFINE id == f.id
           key == FolderRoot(f)
           s == Event("started", id, key)
           p == Event("progress", id, key)
           d == Event("finished", id, key)
           e == Event("error", id, key)
<1>1. id \in Ids /\ key \in Keys /\ f.chunks \in Nat
  BY DEF Ids, Keys, FileCardsAssumption
<1>2. /\ s \in EventRecords /\ s.kind = "started" /\ s.id = id /\ s.key = key
      /\ p \in EventRecords /\ p.kind = "progress" /\ p.id = id /\ p.key = key
      /\ d \in EventRecords /\ d.kind = "finished" /\ d.id = id /\ d.key = key
      /\ e \in EventRecords /\ e.kind = "error" /\ e.id = id /\ e.key = key
  BY <1>1, EventType DEF EventKinds
<1>3. /\ opened' = [opened EXCEPT ![key] = @ + 1]
      /\ metas' \in 0 .. MaxMetas /\ repeats' \in 0 .. MaxRepeats
      /\ UNCHANGED cardVars
  <2>1. metas \in 0 .. MaxMetas /\ repeats \in 0 .. MaxRepeats
    BY DEF CardsInv, CardsTypeOK
  <2>2. /\ metas < MaxMetas /\ metas' = metas + 1
        /\ repeats' = repeats /\ UNCHANGED cardVars
        /\ opened' = [opened EXCEPT ![key] = @ + 1]
    BY DEF OnMeta
  <2> QED
    BY <2>1, <2>2 DEF FileCardsAssumption
<1>4. \A i \in DOMAIN ctx : WellFormed(i, ctx[i])
  BY DEF CardsInv, CardsTypeOK, CardsShape, WellFormed
<1>5. CardsShape /\ events \in Seq(EventRecords) /\ ctx \in [DOMAIN ctx -> Contexts]
      /\ stored \in [Keys -> Nat]
  BY DEF CardsInv, CardsShape
<1>6. CASE f.chunks = 0
  <2>1. id \notin DOMAIN ctx
    BY <1>5, <1>6 DEF CardsShape, FileCardsAssumption
  <2>2. Without(id) = ctx
    BY <1>5, <2>1 DEF Without
  <2>3. ctx' = ctx
    BY <1>6, <2>2 DEF OnMeta, End
  <2>4. \/ /\ events' = events \o (<<s>> \o <<p>>) \o <<d>>
           /\ stored' = [stored EXCEPT ![key] = @ + 1]
        \/ events' = events \o <<s>> \o <<e>> /\ stored' = stored
        \/ events' = events \o <<s>> /\ stored' = stored
    BY <1>6 DEF OnMeta, End
  <2> HIDE DEF id, key, s, p, d, e
  <2>5. CASE events' = events \o <<s, p, d>>
             /\ stored' = [stored EXCEPT ![key] = @ + 1]
    <3> DEFINE es == <<s, p, d>>
    <3>0. Reports(es, id, key) /\ es[1] = s /\ es[Len(es)] = d
      BY <1>2, ReportsOf
    <3> HIDE DEF es
    <3>1. FileStep(es, id, key)
      <4>1. events' = events \o es
        BY <2>5 DEF es
      <4>2. stored' = [stored EXCEPT ![key] = @ + One(es[Len(es)], "finished", key)]
        BY <1>2, <1>5, <2>5, <3>0 DEF One
      <4>3. opened' = [opened EXCEPT ![key] = @ + One(es[1], "started", key)]
        BY <1>2, <1>3, <3>0 DEF One
      <4> QED
        BY <1>1, <1>2, <1>3, <1>5, <2>1, <2>3, <3>0, <4>1, <4>2, <4>3
        DEF FileStep
    <3>2. OpenRoom(es, id, key)
      BY <1>2, <2>1, <2>3, <3>0 DEF OpenRoom, One
    <3> QED
      BY <1>3, <1>4, <2>3, <3>1, <3>2, StepKept
  <2>6. CASE events' = events \o <<s, e>> /\ stored' = stored
    <3> DEFINE es == <<s, e>>
    <3>0. Reports(es, id, key) /\ es[1] = s /\ es[Len(es)] = e
      BY <1>2, ReportsOf
    <3> HIDE DEF es
    <3>1. FileStep(es, id, key)
      <4>1. events' = events \o es
        BY <2>6 DEF es
      <4>2. stored' = [stored EXCEPT ![key] = @ + One(es[Len(es)], "finished", key)]
        BY <1>2, <1>5, <2>6, <3>0 DEF One
      <4>3. opened' = [opened EXCEPT ![key] = @ + One(es[1], "started", key)]
        BY <1>2, <1>3, <3>0 DEF One
      <4> QED
        BY <1>1, <1>2, <1>3, <1>5, <2>1, <2>3, <3>0, <4>1, <4>2, <4>3
        DEF FileStep
    <3>2. OpenRoom(es, id, key)
      BY <1>2, <2>1, <2>3, <3>0 DEF OpenRoom, One
    <3> QED
      BY <1>3, <1>4, <2>3, <3>1, <3>2, StepKept
  <2>7. CASE events' = events \o <<s>> /\ stored' = stored
    <3> DEFINE es == <<s>>
    <3>0. Reports(es, id, key) /\ es[1] = s /\ es[Len(es)] = s
      BY <1>2, ReportsOf
    <3> HIDE DEF es
    <3>1. FileStep(es, id, key)
      <4>1. events' = events \o es
        BY <2>7 DEF es
      <4>2. stored' = [stored EXCEPT ![key] = @ + One(es[Len(es)], "finished", key)]
        BY <1>2, <1>5, <2>7, <3>0 DEF One
      <4>3. opened' = [opened EXCEPT ![key] = @ + One(es[1], "started", key)]
        BY <1>2, <1>3, <3>0 DEF One
      <4> QED
        BY <1>1, <1>2, <1>3, <1>5, <2>1, <2>3, <3>0, <4>1, <4>2, <4>3
        DEF FileStep
    <3>2. OpenRoom(es, id, key)
      BY <1>2, <2>1, <2>3, <3>0 DEF OpenRoom, One
    <3> QED
      BY <1>3, <1>4, <2>3, <3>1, <3>2, StepKept
  <2> QED
    BY ZenonT(60), <1>2, <1>5, <2>4, <2>5, <2>6, <2>7, Joined
<1>7. CASE f.chunks # 0
  <2> DEFINE c == [key |-> key, received |-> 0, total_chunks |-> f.chunks,
                   finished |-> FALSE]
  <2>1. ctx' = Set(ctx, id, c) /\ events' = events \o <<s>> /\ stored' = stored
    BY <1>7 DEF OnMeta
  <2>2. WellFormed(id, c) /\ c.key = key
    BY <1>1, <1>7 DEF WellFormed, Contexts
  <2> HIDE DEF id, key, s, p, d, e, c
  <2>3. /\ DOMAIN ctx' = DOMAIN ctx \union {id}
        /\ \A i \in DOMAIN ctx' : ctx'[i] = IF i = id THEN c ELSE ctx[i]
        /\ ctx' \in [DOMAIN ctx' -> Contexts]
    BY <1>5, <2>1, <2>2 DEF Set, WellFormed
  <2>4. \A i \in DOMAIN ctx' : WellFormed(i, ctx'[i])
    BY <1>4, <2>2, <2>3
  <2> DEFINE es == <<s>>
  <2>0. Reports(es, id, key) /\ es[1] = s /\ es[Len(es)] = s
    BY <1>2, ReportsOf
  <2> HIDE DEF es
  <2>5. FileStep(es, id, key)
    <3>1. events' = events \o es
      BY <2>1 DEF es
    <3>2. stored' = [stored EXCEPT ![key] = @ + One(es[Len(es)], "finished", key)]
      BY <1>2, <1>5, <2>0, <2>1 DEF One
    <3>3. opened' = [opened EXCEPT ![key] = @ + One(es[1], "started", key)]
      BY <1>2, <1>3, <2>0 DEF One
    <3> QED
      BY <1>1, <1>2, <1>3, <1>5, <2>0, <2>2, <2>3, <3>1, <3>2, <3>3
      DEF FileStep
  <2>6. OpenRoom(es, id, key)
    BY <1>2, <2>0 DEF OpenRoom, One
  <2> QED
    BY <1>3, <2>4, <2>5, <2>6, StepKept
<1> QED
  BY <1>6, <1>7

\* FILE_DATA keeps the invariant.
LEMMA DataKept ==
    ASSUME CardsInv, FileCardsAssumption, NEW id \in Ids, OnData(id)
    PROVE  CardsInv'
<1> DEFINE c == ctx[id]
           key == c.key
           p == Event("progress", id, key)
           d == Event("finished", id, key)
           e == Event("error", id, key)
           rest(new, last) == [ctx EXCEPT ![id].received = @ + new,
                                          ![id].finished = last \/ @]
<1>1. /\ CardsShape /\ id \in DOMAIN ctx /\ ctx \in [DOMAIN ctx -> Contexts]
      /\ events \in Seq(EventRecords)
      /\ stored \in [Keys -> Nat] /\ opened \in [Keys -> Nat]
      /\ c \in Contexts /\ key \in Keys
  BY DEF CardsInv, CardsShape, OnData, Contexts
<1>2. /\ p \in EventRecords /\ p.kind = "progress" /\ p.id = id /\ p.key = key
      /\ d \in EventRecords /\ d.kind = "finished" /\ d.id = id /\ d.key = key
      /\ e \in EventRecords /\ e.kind = "error" /\ e.id = id /\ e.key = key
  BY <1>1, EventType DEF EventKinds
<1>3. /\ opened' = opened /\ UNCHANGED cardVars
      /\ metas' \in 0 .. MaxMetas /\ repeats' \in 0 .. MaxRepeats
  <2>1. metas \in 0 .. MaxMetas /\ repeats \in 0 .. MaxRepeats
    BY DEF CardsInv, CardsTypeOK
  <2>2. metas' = metas /\ opened' = opened /\ UNCHANGED cardVars
    BY DEF OnData
  <2>3. \/ repeats' = repeats
        \/ repeats' = repeats + 1 /\ repeats < MaxRepeats
    BY DEF OnData
  <2> QED
    BY <2>1, <2>2, <2>3 DEF FileCardsAssumption
<1>4. \A i \in DOMAIN ctx : WellFormed(i, ctx[i])
  BY DEF CardsInv, CardsTypeOK, CardsShape, WellFormed
<1>5. PICK new \in {0, 1} :
        LET last == /\ AllReceived(c.received + new, c.total_chunks)
                    /\ ~c.finished
        IN  /\ \/ new = 1 /\ c.received < c.total_chunks /\ UNCHANGED repeats
               \/ /\ new = 0 /\ c.received > 0
                  /\ repeats < MaxRepeats /\ repeats' = repeats + 1
            /\ IF last
               THEN End(id, key, [ok |-> <<p>>, any |-> <<p>>], rest(new, last))
               ELSE /\ ctx' = rest(new, last)
                    /\ events' = events \o <<p>>
                    /\ UNCHANGED stored
  BY Zenon DEF OnData
<1> DEFINE last == AllReceived(c.received + new, c.total_chunks) /\ ~c.finished
<1>6. /\ rest(new, last) \in [DOMAIN ctx -> Contexts]
      /\ \A i \in DOMAIN ctx : rest(new, last)[i].key = ctx[i].key
      /\ \A i \in DOMAIN ctx : WellFormed(i, rest(new, last)[i])
  <2> DEFINE n == c.received + new
             b == last \/ c.finished
             r == [c EXCEPT !.received = n, !.finished = b]
  <2>1. /\ c.received \in Nat /\ c.total_chunks \in Nat /\ c.finished \in BOOLEAN
        /\ c.received <= c.total_chunks
        /\ c.finished <=> c.received = c.total_chunks
    BY <1>1, <1>4 DEF WellFormed, Contexts
  <2>2. b <=> n = c.total_chunks
    BY <1>5, <2>1 DEF AllReceived
  <2>3. n \in Nat /\ n \in 0 .. c.total_chunks
    BY <1>5, <2>1
  <2>4. b \in BOOLEAN
    BY Zenon
  <2>5. rest(new, last) = [ctx EXCEPT ![id] = r]
    BY Zenon
  <2> HIDE DEF n, b, last, rest
  <2>6. /\ r.key = key /\ r.total_chunks = c.total_chunks
        /\ r.received = n /\ r.finished = b /\ r \in Contexts
    BY <1>1, <2>3, <2>4 DEF Contexts
  <2> HIDE DEF r
  <2>7. WellFormed(id, r)
    BY <1>1, <1>4, <2>2, <2>3, <2>6 DEF WellFormed
  <2> QED
    BY <1>1, <1>4, <2>5, <2>6, <2>7
<1>7. /\ Without(id) \in [DOMAIN ctx \ {id} -> Contexts]
      /\ \A i \in DOMAIN ctx \ {id} : Without(id)[i] = ctx[i]
  BY <1>1 DEF Without
<1>8. \/ /\ ctx' = Without(id) /\ events' = events \o <<p>> \o <<d>>
         /\ stored' = [stored EXCEPT ![key] = @ + 1]
      \/ /\ ctx' = Without(id) /\ events' = events \o <<p>> \o <<e>>
         /\ stored' = stored
      \/ /\ ctx' = rest(new, last) /\ events' = events \o <<p>>
         /\ stored' = stored
  BY <1>5 DEF End
<1>9. ASSUME ctx' = Without(id) \/ ctx' = rest(new, last)
      PROVE  /\ ctx' \in [DOMAIN ctx' -> Contexts]
             /\ DOMAIN ctx' \subseteq DOMAIN ctx \union {id}
             /\ \A i \in DOMAIN ctx' :
                    ctx'[i].key = IF i = id THEN key ELSE ctx[i].key
             /\ \A i \in DOMAIN ctx' : WellFormed(i, ctx'[i])
  <2>1. CASE ctx' = Without(id)
    <3>1. DOMAIN ctx' = DOMAIN ctx \ {id}
      BY <1>7, <2>1
    <3> QED
      BY <1>4, <1>7, <2>1, <3>1
  <2>2. CASE ctx' = rest(new, last)
    <3>1. DOMAIN ctx' = DOMAIN ctx
      BY <1>6, <2>2
    <3> QED
      BY <1>6, <2>2, <3>1
  <2> QED
    BY <1>9, <2>1, <2>2
<1> HIDE DEF c, key, p, d, e, rest, last
<1>10. ASSUME NEW es, Reports(es, id, key), es[1] = p,
              events' = events \o es,
              ctx' = Without(id) \/ ctx' = rest(new, last),
              \/ /\ es[Len(es)] = d /\ ctx' = Without(id)
                 /\ stored' = [stored EXCEPT ![key] = @ + 1]
              \/ es[Len(es)] \in {e, p} /\ stored' = stored
       PROVE  CardsInv'
  <2>1. One(es[1], "started", key) = 0
    BY <1>2, <1>10 DEF One
  <2>2. /\ stored' = [stored EXCEPT ![key] = @ + One(es[Len(es)], "finished", key)]
        /\ opened' = [opened EXCEPT ![key] = @ + One(es[1], "started", key)]
    <3>1. opened' = [opened EXCEPT ![key] = @ + 0]
      BY <1>1, <1>3
    <3>2. CASE /\ es[Len(es)] = d /\ stored' = [stored EXCEPT ![key] = @ + 1]
      BY <1>2, <2>1, <3>1, <3>2 DEF One
    <3>3. CASE es[Len(es)] \in {e, p} /\ stored' = stored
      <4>1. One(es[Len(es)], "finished", key) = 0
        BY <1>2, <3>3 DEF One
      <4>2. stored' = [stored EXCEPT ![key] = @ + 0]
        BY <1>1, <3>3
      <4> QED
        BY <2>1, <3>1, <4>1, <4>2
    <3> QED
      BY <1>10, <3>2, <3>3
  <2>3. FileStep(es, id, key)
    <3>1. id \in DOMAIN ctx /\ ctx[id].key = key
      BY <1>1 DEF key, c
    <3> QED
      BY <1>1, <1>3, <1>9, <1>10, <2>2, <3>1 DEF FileStep
  <2>4. OpenRoom(es, id, key)
    <3>1. CASE es[Len(es)] = d /\ ctx' = Without(id)
      <4>1. id \notin DOMAIN ctx'
        BY <1>7, <3>1
      <4> QED
        BY <1>2, <3>1, <4>1 DEF OpenRoom, One
    <3>2. CASE es[Len(es)] \in {e, p}
      BY <1>1, <1>2, <3>2 DEF OpenRoom, One
    <3> QED
      BY <1>10, <3>1, <3>2
  <2> QED
    BY <1>3, <1>9, <1>10, <2>3, <2>4, StepKept
<1>11. /\ Reports(<<p>>, id, key) /\ Reports(<<p, d>>, id, key)
       /\ Reports(<<p, e>>, id, key)
       /\ <<p>>[1] = p /\ <<p>>[Len(<<p>>)] = p
       /\ <<p, d>>[1] = p /\ <<p, d>>[Len(<<p, d>>)] = d
       /\ <<p, e>>[1] = p /\ <<p, e>>[Len(<<p, e>>)] = e
  BY <1>2, ReportsOf
<1>12. /\ events \o <<p>> \o <<d>> = events \o <<p, d>>
       /\ events \o <<p>> \o <<e>> = events \o <<p, e>>
  BY <1>1, <1>2, Joined
<1>13. CASE /\ ctx' = Without(id) /\ events' = events \o <<p, d>>
            /\ stored' = [stored EXCEPT ![key] = @ + 1]
  BY <1>10, <1>11, <1>13
<1>14. CASE /\ ctx' = Without(id) /\ events' = events \o <<p, e>>
            /\ stored' = stored
  BY <1>10, <1>11, <1>14
<1>15. CASE /\ ctx' = rest(new, last) /\ events' = events \o <<p>>
            /\ stored' = stored
  BY <1>10, <1>11, <1>15
<1> QED
  BY <1>8, <1>12, <1>13, <1>14, <1>15

-----------------------------------------------------------------------------
(***************************************************************************)
(* The user interface takes an event                                       *)
(***************************************************************************)
\* What every handler of an event does.
Taken(ev) ==
    /\ events # <<>> /\ ev = Head(events) /\ events' = Tail(events)
    /\ UNCHANGED rcvVars
    /\ total' = [total EXCEPT ![ev.key] = @ + One(ev, "started", ev.key)]
    /\ done' = [done EXCEPT ![ev.key] = @ + One(ev, "finished", ev.key)]
    /\ fileid_to_folder_rx' = IF ev.kind = "started" THEN Moved(ev.id, ev.key)
                              ELSE fileid_to_folder_rx

\* The events under way when the oldest is taken.
LEMMA TailEvents ==
    ASSUME CardsShape, events # <<>>
    PROVE  /\ Head(events) = events[1] /\ Head(events) \in EventRecords
           /\ Tail(events) \in Seq(EventRecords)
           /\ Len(events) \in Nat /\ Len(events) >= 1
           /\ Len(Tail(events)) = Len(events) - 1
           /\ DOMAIN events = 1 .. Len(events)
           /\ DOMAIN Tail(events) = 1 .. Len(events) - 1
           /\ \A i \in 1 .. Len(events) - 1 : Tail(events)[i] = events[i + 1]
  BY DEF CardsShape

\* The card of the event that is taken is the card of its file.
LEMMA HeadGoes ==
    ASSUME CardsInv, events # <<>>, Head(events).kind # "started"
    PROVE  /\ Head(events).id \in DOMAIN fileid_to_folder_rx
           /\ fileid_to_folder_rx[Head(events).id] = Head(events).key
<1>1. 1 \in DOMAIN events /\ Head(events) = events[1]
  BY TailEvents DEF CardsInv
<1>2. GoesTo(events, Head(events).id, 0, Head(events).key)
  BY <1>1 DEF CardsInv, Attributed
<1> QED
  BY <1>2 DEF GoesTo

\* The others go where they went.
LEMMA GoesOnTail ==
    ASSUME CardsShape, NEW ev, Taken(ev), NEW i, NEW k, NEW n \in Nat,
           n + 1 <= Len(events), GoesTo(events, i, n + 1, k)
    PROVE  GoesTo(events, i, n, k)'
<1>1. /\ ev = events[1] /\ Len(events) \in Nat
      /\ \A j \in 1 .. n : events'[j] = events[j + 1]
  BY TailEvents DEF Taken
<1>2. CASE \E j \in 2 .. n + 1 :
            /\ events[j].kind = "started" /\ events[j].id = i /\ events[j].key = k
            /\ \A l \in j + 1 .. n + 1 :
                    ~(events[l].kind = "started" /\ events[l].id = i)
  <2>1. PICK j \in 2 .. n + 1 :
            /\ events[j].kind = "started" /\ events[j].id = i /\ events[j].key = k
            /\ \A l \in j + 1 .. n + 1 :
                    ~(events[l].kind = "started" /\ events[l].id = i)
    BY <1>2
  <2>2. j - 1 \in 1 .. n /\ (j - 1) + 1 = j /\ events'[j - 1] = events[j]
    BY <1>1
  <2>3. ASSUME NEW l \in (j - 1) + 1 .. n
        PROVE  ~(events'[l].kind = "started" /\ events'[l].id = i)
    <3>1. l \in 1 .. n /\ l + 1 \in j + 1 .. n + 1
      BY <2>3
    <3> QED
      BY <1>1, <2>1, <3>1
  <2> QED
    BY <2>1, <2>2, <2>3 DEF GoesTo
<1>3. CASE /\ events[1].kind = "started" /\ events[1].id = i /\ events[1].key = k
           /\ \A l \in 2 .. n + 1 :
                    ~(events[l].kind = "started" /\ events[l].id = i)
  <2>1. \A l \in 1 .. n : ~(events'[l].kind = "started" /\ events'[l].id = i)
    BY <1>1, <1>3
  <2>2. fileid_to_folder_rx' = Set(fileid_to_folder_rx, i, k)
    BY <1>1, <1>3 DEF Taken, Moved
  <2>3. i \in DOMAIN fileid_to_folder_rx' /\ fileid_to_folder_rx'[i] = k
    BY <2>2 DEF Set
  <2> QED
    BY <2>1, <2>3 DEF GoesTo
<1>4. CASE /\ i \in DOMAIN fileid_to_folder_rx /\ fileid_to_folder_rx[i] = k
           /\ \A l \in 1 .. n + 1 :
                    ~(events[l].kind = "started" /\ events[l].id = i)
  <2>1. \A l \in 1 .. n : ~(events'[l].kind = "started" /\ events'[l].id = i)
    BY <1>1, <1>4
  <2>2. ~(ev.kind = "started" /\ ev.id = i)
    BY <1>1, <1>4
  <2>3. i \in DOMAIN fileid_to_folder_rx' /\ fileid_to_folder_rx'[i] = k
    BY <1>4, <2>2 DEF Taken, Moved, Set
  <2> QED
    BY <2>1, <2>3 DEF GoesTo
<1> QED
  BY <1>2, <1>3, <1>4 DEF GoesTo

\* A handler that takes an event leaves the others attributed.
LEMMA TakenAttributed ==
    ASSUME CardsInv, NEW ev, Taken(ev)
    PROVE  Attributed'
<1> USE DEF CardsInv
<1>1. /\ events # <<>> /\ Len(events) \in Nat /\ Len(events) >= 1
      /\ Len(events') = Len(events) - 1
      /\ DOMAIN events = 1 .. Len(events)
      /\ DOMAIN events' = 1 .. Len(events) - 1
      /\ \A i \in 1 .. Len(events) - 1 : events'[i] = events[i + 1]
  BY TailEvents DEF Taken
<1>2. ASSUME NEW i \in DOMAIN events', events'[i].kind # "started"
      PROVE  GoesTo(events, events[i].id, i - 1, events[i].key)'
  <2>1. /\ i + 1 \in DOMAIN events /\ events'[i] = events[i + 1]
        /\ i - 1 \in Nat /\ (i + 1) - 1 = (i - 1) + 1 /\ (i - 1) + 1 <= Len(events)
    BY <1>1, <1>2
  <2>2. GoesTo(events, events[i + 1].id, (i - 1) + 1, events[i + 1].key)
    BY <1>2, <2>1 DEF Attributed
  <2>3. ASSUME NEW a, NEW b, a = events'[i].id, b = events'[i].key
        PROVE  GoesTo(events, a, i - 1, b)'
    <3>1. GoesTo(events, a, (i - 1) + 1, b)
      BY <2>1, <2>2, <2>3
    <3> QED
      BY <2>1, <3>1, GoesOnTail
  <2> QED
    BY <2>3
<1>3. ASSUME NEW i \in DOMAIN ctx'
      PROVE  GoesTo(events, i, Len(events), ctx[i].key)'
  <2>1. ctx' = ctx
    BY DEF Taken, rcvVars
  <2>2. GoesTo(events, i, Len(events), ctx[i].key)
    BY <1>3, <2>1 DEF Attributed
  <2>3. ASSUME NEW a, a = ctx[i].key, NEW n, n = Len(events')
        PROVE  GoesTo(events, i, n, a)'
    <3>1. n \in Nat /\ n + 1 = Len(events) /\ n + 1 <= Len(events)
      BY <1>1, <2>3
    <3>2. GoesTo(events, i, n + 1, a)
      BY <2>2, <2>3, <3>1
    <3> QED
      BY <3>1, <3>2, GoesOnTail
  <2> QED
    BY <2>1, <2>3
<1> QED
  BY <1>2, <1>3 DEF Attributed

\* It keeps the books.
LEMMA TakenBooks ==
    ASSUME CardsInv, NEW ev, Taken(ev)
    PROVE  Books'
<1> USE DEF CardsInv
<1>1. /\ ev \in EventRecords /\ ev = Head(events) /\ events # <<>>
      /\ events' = Tail(events) /\ events \in Seq(EventRecords)
      /\ Len(events) \in Nat /\ Len(events) >= 1
      /\ Len(events') = Len(events) - 1
  BY TailEvents DEF Taken, CardsShape
<1>2. opened' = opened /\ stored' = stored /\ ctx' = ctx
  BY DEF Taken, rcvVars
<1>3. ASSUME NEW k \in Keys
      PROVE  /\ done'[k] + Count(events', "finished", k, Len(events')) = stored'[k]
             /\ total'[k] + Count(events', "started", k, Len(events')) = opened'[k]
             /\ stored'[k] + Cardinality(Open(k)') <= opened'[k]
             /\ \A n \in 0 .. Len(events') :
                    done'[k] + Count(events', "finished", k, n)
                        <= total'[k] + Count(events', "started", k, n)
  <2>1. /\ One(ev, "started", k) \in {0, 1} /\ One(ev, "finished", k) \in {0, 1}
        /\ done[k] \in Nat /\ total[k] \in Nat
        /\ done'[k] = done[k] + One(ev, "finished", k)
        /\ total'[k] = total[k] + One(ev, "started", k)
    <3>1. /\ ev.key \in Keys
          /\ done \in [Keys -> Nat] /\ total \in [Keys -> Nat]
      BY <1>1 DEF EventRecords, CardsShape
    <3>2. CASE ev.key = k
      BY <1>3, <3>1, <3>2 DEF Taken, One
    <3>3. CASE ev.key # k
      BY <1>3, <3>1, <3>3 DEF Taken, One
    <3> QED
      BY <3>2, <3>3
  <2>2. ASSUME NEW n \in 0 .. Len(events')
        PROVE  /\ n + 1 \in 0 .. Len(events)
               /\ \A kind : /\ Count(events', kind, k, n) \in Nat
                            /\ Count(events, kind, k, n + 1) \in Nat
                            /\ Count(events, kind, k, n + 1)
                                = Count(events', kind, k, n) + One(ev, kind, k)
    <3>1. /\ n \in Nat /\ n + 1 \in Nat /\ n + 1 \in 0 .. Len(events)
          /\ n \in 0 .. Len(events) - 1
      BY <1>1
    <3> QED
      BY <1>1, <3>1, CountType, CountTail
  <2>3. /\ done[k] + Count(events, "finished", k, Len(events)) = stored[k]
        /\ total[k] + Count(events, "started", k, Len(events)) = opened[k]
        /\ stored[k] + Cardinality(Open(k)) <= opened[k]
        /\ \A n \in 0 .. Len(events) :
                done[k] + Count(events, "finished", k, n)
                    <= total[k] + Count(events, "started", k, n)
    BY <1>3 DEF Books
  <2>4. Len(events') \in 0 .. Len(events') /\ Len(events') + 1 = Len(events)
    BY <1>1
  <2>5. ASSUME NEW n \in 0 .. Len(events')
        PROVE  /\ done'[k] + Count(events', "finished", k, n)
                    = done[k] + Count(events, "finished", k, n + 1)
               /\ total'[k] + Count(events', "started", k, n)
                    = total[k] + Count(events, "started", k, n + 1)
    <3>1. /\ Count(events', "finished", k, n) \in Nat
          /\ Count(events, "finished", k, n + 1)
                = Count(events', "finished", k, n) + One(ev, "finished", k)
          /\ Count(events', "started", k, n) \in Nat
          /\ Count(events, "started", k, n + 1)
                = Count(events', "started", k, n) + One(ev, "started", k)
      BY <2>2
    <3>2. \A a, c \in Nat, o \in {0, 1} : (a + o) + c = a + (c + o)
      OBVIOUS
    <3>3. done'[k] + Count(events', "finished", k, n)
            = done[k] + Count(events, "finished", k, n + 1)
      BY <2>1, <3>1, <3>2
    <3>4. total'[k] + Count(events', "started", k, n)
            = total[k] + Count(events, "started", k, n + 1)
      BY <2>1, <3>1, <3>2
    <3> QED
      BY <3>3, <3>4
  <2>6. Open(k)' = Open(k)
    BY <1>2 DEF Open
  <2>7. \A n \in 0 .. Len(events') :
            done'[k] + Count(events', "finished", k, n)
                <= total'[k] + Count(events', "started", k, n)
    BY <2>2, <2>3, <2>5
  <2>8. /\ done'[k] + Count(events', "finished", k, Len(events')) = stored'[k]
        /\ total'[k] + Count(events', "started", k, Len(events')) = opened'[k]
    BY <1>2, <2>3, <2>4, <2>5
  <2> QED
    BY <1>2, <2>3, <2>6, <2>7, <2>8
<1> QED
  BY <1>3 DEF Books

\* It keeps the types.
LEMMA TakenShape ==
    ASSUME CardsInv, NEW ev, Taken(ev)
    PROVE  /\ CardsShape' /\ ev \in EventRecords
           /\ DOMAIN fileid_to_folder_rx' \subseteq Ids
<1> USE DEF CardsInv
<1>1. ev \in EventRecords /\ events' \in Seq(EventRecords)
  BY TailEvents DEF Taken
<1>2. ev.key \in Keys /\ ev.id \in Ids
  BY <1>1 DEF EventRecords
<1>3. /\ fileid_to_folder_rx' \in [DOMAIN fileid_to_folder_rx' -> Keys]
      /\ DOMAIN fileid_to_folder_rx' \subseteq Ids
  <2>1. CASE ev.kind = "started"
    <3>1. fileid_to_folder_rx' = Set(fileid_to_folder_rx, ev.id, ev.key)
      BY <2>1 DEF Taken, Moved
    <3> QED
      BY <1>2, <3>1 DEF Set, CardsShape, CardsTypeOK
  <2>2. CASE ev.kind # "started"
    BY <2>2 DEF Taken, CardsShape, CardsTypeOK
  <2> QED
    BY <2>1, <2>2
<1>4. total' \in [Keys -> Nat] /\ done' \in [Keys -> Nat]
  <2>1. One(ev, "started", ev.key) \in {0, 1} /\ One(ev, "finished", ev.key) \in {0, 1}
    BY DEF One
  <2>2. total \in [Keys -> Nat] /\ done \in [Keys -> Nat]
    BY DEF CardsShape
  <2> HIDE DEF CardsInv
  <2> QED
    BY <1>2, <2>1, <2>2 DEF Taken
<1> QED
  BY <1>1, <1>3, <1>4 DEF CardsShape, Taken, rcvVars

\* A step of the user interface keeps the invariant if the card it writes
\* says "Recibido" only for a folder that is stored.
LEMMA TakenKept ==
    ASSUME CardsInv, NEW ev, Taken(ev),
           card' \in [Keys -> {"none", "Recibiendo", "Recibido", "Error"}],
           Received'
    PROVE  CardsInv'
<1>1. CardsTypeOK'
  BY TakenShape DEF CardsInv, CardsTypeOK, Taken, rcvVars
<1> QED
  BY <1>1, TakenShape, TakenBooks, TakenAttributed DEF CardsInv

\* Every event under way has its handler; what it writes on the card is said
\* of the card that the event is about.
LEMMA PumpKept ==
    ASSUME CardsInv, Pump
    PROVE  CardsInv'
<1> DEFINE ev == Head(events)
           S == {"none", "Recibiendo", "Recibido", "Error"}
<1>1. /\ events # <<>> /\ events' = Tail(events) /\ UNCHANGED rcvVars
  BY DEF Pump, OnFileRxStarted, OnFileRxProgress, FolderMarkDone,
         OnFileRxError, NextEvent
<1>2. /\ ev \in EventRecords /\ ev.key \in Keys
      /\ total \in [Keys -> Nat] /\ done \in [Keys -> Nat]
      /\ stored \in [Keys -> Nat] /\ stored' = stored /\ card \in [Keys -> S]
      /\ \A k \in Keys : card[k] = "Recibido" => stored[k] >= total[k]
  <2>1. ev \in EventRecords
    BY <1>1, TailEvents DEF CardsInv
  <2>2. stored' = stored
    BY <1>1 DEF rcvVars
  <2> QED
    BY <2>1, <2>2 DEF CardsInv, CardsShape, CardsTypeOK, EventRecords, Received
<1>3. ev.kind # "started" => fileid_to_folder_rx[ev.id] = ev.key
  BY <1>1, HeadGoes
<1>4. /\ total = [total EXCEPT ![ev.key] = @ + 0]
      /\ done = [done EXCEPT ![ev.key] = @ + 0]
  BY <1>2
<1> HIDE DEF ev
<1>5. CASE OnFileRxStarted
  <2>1. /\ ev.kind = "started" /\ done' = done
        /\ total' = [total EXCEPT ![ev.key] = @ + 1]
        /\ card' = [card EXCEPT ![ev.key] = "Recibiendo"]
        /\ fileid_to_folder_rx' = Moved(ev.id, ev.key)
    BY <1>5 DEF OnFileRxStarted, NextEvent, ev
  <2>2. One(ev, "started", ev.key) = 1 /\ One(ev, "finished", ev.key) = 0
    BY <2>1 DEF One
  <2>3. Taken(ev)
    BY <1>1, <1>4, <2>1, <2>2 DEF Taken, ev
  <2>4. card' \in [Keys -> S] /\ Received'
    BY <1>2, <2>1 DEF Received
  <2> QED
    BY <2>3, <2>4, TakenKept
<1>6. CASE OnFileRxProgress \/ OnFileRxError
  <2>1. /\ ev.kind \in {"progress", "error"}
        /\ total' = total /\ done' = done
        /\ fileid_to_folder_rx' = fileid_to_folder_rx
        /\ \E x \in {"Recibiendo", "Error"} : card' = [card EXCEPT ![ev.key] = x]
    <3>1. CASE OnFileRxProgress
      BY <1>3, <3>1 DEF OnFileRxProgress, NextEvent, ev
    <3>2. CASE OnFileRxError
      BY <1>3, <3>2 DEF OnFileRxError, NextEvent, ev
    <3> QED
      BY <1>6, <3>1, <3>2
  <2>2. One(ev, "started", ev.key) = 0 /\ One(ev, "finished", ev.key) = 0
    BY <2>1 DEF One
  <2>3. Taken(ev)
    BY <1>1, <1>4, <2>1, <2>2 DEF Taken, ev
  <2>4. card' \in [Keys -> S] /\ Received'
    BY <1>2, <2>1 DEF Received
  <2> QED
    BY <2>3, <2>4, TakenKept
<1>7. CASE FolderMarkDone
  <2>1. /\ ev.kind = "finished" /\ total' = total
        /\ done' = [done EXCEPT ![ev.key] = @ + 1]
        /\ fileid_to_folder_rx' = fileid_to_folder_rx
        /\ card' = [card EXCEPT ![ev.key] =
                        IF Complete(done[ev.key] + 1, total[ev.key])
                        THEN "Recibido" ELSE "Recibiendo"]
    BY <1>3, <1>7 DEF FolderMarkDone, NextEvent, ev
  <2>2. One(ev, "started", ev.key) = 0 /\ One(ev, "finished", ev.key) = 1
    BY <2>1 DEF One
  <2>3. Taken(ev)
    BY <1>1, <1>4, <2>1, <2>2 DEF Taken, ev
  <2>4. card' \in [Keys -> S]
    BY <1>2, <2>1
  <2>5. done'[ev.key] <= stored[ev.key] /\ done'[ev.key] = done[ev.key] + 1
    <3>1. Books' /\ Len(events') \in Nat
      BY <1>1, <2>3, TakenBooks, TailEvents DEF CardsInv
    <3>2. /\ Count(events', "finished", ev.key, Len(events')) \in Nat
          /\ done'[ev.key] + Count(events', "finished", ev.key, Len(events'))
                = stored'[ev.key]
      BY <1>2, <3>1, CountType DEF Books
    <3>3. done'[ev.key] = done[ev.key] + 1 /\ done[ev.key] \in Nat
      BY <1>2, <2>1
    <3> QED
      BY <1>2, <3>2, <3>3
  <2>6. Received'
    <3>1. ASSUME NEW k \in Keys, card'[k] = "Recibido"
          PROVE  stored'[k] >= total'[k]
      <4>1. CASE k = ev.key
        <5>1. Complete(done[ev.key] + 1, total[ev.key])
          BY <1>2, <2>1, <3>1, <4>1
        <5>2. /\ done[k] \in Nat /\ total[k] \in Nat /\ stored[k] \in Nat
              /\ total'[k] = total[k] /\ stored'[k] = stored[k]
          BY <1>2, <2>1
        <5> QED
          BY <2>5, <4>1, <5>1, <5>2 DEF Complete
      <4>2. CASE k # ev.key
        BY <1>2, <2>1, <3>1, <4>2
      <4> QED
        BY <4>1, <4>2
    <3> QED
      BY <3>1 DEF Received
  <2> QED
    BY <2>3, <2>4, <2>6, TakenKept
<1> QED
  BY <1>5, <1>6, <1>7 DEF Pump

-----------------------------------------------------------------------------
(***************************************************************************)
(* The theorems                                                            *)
(***************************************************************************)
LEMMA InitialCards ==
    ASSUME FileCardsAssumption, Init
    PROVE  CardsInv
<1>1. /\ events = <<>> /\ Len(events) = 0 /\ DOMAIN events = {}
      /\ DOMAIN ctx = {} /\ DOMAIN fileid_to_folder_rx = {}
      /\ total = [k \in Keys |-> 0] /\ done = [k \in Keys |-> 0]
      /\ opened = [k \in Keys |-> 0] /\ stored = [k \in Keys |-> 0]
      /\ card = [k \in Keys |-> "none"]
  BY DEF Init, NoEntries
<1>2. CardsTypeOK
  BY <1>1 DEF CardsTypeOK, Init, FileCardsAssumption
<1>3. CardsShape
  <2>1. ctx \in [DOMAIN ctx -> Contexts]
    BY DEF Init, NoEntries
  <2>2. fileid_to_folder_rx \in [DOMAIN fileid_to_folder_rx -> Keys]
    BY DEF Init, NoEntries
  <2> QED
    BY <1>1, <2>1, <2>2, FS_EmptySet DEF CardsShape
<1>4. Attributed
  BY <1>1 DEF Attributed
<1>5. Books
  <2>1. \A k : Open(k) = {} /\ Cardinality(Open(k)) = 0
    BY <1>1, FS_EmptySet DEF Open
  <2>2. \A kind, k : Count(events, kind, k, 0) = 0
    BY CountNone
  <2> QED
    BY <1>1, <2>1, <2>2 DEF Books
<1>6. Received
  BY <1>1 DEF Received
<1> QED
  BY <1>2, <1>3, <1>4, <1>5, <1>6 DEF CardsInv

\* CardsInv holds in every reachable state, for any files, however many
\* sources share them and however their frames are interleaved.
THEOREM CardsInvariance == Spec => []CardsInv
<1> USE FileCardsAssumption
<1>1. Init => CardsInv
  BY InitialCards
<1>2. CardsInv /\ [Next]_vars => CardsInv'
  <2> SUFFICES ASSUME CardsInv, [Next]_vars
               PROVE  CardsInv'
    OBVIOUS
  <2>1. CASE \E f \in Files : OnMeta(f)
    BY <2>1, MetaKept
  <2>2. CASE \E id \in Ids : OnData(id)
    BY <2>2, DataKept
  <2>3. CASE Pump
    BY <2>3, PumpKept
  <2>4. CASE UNCHANGED vars
    <3>1. UNCHANGED <<ctx, metas, repeats, opened, stored, events, card, total,
                      done, fileid_to_folder_rx>>
      BY <2>4 DEF vars, rcvVars, cardVars
    <3>2. CardsTypeOK' /\ CardsShape' /\ Received'
      BY <3>1 DEF CardsInv, CardsTypeOK, CardsShape, Received
    <3>3. Attributed'
      BY <3>1 DEF CardsInv, Attributed, GoesTo
    <3>4. Books'
      <4>1. \A k : Open(k)' = Open(k)
        BY <3>1 DEF Open
      <4> QED
        BY <3>1, <4>1 DEF CardsInv, Books
    <3> QED
      BY <3>2, <3>3, <3>4 DEF CardsInv
  <2> QED
    BY <2>1, <2>2, <2>3, <2>4 DEF Next
<1> QED
  BY <1>1, <1>2, PTL DEF Spec

\* The type invariant: a receive context is finished exactly when no chunk is
\* missing (FileReceiver.on_data).
THEOREM CardsTypeCorrect == Spec => []CardsTypeOK
<1>1. CardsInv => CardsTypeOK
  BY DEF CardsInv
<1> QED
  BY <1>1, CardsInvariance, PTL

\* No card of the user interface counts as done a file that FileReceiver has
\* not stored below its root, nor more files than were started.
THEOREM DoneAreStored == Spec => []DoneIsStored
<1>1. CardsInv => DoneIsStored
  <2> SUFFICES ASSUME CardsInv, NEW k \in Keys
               PROVE  done[k] <= stored[k] /\ done[k] <= total[k]
    BY DEF DoneIsStored
  <2>1. /\ done[k] \in Nat /\ total[k] \in Nat /\ stored[k] \in Nat
        /\ Len(events) \in Nat
    BY DEF CardsInv, CardsShape
  <2>2. /\ done[k] + Count(events, "finished", k, Len(events)) = stored[k]
        /\ done[k] + Count(events, "finished", k, 0)
                <= total[k] + Count(events, "started", k, 0)
    BY <2>1 DEF CardsInv, Books
  <2>3. Count(events, "finished", k, Len(events)) \in Nat
    BY <2>1, CountType
  <2> QED
    BY <2>1, <2>2, <2>3, CountNone
<1> QED
  BY <1>1, CardsInvariance, PTL

\* A card that says "Recibido" has all the files it knows of in their place,
\* and no transfer of its root is open that it will not hear of.
THEOREM ReceivedAreStored == Spec => []ReceivedIsStored
<1>1. CardsInv => ReceivedIsStored
  <2> SUFFICES ASSUME CardsInv, NEW k \in Keys, card[k] = "Recibido"
               PROVE  /\ stored[k] >= total[k]
                      /\ (\A i \in DOMAIN events :
                            ~(events[i].kind = "started" /\ events[i].key = k))
                         => \A id \in DOMAIN ctx : ctx[id].key # k
    BY DEF ReceivedIsStored
  <2>1. /\ total[k] \in Nat /\ stored[k] \in Nat /\ opened[k] \in Nat
        /\ Len(events) \in Nat /\ DOMAIN events = 1 .. Len(events)
        /\ IsFiniteSet(DOMAIN ctx)
    BY DEF CardsInv, CardsShape
  <2>2. stored[k] >= total[k]
    BY DEF CardsInv, Received
  <2>3. ASSUME \A i \in DOMAIN events :
                    ~(events[i].kind = "started" /\ events[i].key = k)
        PROVE  Open(k) = {}
    <3>1. Count(events, "started", k, Len(events)) = 0
      <4>1. Counted(events, "started", k, Len(events)) = {}
        BY <2>1, <2>3 DEF Counted
      <4> QED
        BY <4>1, FS_EmptySet DEF Count
    <3>2. /\ total[k] + Count(events, "started", k, Len(events)) = opened[k]
          /\ stored[k] + Cardinality(Open(k)) <= opened[k]
      BY DEF CardsInv, Books
    <3>3. IsFiniteSet(Open(k)) /\ Cardinality(Open(k)) \in Nat
      BY <2>1, FS_Subset, FS_CardinalityType DEF Open
    <3>4. Cardinality(Open(k)) = 0
      BY <2>1, <2>2, <3>1, <3>2, <3>3
    <3> QED
      BY <3>3, <3>4, FS_EmptySet
  <2> QED
    BY <2>2, <2>3 DEF Open
<1> QED
  BY <1>1, CardsInvariance, PTL
=============================================================================
