----------------------------- MODULE RosterProofs -----------------------------
(***************************************************************************)
(* Lemmas about the contact list, for any number of neighbors and aliases  *)
(* and whatever rows an event has: what the loop over the rows and the     *)
(* sort do to the list and to _idx.  ChatWindowProofs and                  *)
(* NeighborhoodProofs use them.                                            *)
(***************************************************************************)
EXTENDS Roster, FiniteSetTheorems, FunctionTheorems, TLAPS

Distinct(s) == \A i, j \in DOMAIN s : s[i].mac = s[j].mac => i = j

\* No neighbor is listed twice and _idx numbers them, though sorting leaves it
\* pointing at others than its own.
ListInv ==
    /\ contacts \in Seq(Rows) /\ Distinct(contacts)
    /\ idx \in Bijection(MacsOf(contacts), DOMAIN contacts)

\* An event tells of neighbors, of each once.
Event(rows) == rows \in Seq(Rows) /\ Distinct(rows)

\* There is a contact for every row, of the same name and state.
Shows(s, rows) ==
    \E b \in Bijection(DOMAIN rows, DOMAIN s) :
        \A j \in DOMAIN rows :
            s[b[j]].name = rows[j].name /\ s[b[j]].online = rows[j].online

\* What the proofs use of a bijection.
LEMMA BijectionFacts ==
    \A S, T, f : f \in Bijection(S, T) =>
        /\ f \in [S -> T] /\ DOMAIN f = S
        /\ \A i, j \in S : f[i] = f[j] => i = j
        /\ \A k \in T : \E i \in S : f[i] = k
<1> SUFFICES ASSUME NEW S, NEW T, NEW f \in Bijection(S, T)
             PROVE  /\ f \in [S -> T] /\ DOMAIN f = S
                    /\ \A i, j \in S : f[i] = f[j] => i = j
                    /\ \A k \in T : \E i \in S : f[i] = k
  OBVIOUS
<1> QED
  BY Fun_BijectionProperties

\* Every row of the event is written to one contact or appended as one, and no
\* other contact is there.
LEMMA LoopOverRows ==
    ASSUME ListInv, NEW rows, Event(rows), NEW new \in Unknown(rows)
    PROVE  LET list == Updated(rows, new)
               ix == Indexed(new)
           IN  /\ list \in Seq(Rows) /\ Distinct(list)
               /\ MacsOf(list) = MacsOf(contacts) \union MacsOf(rows)
               /\ DOMAIN contacts \subseteq DOMAIN list
               /\ ix \in Bijection(MacsOf(list), DOMAIN list)
               /\ \A j \in DOMAIN rows :
                    /\ list[ix[rows[j].mac]].name = rows[j].name
                    /\ list[ix[rows[j].mac]].online = rows[j].online
<1> DEFINE list == Updated(rows, new)
           ix == Indexed(new)
           n == Len(contacts)
           N == {i \in DOMAIN rows : rows[i].mac \notin DOMAIN idx}
           c == Cardinality(N)
<1>1. /\ n \in Nat /\ DOMAIN contacts = 1 .. n
      /\ \A i \in 1 .. n : contacts[i] \in Rows
      /\ \A i, j \in 1 .. n : contacts[i].mac = contacts[j].mac => i = j
  <2>1. contacts \in Seq(Rows) /\ Distinct(contacts)
    BY DEF ListInv
  <2> QED
    BY <2>1 DEF Distinct
<1>2. /\ rows \in Seq(Rows) /\ Len(rows) \in Nat /\ DOMAIN rows = 1 .. Len(rows)
      /\ \A j \in DOMAIN rows : rows[j] \in Rows
      /\ \A i, j \in DOMAIN rows : rows[i].mac = rows[j].mac => i = j
  <2>1. rows \in Seq(Rows) /\ Distinct(rows)
    BY DEF Event
  <2> QED
    BY <2>1 DEF Distinct
<1>3. /\ DOMAIN idx = MacsOf(contacts)
      /\ idx \in [MacsOf(contacts) -> 1 .. n]
      /\ \A m, o \in DOMAIN idx : idx[m] = idx[o] => m = o
      /\ \A i \in 1 .. n : \E m \in DOMAIN idx : idx[m] = i
  <2>1. idx \in Bijection(MacsOf(contacts), 1 .. n)
    BY <1>1 DEF ListInv
  <2> DEFINE S == MacsOf(contacts)
             T == 1 .. n
  <2> HIDE DEF S, T
  <2>2. idx \in Bijection(S, T)
    BY <2>1 DEF S, T
  <2>3. /\ idx \in [S -> T] /\ DOMAIN idx = S
        /\ \A m, o \in S : idx[m] = idx[o] => m = o
        /\ \A i \in T : \E m \in S : idx[m] = i
    BY <2>2, BijectionFacts
  <2> QED
    BY <2>1, <2>3 DEF S, T
<1>4. c \in Nat
  <2>1. IsFiniteSet(1 .. Len(rows))
    BY <1>2, FS_Interval
  <2>2. N \in SUBSET (1 .. Len(rows))
    BY <1>2
  <2> HIDE DEF N
  <2> QED
    BY <2>1, <2>2, FS_Subset, FS_CardinalityType
<1>5. PICK at \in Bijection(1 .. c, N) : new = [k \in DOMAIN at |-> rows[at[k]]]
  BY DEF Unknown
<1>6. /\ at \in [1 .. c -> N] /\ \A k, l \in 1 .. c : at[k] = at[l] => k = l
      /\ \A j \in N : \E k \in 1 .. c : at[k] = j
  <2> DEFINE S == 1 .. c
  <2> HIDE DEF c, N, S
  <2>1. at \in Bijection(S, N)
    BY <1>5 DEF S
  <2>2. /\ at \in [S -> N]
        /\ \A k, l \in S : at[k] = at[l] => k = l
        /\ \A j \in N : \E k \in S : at[k] = j
    BY <2>1, BijectionFacts
  <2> QED
    BY <2>2 DEF S
<1>7. /\ new \in Seq(Rows) /\ Len(new) = c /\ DOMAIN new = 1 .. c
      /\ \A k \in 1 .. c : at[k] \in N /\ new[k] = rows[at[k]]
  <2>1. /\ \A k \in 1 .. c : at[k] \in N /\ at[k] \in DOMAIN rows
        /\ new = [k \in 1 .. c |-> rows[at[k]]]
    BY <1>5, <1>6
  <2> HIDE DEF c, N
  <2>2. new \in [1 .. c -> Rows]
    BY <2>1, <1>2
  <2>3. new \in Seq(Rows) /\ Len(new) = c
    BY <2>2, <1>4
  <2> QED
    BY <2>1, <2>3
<1>8. /\ \A k, l \in 1 .. c : new[k].mac = new[l].mac => k = l
      /\ \A k \in 1 .. c : new[k].mac \notin DOMAIN idx
      /\ \A j \in DOMAIN rows : rows[j].mac \in DOMAIN idx
                                \/ \E k \in 1 .. c : new[k] = rows[j]
      /\ MacsOf(new) = MacsOf(rows) \ DOMAIN idx
  <2>1. /\ \A k, l \in 1 .. c : new[k].mac = new[l].mac => k = l
        /\ \A k \in 1 .. c : new[k].mac \notin DOMAIN idx
        /\ \A k \in 1 .. c : \E j \in DOMAIN rows : new[k] = rows[j]
    <3>1. \A j \in N : j \in DOMAIN rows /\ rows[j].mac \notin DOMAIN idx
      OBVIOUS
    <3> HIDE DEF c, N
    <3>2. \A k \in 1 .. c : /\ at[k] \in N /\ at[k] \in DOMAIN rows
                            /\ new[k] = rows[at[k]] /\ new[k].mac \notin DOMAIN idx
      BY <3>1, <1>7
    <3>3. ASSUME NEW k \in 1 .. c, NEW l \in 1 .. c, new[k].mac = new[l].mac
          PROVE  k = l
      <4>1. rows[at[k]].mac = rows[at[l]].mac
        BY <3>2, <3>3
      <4>2. at[k] = at[l]
        BY <3>2, <4>1, <1>2
      <4> QED
        BY <4>2, <1>6
    <3> QED
      BY <3>2, <3>3
  <2>2. \A j \in N : \E k \in 1 .. c : new[k] = rows[j]
    BY <1>6, <1>7
  <2>3. \A j \in DOMAIN rows : rows[j].mac \in DOMAIN idx
                                \/ \E k \in 1 .. c : new[k] = rows[j]
    BY <2>2
  <2> HIDE DEF c, N
  <2>4. MacsOf(new) = MacsOf(rows) \ DOMAIN idx
    BY <2>1, <2>3, <1>7 DEF MacsOf
  <2> QED
    BY <2>1, <2>3, <2>4
<1> HIDE DEF c, N
<1> DEFINE hits(i) == {r \in Range(rows) : r.mac \in DOMAIN idx /\ idx[r.mac] = i}
           upd == [i \in DOMAIN contacts |->
                    IF hits(i) = {} THEN contacts[i]
                    ELSE [(CHOOSE r \in hits(i) : TRUE) EXCEPT !.mac = contacts[i].mac]]
<1>9. list = upd \o new
  BY DEF Updated
<1>10. \A i \in 1 .. n :
            \/ \E j \in DOMAIN rows :
                 /\ rows[j].mac \in DOMAIN idx /\ idx[rows[j].mac] = i
                 /\ upd[i] = [rows[j] EXCEPT !.mac = contacts[i].mac]
            \/ /\ upd[i] = contacts[i]
               /\ \A j \in DOMAIN rows :
                    ~(rows[j].mac \in DOMAIN idx /\ idx[rows[j].mac] = i)
  <2> SUFFICES ASSUME NEW i \in 1 .. n,
                      NEW j \in DOMAIN rows,
                      rows[j].mac \in DOMAIN idx, idx[rows[j].mac] = i
               PROVE  upd[i] = [rows[j] EXCEPT !.mac = contacts[i].mac]
    <3>1. ASSUME NEW i \in 1 .. n,
                 \A j \in DOMAIN rows :
                    ~(rows[j].mac \in DOMAIN idx /\ idx[rows[j].mac] = i)
          PROVE  upd[i] = contacts[i]
      <4>1. hits(i) = {}
        BY <3>1, <1>2 DEF Range
      <4>2. i \in DOMAIN contacts
        BY <1>1
      <4>3. upd[i] = IF hits(i) = {} THEN contacts[i]
                     ELSE [(CHOOSE r \in hits(i) : TRUE) EXCEPT !.mac = contacts[i].mac]
        BY <4>2
      <4> HIDE DEF hits, upd
      <4> QED
        BY <4>1, <4>3
    <3> HIDE DEF upd
    <3> QED
      BY <3>1
  <2>1. rows[j] \in hits(i)
    BY DEF Range
  <2>2. \A r \in hits(i) : r = rows[j]
    BY <1>2, <1>3 DEF Range
  <2>3. i \in DOMAIN contacts
    BY <1>1
  <2>4. upd[i] = IF hits(i) = {} THEN contacts[i]
                 ELSE [(CHOOSE r \in hits(i) : TRUE) EXCEPT !.mac = contacts[i].mac]
    BY <2>3
  <2> HIDE DEF hits, upd
  <2>5. (CHOOSE r \in hits(i) : TRUE) = rows[j]
    BY <2>1, <2>2
  <2> QED
    BY <2>1, <2>4, <2>5, Zenon
<1>11. \A i \in 1 .. n :
            /\ upd[i] \in Rows /\ upd[i].mac = contacts[i].mac
            /\ \A j \in DOMAIN rows :
                 (rows[j].mac \in DOMAIN idx /\ idx[rows[j].mac] = i)
                    => upd[i].name = rows[j].name /\ upd[i].online = rows[j].online
  <2> HIDE DEF upd
  <2> SUFFICES ASSUME NEW i \in 1 .. n
               PROVE  /\ upd[i] \in Rows /\ upd[i].mac = contacts[i].mac
                      /\ \A j \in DOMAIN rows :
                            (rows[j].mac \in DOMAIN idx /\ idx[rows[j].mac] = i)
                            => /\ upd[i].name = rows[j].name
                               /\ upd[i].online = rows[j].online
    OBVIOUS
  <2>1. CASE /\ upd[i] = contacts[i]
             /\ \A j \in DOMAIN rows :
                    ~(rows[j].mac \in DOMAIN idx /\ idx[rows[j].mac] = i)
    BY <2>1, <1>1
  <2>2. ASSUME NEW j \in DOMAIN rows,
               rows[j].mac \in DOMAIN idx, idx[rows[j].mac] = i,
               upd[i] = [rows[j] EXCEPT !.mac = contacts[i].mac]
        PROVE  /\ upd[i] \in Rows /\ upd[i].mac = contacts[i].mac
               /\ \A k \in DOMAIN rows :
                    (rows[k].mac \in DOMAIN idx /\ idx[rows[k].mac] = i)
                    => /\ upd[i].name = rows[k].name
                       /\ upd[i].online = rows[k].online
    <3>1. rows[j] \in Rows /\ contacts[i] \in Rows
      BY <1>1, <1>2
    <3>2. /\ upd[i] \in Rows /\ upd[i].mac = contacts[i].mac
          /\ upd[i].name = rows[j].name /\ upd[i].online = rows[j].online
      BY <2>2, <3>1 DEF Rows
    <3>3. \A k \in DOMAIN rows :
            rows[k].mac \in DOMAIN idx /\ idx[rows[k].mac] = i => k = j
      BY <2>2, <1>2, <1>3
    <3> QED
      BY <3>2, <3>3
  <2> QED
    BY <2>1, <2>2, <1>10
<1>12. upd \in Seq(Rows) /\ Len(upd) = n
  <2>1. DOMAIN upd = 1 .. n /\ upd = [i \in 1 .. n |-> upd[i]]
    BY <1>1
  <2> HIDE DEF upd
  <2>2. upd \in [1 .. n -> Rows]
    BY <2>1, <1>11
  <2> QED
    BY <2>2, <1>1
<1> HIDE DEF upd, list
<1>13. /\ list \in Seq(Rows) /\ DOMAIN list = 1 .. (n + c)
       /\ \A i \in 1 .. n : list[i] = upd[i]
       /\ \A k \in 1 .. c : list[n + k] = new[k]
  BY <1>1, <1>4, <1>7, <1>9, <1>12
<1>14. \A i \in 1 .. (n + c) : i \in 1 .. n \/ \E k \in 1 .. c : i = n + k
  <2> SUFFICES ASSUME NEW i \in 1 .. (n + c), i \notin 1 .. n
               PROVE  i - n \in 1 .. c /\ i = n + (i - n)
    OBVIOUS
  <2> QED
    BY <1>1, <1>4
<1>15. /\ \A i \in 1 .. n : list[i].mac = contacts[i].mac
       /\ \A i \in 1 .. n : contacts[i].mac \in DOMAIN idx
       /\ \A k \in 1 .. c : list[n + k].mac = new[k].mac
  BY <1>1, <1>3, <1>11, <1>13 DEF MacsOf
<1>16. Distinct(list)
  <2> SUFFICES ASSUME NEW i \in 1 .. (n + c), NEW j \in 1 .. (n + c),
                      list[i].mac = list[j].mac
               PROVE  i = j
    BY <1>13 DEF Distinct
  <2>1. CASE i \in 1 .. n /\ j \in 1 .. n
    BY <2>1, <1>1, <1>15
  <2>2. CASE i \in 1 .. n /\ j \notin 1 .. n
    <3>1. PICK l \in 1 .. c : j = n + l
      BY <1>14, <2>2
    <3> QED
      BY <3>1, <2>2, <1>8, <1>15
  <2>3. CASE i \notin 1 .. n /\ j \in 1 .. n
    <3>1. PICK k \in 1 .. c : i = n + k
      BY <1>14, <2>3
    <3> QED
      BY <3>1, <2>3, <1>8, <1>15
  <2>4. CASE i \notin 1 .. n /\ j \notin 1 .. n
    <3>1. PICK k \in 1 .. c : i = n + k
      BY <1>14, <2>4
    <3>2. PICK l \in 1 .. c : j = n + l
      BY <1>14, <2>4
    <3> QED
      BY <3>1, <3>2, <1>8, <1>15
  <2> QED
    BY <2>1, <2>2, <2>3, <2>4
<1>17. MacsOf(list) = MacsOf(contacts) \union MacsOf(rows)
  <2>1. \A k \in 1 .. c : new[k].mac \in MacsOf(rows)
    BY <1>7, <1>8 DEF MacsOf
  <2>2. MacsOf(list) \subseteq MacsOf(contacts) \union MacsOf(rows)
    <3> SUFFICES ASSUME NEW i \in 1 .. (n + c)
                 PROVE  list[i].mac \in MacsOf(contacts) \union MacsOf(rows)
      BY <1>13 DEF MacsOf
    <3> QED
      <4>1. CASE i \in 1 .. n
        BY <4>1, <1>2, <1>3, <1>15
      <4>2. CASE i \notin 1 .. n
        <5>1. PICK k \in 1 .. c : i = n + k
          BY <4>2, <1>14
        <5> QED
          BY <5>1, <2>1, <1>15
      <4> QED
        BY <4>1, <4>2
  <2>3. \A i \in 1 .. n : i \in DOMAIN list
    BY <1>1, <1>4, <1>13
  <2>4. \A k \in 1 .. c : n + k \in DOMAIN list
    BY <1>1, <1>4, <1>13
  <2>5. \A m \in DOMAIN idx : m \in MacsOf(list)
    <3>1. \A m \in DOMAIN idx : \E i \in 1 .. n : contacts[i].mac = m
      BY <1>1, <1>3 DEF MacsOf
    <3> QED
      BY <3>1, <2>3, <1>15 DEF MacsOf
  <2>6. \A m \in MacsOf(new) : m \in MacsOf(list)
    BY <2>4, <1>7, <1>15 DEF MacsOf
  <2> QED
    BY <2>2, <2>5, <2>6, <1>3, <1>8
<1>18. /\ DOMAIN ix = MacsOf(list)
       /\ \A m \in DOMAIN idx : ix[m] = idx[m]
       /\ \A k \in 1 .. c : ix[new[k].mac] = n + k
  <2>1. ix = [m \in MacsOf(list) |->
                IF m \in DOMAIN idx THEN idx[m]
                ELSE n + CHOOSE k \in DOMAIN new : new[k].mac = m]
    <3>1. DOMAIN idx \union MacsOf(new) = MacsOf(list)
      BY <1>3, <1>8, <1>17
    <3> QED
      BY <3>1, Zenon DEF Indexed
  <2> HIDE DEF ix
  <2>2. \A k \in 1 .. c : (CHOOSE l \in DOMAIN new : new[l].mac = new[k].mac) = k
    BY <1>7, <1>8
  <2>3. \A k \in 1 .. c : new[k].mac \in MacsOf(list) /\ new[k].mac \notin DOMAIN idx
    <3>1. \A k \in 1 .. c : new[k].mac \in MacsOf(new)
      BY <1>7 DEF MacsOf
    <3> QED
      BY <3>1, <1>8, <1>17
  <2>4. \A m \in DOMAIN idx : m \in MacsOf(list)
    BY <1>3, <1>17
  <2> QED
    BY <2>1, <2>2, <2>3, <2>4
<1> HIDE DEF ix
<1>19. \A j \in DOMAIN rows :
            /\ ix[rows[j].mac] \in DOMAIN list
            /\ list[ix[rows[j].mac]].name = rows[j].name
            /\ list[ix[rows[j].mac]].online = rows[j].online
  <2> SUFFICES ASSUME NEW j \in DOMAIN rows
               PROVE  /\ ix[rows[j].mac] \in DOMAIN list
                      /\ list[ix[rows[j].mac]].name = rows[j].name
                      /\ list[ix[rows[j].mac]].online = rows[j].online
    OBVIOUS
  <2>1. CASE rows[j].mac \in DOMAIN idx
    <3>1. ix[rows[j].mac] = idx[rows[j].mac] /\ idx[rows[j].mac] \in 1 .. n
      BY <2>1, <1>3, <1>18
    <3>2. idx[rows[j].mac] \in DOMAIN list
      BY <3>1, <1>1, <1>4, <1>13
    <3> QED
      BY <2>1, <3>1, <3>2, <1>11, <1>13
  <2>2. CASE rows[j].mac \notin DOMAIN idx
    <3>1. PICK k \in 1 .. c : new[k] = rows[j]
      BY <2>2, <1>8
    <3>2. ix[rows[j].mac] = n + k /\ list[n + k] = rows[j]
      BY <3>1, <1>13, <1>18
    <3>3. n + k \in DOMAIN list
      BY <1>1, <1>4, <1>13
    <3> QED
      BY <3>2, <3>3
  <2> QED
    BY <2>1, <2>2
<1>20. ix \in Bijection(MacsOf(list), DOMAIN list)
  <2>1. ix \in [MacsOf(list) -> DOMAIN list]
    <3>1. \A m \in MacsOf(list) : ix[m] \in DOMAIN list
      <4>1. \A m \in DOMAIN idx : ix[m] \in DOMAIN list
        BY <1>1, <1>3, <1>4, <1>13, <1>18
      <4>2. \A k \in 1 .. c : ix[new[k].mac] \in DOMAIN list
        BY <1>1, <1>4, <1>13, <1>18
      <4>3. \A m \in MacsOf(new) : ix[m] \in DOMAIN list
        BY <4>2, <1>7 DEF MacsOf
      <4> QED
        BY <4>1, <4>3, <1>3, <1>8, <1>17
    <3>2. ix = [m \in MacsOf(list) |-> ix[m]]
      BY <1>18 DEF ix, Indexed
    <3> QED
      BY <3>1, <3>2
  <2>2. \A m \in MacsOf(list) : m \in DOMAIN idx \/ \E k \in 1 .. c : m = new[k].mac
    <3>1. \A m \in MacsOf(new) : \E k \in 1 .. c : m = new[k].mac
      BY <1>7 DEF MacsOf
    <3> QED
      BY <3>1, <1>3, <1>8, <1>17
  <2>3. ASSUME NEW m \in MacsOf(list), NEW o \in MacsOf(list), ix[m] = ix[o]
        PROVE  m = o
    <3>1. CASE m \in DOMAIN idx /\ o \in DOMAIN idx
      BY <3>1, <2>3, <1>3, <1>18
    <3>2. CASE m \in DOMAIN idx /\ o \notin DOMAIN idx
      BY <3>2, <2>2, <2>3, <1>1, <1>3, <1>18
    <3>3. CASE m \notin DOMAIN idx /\ o \in DOMAIN idx
      BY <3>3, <2>2, <2>3, <1>1, <1>3, <1>18
    <3>4. CASE m \notin DOMAIN idx /\ o \notin DOMAIN idx
      <4>1. PICK k \in 1 .. c : m = new[k].mac
        BY <3>4, <2>2
      <4>2. PICK l \in 1 .. c : o = new[l].mac
        BY <3>4, <2>2
      <4>3. n + k = n + l
        BY <4>1, <4>2, <2>3, <1>18
      <4> QED
        BY <4>1, <4>2, <4>3, <1>1
    <3> QED
      BY <3>1, <3>2, <3>3, <3>4
  <2>4. \A i \in DOMAIN list : \E m \in MacsOf(list) : ix[m] = i
    <3> SUFFICES ASSUME NEW i \in 1 .. (n + c)
                 PROVE  \E m \in MacsOf(list) : ix[m] = i
      BY <1>13
    <3>1. CASE i \in 1 .. n
      BY <3>1, <1>3, <1>17, <1>18
    <3>2. CASE i \notin 1 .. n
      <4>1. PICK k \in 1 .. c : i = n + k
        BY <3>2, <1>14
      <4>2. new[k].mac \in MacsOf(list)
        <5>1. new[k].mac \in MacsOf(new)
          BY <1>7 DEF MacsOf
        <5> QED
          BY <5>1, <1>8, <1>17
      <4> QED
        BY <4>1, <4>2, <1>18
    <3> QED
      BY <3>1, <3>2
  <2> QED
    BY <2>1, <2>3, <2>4, Fun_IsBij
<1>21. DOMAIN contacts \subseteq DOMAIN list
  BY <1>1, <1>4, <1>13
<1> QED
  BY <1>13, <1>16, <1>17, <1>19, <1>20, <1>21 DEF list, ix

\* An event leaves a list of the neighbors it names, each with what the event
\* says of somebody.
LEMMA EventKeepsList ==
    ASSUME ListInv, NEW rows, Event(rows), OnNeighborsChanged(rows)
    PROVE  /\ contacts' \in Seq(Rows) /\ Distinct(contacts')
           /\ MacsOf(contacts') = MacsOf(contacts) \union MacsOf(rows)
           /\ last' = rows
           /\ idx' \in Bijection(MacsOf(contacts'), DOMAIN contacts')
           /\ MacsOf(contacts) \subseteq MacsOf(rows) => Shows(contacts', rows)
           /\ DOMAIN contacts \subseteq DOMAIN contacts'
           /\ highlight' = highlight /\ selected' = SelectFirst(contacts')
<1>1. PICK new \in Unknown(rows) :
        \E p \in StableOrders(Updated(rows, new)) :
            /\ contacts' = [i \in DOMAIN Updated(rows, new) |-> Updated(rows, new)[p[i]]]
            /\ idx' = Indexed(new) /\ selected' = SelectFirst(contacts')
            /\ last' = rows /\ highlight' = highlight
  BY Zenon DEF OnNeighborsChanged
<1> DEFINE list == Updated(rows, new)
           ix == Indexed(new)
           n == Len(list)
<1>2. PICK p \in StableOrders(list) :
            /\ contacts' = [i \in DOMAIN list |-> list[p[i]]]
            /\ idx' = ix /\ selected' = SelectFirst(contacts')
            /\ last' = rows /\ highlight' = highlight
  BY <1>1, Zenon
<1>3. /\ list \in Seq(Rows) /\ Distinct(list)
      /\ MacsOf(list) = MacsOf(contacts) \union MacsOf(rows)
      /\ ix \in Bijection(MacsOf(list), DOMAIN list)
      /\ \A j \in DOMAIN rows : /\ list[ix[rows[j].mac]].name = rows[j].name
                                /\ list[ix[rows[j].mac]].online = rows[j].online
  BY LoopOverRows, Zenon
<1>4. DOMAIN contacts \subseteq DOMAIN list
  BY LoopOverRows, Zenon
<1> HIDE DEF list, ix
<1>5. n \in Nat /\ DOMAIN list = 1 .. n /\ \A i \in 1 .. n : list[i] \in Rows
  BY <1>3
<1>6. p \in Bijection(DOMAIN list, DOMAIN list)
  BY DEF StableOrders
<1>7. /\ \A i \in DOMAIN list : p[i] \in DOMAIN list
      /\ \A i, j \in DOMAIN list : p[i] = p[j] => i = j
      /\ \A k \in DOMAIN list : \E i \in DOMAIN list : p[i] = k
  BY <1>6, BijectionFacts
<1> DEFINE s == [i \in DOMAIN list |-> list[p[i]]]
<1>8. /\ s \in Seq(Rows) /\ DOMAIN s = DOMAIN list
      /\ \A i \in DOMAIN list : s[i] = list[p[i]]
  <2>1. s \in [1 .. n -> Rows]
    BY <1>5, <1>7
  <2> QED
    BY <2>1, <1>5
<1> HIDE DEF s
<1>9. Distinct(s) /\ MacsOf(s) = MacsOf(list)
  <2>0. /\ DOMAIN s = DOMAIN list /\ \A i \in DOMAIN s : s[i].mac = list[p[i]].mac
        /\ \A i, j \in DOMAIN list : list[i].mac = list[j].mac => i = j
    BY <1>3, <1>8 DEF Distinct
  <2>1. Distinct(s)
    <3> SUFFICES ASSUME NEW i \in DOMAIN s, NEW j \in DOMAIN s, s[i].mac = s[j].mac
                 PROVE  i = j
      BY DEF Distinct
    <3>0. /\ p[i] \in DOMAIN list /\ p[j] \in DOMAIN list
          /\ list[p[i]].mac = list[p[j]].mac
      BY <2>0, <1>7, Zenon
    <3>1. p[i] = p[j]
      BY <3>0, <2>0, Zenon
    <3> QED
      BY <3>1, <2>0, <1>7
  <2>2. \A m \in MacsOf(s) : m \in MacsOf(list)
    <3> SUFFICES ASSUME NEW i \in DOMAIN s
                 PROVE  s[i].mac \in MacsOf(list)
      BY DEF MacsOf
    <3>1. p[i] \in DOMAIN list /\ s[i].mac = list[p[i]].mac
      BY <2>0, <1>7
    <3> QED
      BY <3>1 DEF MacsOf
  <2>3. \A k \in DOMAIN list : list[k].mac \in MacsOf(s)
    <3> SUFFICES ASSUME NEW k \in DOMAIN list
                 PROVE  list[k].mac \in MacsOf(s)
      OBVIOUS
    <3>1. PICK i \in DOMAIN s : p[i] = k
      BY <2>0, <1>7
    <3>2. s[i].mac = list[k].mac
      BY <3>1, <2>0
    <3> QED
      BY <3>2 DEF MacsOf
  <2>4. \A m \in MacsOf(list) : m \in MacsOf(s)
    BY <2>3 DEF MacsOf
  <2> QED
    BY <2>1, <2>2, <2>4
<1>10. ASSUME MacsOf(contacts) \subseteq MacsOf(rows)
       PROVE  Shows(s, rows)
  <2>1. rows \in Seq(Rows) /\ Distinct(rows)
    BY DEF Event
  <2> DEFINE f == [j \in DOMAIN rows |-> ix[rows[j].mac]]
             b == [j \in DOMAIN rows |-> CHOOSE i \in DOMAIN s : p[i] = f[j]]
             M == MacsOf(rows)
  <2>2. /\ \A j \in DOMAIN rows : rows[j].mac \in M
        /\ \A m \in M : \E j \in DOMAIN rows : rows[j].mac = m
    BY DEF MacsOf
  <2>3. MacsOf(list) = M
    BY <1>3, <1>10
  <2> HIDE DEF M
  <2>4. /\ ix \in [M -> DOMAIN list]
        /\ \A m, o \in M : ix[m] = ix[o] => m = o
        /\ \A k \in DOMAIN list : \E m \in M : ix[m] = k
    <3>1. ix \in Bijection(M, DOMAIN list)
      BY <1>3, <2>3
    <3> QED
      BY <3>1, BijectionFacts
  <2>5. /\ \A j \in DOMAIN rows : f[j] \in DOMAIN list
        /\ \A i, j \in DOMAIN rows : f[i] = f[j] => i = j
    BY <2>1, <2>2, <2>4 DEF Distinct
  <2>6. \A k \in DOMAIN list : \E j \in DOMAIN rows : f[j] = k
    BY <2>2, <2>4
  <2>7. \A j \in DOMAIN rows : f[j] = ix[rows[j].mac]
    OBVIOUS
  <2> HIDE DEF f
  <2>8. \A j \in DOMAIN rows : b[j] \in DOMAIN s /\ p[b[j]] = f[j]
    BY <2>5, <1>7, <1>8
  <2> HIDE DEF b
  <2>9. \A i, j \in DOMAIN rows : b[i] = b[j] => i = j
    BY <2>5, <2>8
  <2>10. \A k \in DOMAIN s : \E j \in DOMAIN rows : b[j] = k
    <3> SUFFICES ASSUME NEW k \in DOMAIN s
                 PROVE  \E j \in DOMAIN rows : b[j] = k
      OBVIOUS
    <3>1. p[k] \in DOMAIN list
      BY <1>7, <1>8
    <3>2. PICK j \in DOMAIN rows : f[j] = p[k]
      BY <3>1, <2>6
    <3>3. b[j] = k
      BY ZenonT(60), <3>2, <2>8, <1>7, <1>8
    <3> QED
      BY <3>3
  <2>11. b \in [DOMAIN rows -> DOMAIN s]
    BY <2>8 DEF b
  <2>12. b \in Bijection(DOMAIN rows, DOMAIN s)
    BY <2>9, <2>10, <2>11, Fun_IsBij
  <2>13. \A j \in DOMAIN rows :
            s[b[j]].name = rows[j].name /\ s[b[j]].online = rows[j].online
    BY <2>7, <2>8, <1>3, <1>8
  <2> QED
    BY <2>12, <2>13 DEF Shows
<1>11. contacts' = s
  BY <1>2 DEF s
<1>12. idx' \in Bijection(MacsOf(contacts'), DOMAIN contacts')
  BY <1>2, <1>3, <1>8, <1>9, <1>11
<1> QED
  BY <1>2, <1>3, <1>4, <1>8, <1>9, <1>10, <1>11, <1>12
=============================================================================
