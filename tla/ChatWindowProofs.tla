--------------------------- MODULE ChatWindowProofs ---------------------------
(***************************************************************************)
(* Theorems about ChatWindow and its contact list, Roster, for any number  *)
(* of neighbors, aliases, files and characters.                            *)
(***************************************************************************)
EXTENDS ChatWindow, RosterProofs

\* The list and the last event are of the same neighbors, and _idx numbers
\* them, though sorting leaves it pointing at others than its own.
RosterInv ==
    /\ ListInv
    /\ last \in Seq(Rows) /\ Distinct(last)
    /\ MacsOf(contacts) = MacsOf(last)
    /\ RowsKept
    /\ selected \in Peers \union {NoMac, AllMacs}
    /\ highlight = 1 \/ highlight \in DOMAIN contacts

-----------------------------------------------------------------------------
(***************************************************************************)
(* The contact list and the conversation                                   *)
(***************************************************************************)
\* What the backend tells is of everybody who is listed: its table only grows
\* (TableGrowth).
LEMMA ToldIsEvent ==
    ASSUME RosterInv, NEW aged \in Aged, NEW m \in Peers, NEW name \in Names
    PROVE  /\ Event(Told(aged, m, name))
           /\ MacsOf(last) \subseteq MacsOf(Told(aged, m, name))
<1>1. /\ aged \in Seq(Rows) /\ DOMAIN aged = DOMAIN last
      /\ \A i \in DOMAIN last : aged[i].mac = last[i].mac
  <2>0. PICK silent \in SUBSET DOMAIN last :
            aged = [i \in DOMAIN last |->
                        IF i \in silent THEN [last[i] EXCEPT !.online = FALSE]
                        ELSE last[i]]
    BY DEF Aged
  <2>1. \A r \in Rows : /\ [r EXCEPT !.online = FALSE] \in Rows
                        /\ [r EXCEPT !.online = FALSE].mac = r.mac
    BY DEF Rows
  <2>2. last \in Seq(Rows)
    BY DEF RosterInv
  <2>3. /\ Len(last) \in Nat /\ DOMAIN last = 1 .. Len(last)
        /\ \A i \in 1 .. Len(last) : last[i] \in Rows
    BY <2>2
  <2>4. /\ aged \in [1 .. Len(last) -> Rows] /\ DOMAIN aged = DOMAIN last
        /\ \A i \in DOMAIN last : aged[i].mac = last[i].mac
    BY <2>0, <2>1, <2>3
  <2>5. aged \in Seq(Rows)
    BY <2>3, <2>4
  <2> QED
    BY <2>4, <2>5
<1> DEFINE r == [mac |-> m, name |-> name, online |-> TRUE]
<1>2. r \in Rows /\ r.mac = m
  BY DEF Rows
<1>3. Told(aged, m, name) =
        IF m \in MacsOf(aged)
        THEN [i \in DOMAIN aged |-> IF aged[i].mac = m THEN r ELSE aged[i]]
        ELSE Append(aged, r)
  BY DEF Told
<1> HIDE DEF r
<1>4. /\ aged \in Seq(Rows) /\ DOMAIN aged = DOMAIN last
      /\ \A k \in DOMAIN last : aged[k].mac = last[k].mac
  BY <1>1
<1> DEFINE rows == Told(aged, m, name)
<1> SUFFICES Event(rows) /\ MacsOf(last) \subseteq MacsOf(rows)
  OBVIOUS
<1>5. CASE m \in MacsOf(aged)
  <2>1. rows = [i \in DOMAIN aged |-> IF aged[i].mac = m THEN r ELSE aged[i]]
    BY <1>3, <1>5
  <2> HIDE DEF rows
  <2>2. /\ rows \in Seq(Rows) /\ DOMAIN rows = DOMAIN last
        /\ \A k \in DOMAIN last : rows[k].mac = last[k].mac
    BY <2>1, <1>2, <1>4
  <2> QED
    BY <2>2 DEF Event, Distinct, MacsOf, RosterInv
<1>6. CASE m \notin MacsOf(aged)
  <2>1. rows = Append(aged, r)
    BY <1>3, <1>6
  <2> HIDE DEF rows
  <2>2. /\ rows \in Seq(Rows) /\ Len(aged) \in Nat
        /\ DOMAIN aged = 1 .. Len(aged) /\ DOMAIN rows = 1 .. Len(aged) + 1
        /\ \A k \in DOMAIN aged : rows[k] = aged[k]
        /\ rows[Len(aged) + 1] = r
    BY <2>1, <1>2, <1>4
  <2>3. \A k \in DOMAIN last : last[k].mac # m
    BY <1>4, <1>6 DEF MacsOf
  <2>4. /\ \A k \in DOMAIN last : k \in DOMAIN rows /\ rows[k].mac = last[k].mac
        /\ \A k \in DOMAIN rows : k \in DOMAIN last \/ k = Len(aged) + 1
    BY <2>2, <1>4
  <2>5. Distinct(rows)
    <3>1. Distinct(last)
      BY DEF RosterInv
    <3> QED
      BY <1>2, <2>2, <2>3, <2>4, <3>1 DEF Distinct
  <2>6. MacsOf(last) \subseteq MacsOf(rows)
    BY <2>4 DEF MacsOf
  <2> QED
    BY <2>2, <2>5, <2>6 DEF Event
<1> QED
  BY <1>5, <1>6

\* The names and states counted are the same for lists that a bijection maps to
\* each other.
LEMMA SameShowing ==
    ASSUME NEW s, NEW t, IsFiniteSet(DOMAIN s),
           NEW b \in Bijection(DOMAIN s, DOMAIN t),
           \A i \in DOMAIN s :
                t[b[i]].name = s[i].name /\ t[b[i]].online = s[i].online,
           NEW name, NEW online
    PROVE  Showing(t, name, online) = Showing(s, name, online)
<1> DEFINE S == {i \in DOMAIN s : s[i].name = name /\ s[i].online = online}
           T == {i \in DOMAIN t : t[i].name = name /\ t[i].online = online}
           f == [i \in S |-> b[i]]
<1>1. /\ b \in [DOMAIN s -> DOMAIN t]
      /\ \A i, j \in DOMAIN s : b[i] = b[j] => i = j
      /\ \A k \in DOMAIN t : \E i \in DOMAIN s : b[i] = k
  BY Fun_BijectionProperties
<1>2. f \in [S -> T] /\ \A i, j \in S : f[i] = f[j] => i = j
  BY <1>1
<1>3. \A k \in T : \E i \in S : f[i] = k
  BY <1>1
<1> HIDE DEF f, S, T
<1>4. f \in Bijection(S, T)
  BY <1>2, <1>3, Fun_IsBij
<1>5. ExistsBijection(S, T)
  BY <1>4 DEF ExistsBijection
<1>6. IsFiniteSet(S)
  BY FS_Subset DEF S
<1>7. Cardinality(T) = Cardinality(S)
  BY <1>5, <1>6, FS_Bijection
<1> QED
  BY <1>7 DEF Showing, S, T

\* The list and the conversation that is open.
OpenInv ==
    /\ RosterInv /\ DraftNotRedirected
    /\ chosen \in Peers \union {NoMac, AllMacs}

\* A list that shows the rows has as many of each name and state.
LEMMA SameCounts ==
    ASSUME NEW s, NEW t \in Seq(Rows), Shows(s, t), NEW name, NEW online
    PROVE  Showing(s, name, online) = Showing(t, name, online)
<1>1. PICK b \in Bijection(DOMAIN t, DOMAIN s) :
        \A j \in DOMAIN t :
            s[b[j]].name = t[j].name /\ s[b[j]].online = t[j].online
  BY DEF Shows
<1>2. IsFiniteSet(DOMAIN t)
  BY FS_Interval
<1> QED
  BY <1>1, <1>2, SameShowing

\* An event of the roster leaves the open conversation to the user.
LEMMA NeighborsKeepsOpen ==
    ASSUME OpenInv, Neighbors
    PROVE  OpenInv'
<1>1. RosterInv /\ DraftNotRedirected /\ chosen' = chosen
      /\ chosen \in Peers \union {NoMac, AllMacs}
  BY DEF OpenInv, Neighbors
<1>2. PICK aged \in Aged, m \in Peers, name \in Names :
            OnNeighborsChanged(Told(aged, m, name))
  BY Zenon DEF Neighbors
<1> DEFINE rows == Told(aged, m, name)
<1>3. Event(rows) /\ MacsOf(contacts) \subseteq MacsOf(rows)
  BY <1>1, ToldIsEvent DEF RosterInv
<1> HIDE DEF rows
<1>4. OnNeighborsChanged(rows)
  BY <1>2 DEF rows
<1>5. /\ contacts' \in Seq(Rows) /\ Distinct(contacts')
      /\ MacsOf(contacts') = MacsOf(contacts) \union MacsOf(rows)
      /\ last' = rows
      /\ idx' \in Bijection(MacsOf(contacts'), DOMAIN contacts')
      /\ Shows(contacts', rows)
      /\ DOMAIN contacts \subseteq DOMAIN contacts'
      /\ highlight' = highlight /\ selected' = SelectFirst(contacts')
  <2>1. ListInv
    BY <1>1 DEF RosterInv
  <2> QED
    BY <2>1, <1>3, <1>4, EventKeepsList, Zenon
<1>6. MacsOf(contacts) \subseteq MacsOf(contacts')
  BY <1>5
<1>10. /\ ListInv' /\ RowsKept'
       /\ last' \in Seq(Rows) /\ Distinct(last')
       /\ MacsOf(contacts') = MacsOf(last')
  <2>1. rows \in Seq(Rows) /\ Distinct(rows)
    BY <1>3 DEF Event
  <2>2. MacsOf(contacts') = MacsOf(rows)
    BY <1>3, <1>5
  <2>3. ListInv'
    BY <1>5 DEF ListInv
  <2>4. \A x, online : Showing(contacts', x, online) = Showing(rows, x, online)
    BY <2>1, <1>5, SameCounts
  <2>5. RowsKept'
    BY <2>4, <1>5 DEF RowsKept
  <2> QED
    BY <2>1, <2>2, <2>3, <2>5, <1>5
<1>7. \/ selected' = selected /\ (selected # NoMac \/ contacts' = <<>>)
      \/ /\ selected = NoMac /\ contacts' # <<>>
         /\ selected' = contacts'[1].mac /\ 1 \in DOMAIN contacts'
  BY <1>5 DEF SelectFirst
<1>8. CASE selected' = selected /\ (selected # NoMac \/ contacts' = <<>>)
  <2>1. DraftNotRedirected'
    BY <1>1, <1>6, <1>8 DEF DraftNotRedirected
  <2>2. RosterInv'
    BY <1>1, <1>5, <1>8, <1>10 DEF RosterInv
  <2> QED
    BY <2>1, <2>2, <1>1 DEF OpenInv
<1>9. CASE /\ selected = NoMac /\ contacts' # <<>>
           /\ selected' = contacts'[1].mac /\ 1 \in DOMAIN contacts'
  <2>1. contacts'[1] \in Rows
    BY <1>5, <1>9
  <2>2. contacts'[1].mac \in Peers /\ contacts'[1].mac \in MacsOf(contacts')
    BY <2>1, <1>9 DEF Rows, MacsOf
  <2>3. chosen = NoMac
    BY <1>1, <1>9 DEF DraftNotRedirected
  <2>4. DraftNotRedirected'
    BY <2>2, <2>3, <1>1, <1>9, RosterAssumption DEF DraftNotRedirected
  <2>5. RosterInv'
    BY <2>2, <1>1, <1>5, <1>9, <1>10 DEF RosterInv
  <2> QED
    BY <2>4, <2>5, <1>1 DEF OpenInv
<1> QED
  BY <1>7, <1>8, <1>9

\* The row the user clicks or moves to is opened.
LEMMA RowOpens ==
    ASSUME OpenInv, NEW i \in DOMAIN contacts, highlight' = i,
           Select(contacts[i].mac), UNCHANGED <<contacts, idx, last>>,
           chosen' = contacts[i].mac
    PROVE  OpenInv'
<1>1. RosterInv
  BY DEF OpenInv
<1>2. contacts[i] \in Rows /\ contacts[i].mac \in MacsOf(contacts)
  BY <1>1 DEF RosterInv, ListInv, MacsOf
<1>3. DOMAIN idx = MacsOf(contacts)
  <2> DEFINE S == MacsOf(last)
             T == DOMAIN contacts
  <2> HIDE DEF S, T
  <2>1. idx \in Bijection(S, T) /\ MacsOf(contacts) = S
    BY <1>1 DEF RosterInv, ListInv, S, T
  <2> QED
    BY <2>1, BijectionFacts
<1>4. selected' = contacts[i].mac /\ contacts[i].mac \in Peers
  BY <1>2, <1>3 DEF Select, Rows
<1>5. RosterInv'
  BY <1>1, <1>4 DEF RosterInv, ListInv, RowsKept
<1>6. DraftNotRedirected'
  <2>1. MacsOf(contacts') = MacsOf(contacts)
    OBVIOUS
  <2>2. selected' \in MacsOf(contacts') /\ selected' # NoMac /\ chosen' = selected'
    BY <2>1, <1>2, <1>4, RosterAssumption
  <2> QED
    BY <2>2 DEF DraftNotRedirected
<1> QED
  BY <1>4, <1>5, <1>6 DEF OpenInv

\* What leaves list and selection alone keeps the open conversation.
LEMMA SameOpens ==
    ASSUME OpenInv, UNCHANGED <<rosterVars, chosen>>
    PROVE  OpenInv'
<1>1. /\ contacts' = contacts /\ idx' = idx /\ selected' = selected
      /\ highlight' = highlight /\ last' = last /\ chosen' = chosen
  BY DEF rosterVars
<1>2. RosterInv'
  BY <1>1 DEF OpenInv, RosterInv, ListInv, RowsKept
<1>3. DraftNotRedirected'
  BY <1>1 DEF OpenInv, DraftNotRedirected
<1> QED
  BY <1>1, <1>2, <1>3 DEF OpenInv

\* So does a move through the list, which opens another on purpose.
LEMMA MovesKeepOpen ==
    ASSUME OpenInv, NEW step, Moves(step)
    PROVE  OpenInv'
<1>1. CASE highlight + step \in DOMAIN contacts
  BY <1>1, RowOpens DEF Moves, Press
<1>2. CASE highlight + step \notin DOMAIN contacts
  BY <1>2, SameOpens DEF Moves
<1> QED
  BY <1>1, <1>2

\* And a click in the sidebar.
LEMMA SidebarKeepsOpen ==
    ASSUME OpenInv, ClickSidebar
    PROVE  OpenInv'
<1>1. CASE \E i \in DOMAIN contacts : Click(i) /\ chosen' = contacts[i].mac
  <2>1. PICK i \in DOMAIN contacts : Click(i) /\ chosen' = contacts[i].mac
    BY <1>1
  <2> QED
    BY <2>1, RowOpens DEF Click
<1>2. CASE ClickAll /\ chosen' = AllMacs
  <2>1. RosterInv'
    BY <1>2 DEF OpenInv, RosterInv, ListInv, ClickAll, RowsKept
  <2>2. DraftNotRedirected'
    <3>1. selected' = AllMacs /\ chosen' = AllMacs
      BY <1>2 DEF ClickAll
    <3>2. AllMacs # NoMac /\ AllMacs \notin Peers
      BY RosterAssumption DEF NoMac, AllMacs
    <3> QED
      BY <3>1, <3>2 DEF DraftNotRedirected
  <2> QED
    BY <2>1, <2>2, <1>2 DEF OpenInv
<1> QED
  BY <1>1, <1>2 DEF ClickSidebar

-----------------------------------------------------------------------------
(***************************************************************************)
(* The draft and the files                                                 *)
(***************************************************************************)
LEMMA CountEmpty ==
    \A path : Count(<<>>, path) = 0
<1> SUFFICES ASSUME NEW path PROVE Count(<<>>, path) = 0
  OBVIOUS
<1>1. {i \in DOMAIN <<>> : <<>>[i] = path} = {}
  OBVIOUS
<1> QED
  BY <1>1, FS_EmptySet DEF Count

\* How often a path occurs in a list is a number.
LEMMA CountNat ==
    ASSUME NEW T, NEW s \in Seq(T), NEW path
    PROVE  /\ Count(s, path) \in Nat
           /\ IsFiniteSet({i \in DOMAIN s : s[i] = path})
<1> DEFINE S == {i \in DOMAIN s : s[i] = path}
<1>1. IsFiniteSet(DOMAIN s)
  BY FS_Interval
<1>2. IsFiniteSet(S)
  BY <1>1, FS_Subset
<1> HIDE DEF S
<1> QED
  BY <1>2, FS_CardinalityType DEF Count, S

\* A path occurs once in the list of itself.
LEMMA CountOne ==
    ASSUME NEW x \in Paths, NEW path
    PROVE  Count(<<x>>, path) = IF x = path THEN 1 ELSE 0
<1> DEFINE S == {i \in DOMAIN <<x>> : <<x>>[i] = path}
<1>1. S = IF x = path THEN {1} ELSE {}
  OBVIOUS
<1> HIDE DEF S
<1> QED
  BY <1>1, FS_Singleton, FS_EmptySet DEF Count, S

\* Two lists put together have a path as often as both.
LEMMA CountConcat ==
    ASSUME NEW T, NEW s \in Seq(T), NEW t \in Seq(T), NEW path
    PROVE  Count(s \o t, path) = Count(s, path) + Count(t, path)
<1> DEFINE n == Len(s)
           A == {i \in DOMAIN s : s[i] = path}
           B == {i \in DOMAIN t : t[i] = path}
           C == {i \in DOMAIN (s \o t) : (s \o t)[i] = path}
           D == {i \in C : i > n}
           f == [i \in B |-> n + i]
<1>1. /\ n \in Nat /\ DOMAIN s = 1 .. n
      /\ Len(t) \in Nat /\ DOMAIN t = 1 .. Len(t)
      /\ DOMAIN (s \o t) = 1 .. (n + Len(t))
      /\ \A i \in 1 .. n : (s \o t)[i] = s[i]
      /\ \A i \in 1 .. Len(t) : (s \o t)[n + i] = t[i]
  OBVIOUS
<1>2. C = A \union D /\ A \cap D = {}
  BY <1>1
<1>3. \A i \in D : i - n \in B /\ n + (i - n) = i
  <2> SUFFICES ASSUME NEW i \in D
               PROVE  i - n \in B /\ n + (i - n) = i
    OBVIOUS
  <2>1. i \in 1 .. (n + Len(t)) /\ i > n /\ (s \o t)[i] = path
    BY <1>1
  <2>2. i - n \in 1 .. Len(t) /\ n + (i - n) = i
    BY <2>1, <1>1
  <2>3. t[i - n] = path
    BY <2>1, <2>2, <1>1
  <2> QED
    BY <2>2, <2>3, <1>1
<1>4. \A i \in B : n + i \in D
  BY <1>1
<1>5. \A i, j \in B : n + i = n + j => i = j
  BY <1>1
<1>6. IsFiniteSet(A) /\ IsFiniteSet(B)
  BY CountNat
<1> HIDE DEF A, B, C, D, n
<1>7. f \in Bijection(B, D)
  <2>1. f \in [B -> D] /\ \A i, j \in B : f[i] = f[j] => i = j
    BY <1>4, <1>5
  <2>2. \A k \in D : \E i \in B : f[i] = k
    BY <1>3
  <2> HIDE DEF f
  <2> QED
    BY <2>1, <2>2, Fun_IsBij
<1>8. IsFiniteSet(D) /\ Cardinality(D) = Cardinality(B)
  <2>1. ExistsBijection(B, D)
    BY <1>7 DEF ExistsBijection
  <2> QED
    BY <2>1, <1>6, FS_Bijection
<1>9. Cardinality(C) = Cardinality(A) + Cardinality(D)
  <2>1. Cardinality(A \union D) =
            Cardinality(A) + Cardinality(D) - Cardinality(A \cap D)
    BY <1>6, <1>8, FS_Union
  <2>2. Cardinality(A \cap D) = 0
    BY <1>2, FS_EmptySet
  <2>3. Cardinality(A) \in Nat /\ Cardinality(D) \in Nat
    BY <1>6, <1>8, FS_CardinalityType
  <2> QED
    BY <2>1, <2>2, <2>3, <1>2
<1> QED
  BY <1>8, <1>9 DEF Count, A, B, C

\* The elements of two sequences put together.
LEMMA ConcatFacts ==
    ASSUME NEW S, NEW s \in Seq(S), NEW t \in Seq(S)
    PROVE  /\ s \o t \in Seq(S) /\ Len(s \o t) = Len(s) + Len(t)
           /\ \A k \in 1 .. Len(s) : (s \o t)[k] = s[k]
           /\ \A k \in 1 .. Len(t) : (s \o t)[Len(s) + k] = t[k]
OBVIOUS

\* Functions that agree everywhere are equal.
LEMMA SameFunction ==
    ASSUME NEW S, NEW T, NEW f \in [S -> T], NEW g \in [S -> T],
           \A x \in S : f[x] = g[x]
    PROVE  f = g
OBVIOUS

\* A list without its i-th element has that path once less.
LEMMA CountRemoved ==
    ASSUME NEW s \in Seq(Paths), NEW i \in DOMAIN s, NEW path
    PROVE  LET rest == SubSeq(s, 1, i - 1) \o SubSeq(s, i + 1, Len(s))
           IN  /\ rest \in Seq(Paths)
               /\ Count(s, path) = Count(rest, path) + Count(<<s[i]>>, path)
<1> DEFINE a == SubSeq(s, 1, i - 1)
           b == SubSeq(s, i + 1, Len(s))
           x == <<s[i]>>
<1>1. a \in Seq(Paths) /\ b \in Seq(Paths) /\ x \in Seq(Paths)
  OBVIOUS
<1>2. s = (a \o x) \o b
  <2> DEFINE n == Len(s)
  <2>1. n \in Nat /\ DOMAIN s = 1 .. n /\ i \in 1 .. n
    OBVIOUS
  <2>2. /\ Len(a) = i - 1 /\ \A k \in 1 .. i - 1 : a[k] = s[k]
        /\ Len(b) = n - i /\ \A k \in 1 .. n - i : b[k] = s[i + k]
    OBVIOUS
  <2>3. Len(x) = 1 /\ x[1] = s[i]
    OBVIOUS
  <2> HIDE DEF a, b, x, n
  <2> DEFINE ax == a \o x
             whole == ax \o b
  <2>4. /\ ax \in Seq(Paths) /\ Len(ax) = i
        /\ \A k \in 1 .. i : ax[k] = s[k]
    <3>1. /\ ax \in Seq(Paths) /\ Len(ax) = Len(a) + Len(x)
          /\ \A k \in 1 .. Len(a) : ax[k] = a[k]
          /\ \A k \in 1 .. Len(x) : ax[Len(a) + k] = x[k]
      BY <1>1, ConcatFacts
    <3> HIDE DEF ax
    <3>2. Len(ax) = i /\ \A k \in 1 .. i - 1 : ax[k] = s[k]
      BY <3>1, <2>1, <2>2, <2>3
    <3>3. ax[i] = s[i]
      <4>1. 1 \in 1 .. Len(x) /\ Len(a) + 1 = i
        BY <2>1, <2>2, <2>3
      <4> QED
        BY <4>1, <3>1, <2>3
    <3>4. \A k \in 1 .. i : k \in 1 .. i - 1 \/ k = i
      BY <2>1
    <3> QED
      BY <3>1, <3>2, <3>3, <3>4
  <2> HIDE DEF ax
  <2>5. /\ whole \in Seq(Paths) /\ Len(whole) = n
        /\ \A k \in 1 .. i : whole[k] = s[k]
        /\ \A k \in 1 .. n - i : whole[i + k] = s[i + k]
    <3>1. /\ whole \in Seq(Paths) /\ Len(whole) = Len(ax) + Len(b)
          /\ \A k \in 1 .. Len(ax) : whole[k] = ax[k]
          /\ \A k \in 1 .. Len(b) : whole[Len(ax) + k] = b[k]
      <4>1. ax \in Seq(Paths)
        BY <2>4
      <4>2. b \in Seq(Paths)
        BY <1>1
      <4> QED
        BY <4>1, <4>2, ConcatFacts
    <3> HIDE DEF whole
    <3> QED
      BY <3>1, <2>1, <2>2, <2>4
  <2>6. \A k \in 1 .. n : whole[k] = s[k]
    <3> SUFFICES ASSUME NEW k \in 1 .. n, k \notin 1 .. i
                 PROVE  whole[k] = s[k]
      BY <2>5
    <3>1. k - i \in 1 .. n - i /\ i + (k - i) = k
      BY <2>1
    <3> QED
      BY <3>1, <2>5
  <2> HIDE DEF whole
  <2>7. s \in [1 .. n -> Paths] /\ whole \in [1 .. n -> Paths]
    BY <2>1, <2>5
  <2>8. s = whole
    <3> DEFINE D == 1 .. n
    <3> HIDE DEF D
    <3>1. s \in [D -> Paths] /\ whole \in [D -> Paths]
      BY <2>7 DEF D
    <3>2. \A k \in D : s[k] = whole[k]
      BY <2>6 DEF D
    <3> QED
      BY <3>1, <3>2, SameFunction
  <2> QED
    BY <2>8 DEF whole, ax
<1> HIDE DEF a, b, x
<1>3. a \o b \in Seq(Paths) /\ a \o x \in Seq(Paths)
  BY <1>1
<1>4. Count(a \o b, path) = Count(a, path) + Count(b, path)
  BY <1>1, CountConcat
<1>6. Count(a \o x, path) = Count(a, path) + Count(x, path)
  BY <1>1, CountConcat
<1>7. Count((a \o x) \o b, path) = Count(a \o x, path) + Count(b, path)
  <2> DEFINE ax == a \o x
  <2> HIDE DEF ax
  <2>1. ax \in Seq(Paths)
    BY <1>3 DEF ax
  <2>2. Count(ax \o b, path) = Count(ax, path) + Count(b, path)
    BY <1>1, <2>1, CountConcat
  <2> QED
    BY <2>2 DEF ax
<1>5. /\ Count(a, path) \in Nat /\ Count(b, path) \in Nat
      /\ Count(x, path) \in Nat
  BY <1>1, CountNat
<1>8. Count(s, path) = Count(a \o b, path) + Count(x, path)
  BY <1>2, <1>4, <1>5, <1>6, <1>7
<1> QED
  BY <1>3, <1>8 DEF a, b, x

-----------------------------------------------------------------------------
(***************************************************************************)
(* The whole window                                                        *)
(***************************************************************************)
\* What the composer holds has its types.
DraftInv ==
    /\ value \in Seq(Chars) /\ written \in Nat /\ Len(value) <= written
    /\ focus \in BOOLEAN /\ dialog \in BOOLEAN
    /\ files \in Seq(Paths) /\ attachments \in Seq(Paths)

\* The account of the files, with the chips and the picker counted apart.
FilesInv ==
    /\ picked \in [Paths -> Int] /\ sent \in [Paths -> Int]
    /\ dropped \in [Paths -> Int]
    /\ \A path \in Paths :
        picked[path] = Count(attachments, path) + Count(files, path)
                       + sent[path] + dropped[path]
    /\ \A i \in DOMAIN posted : posted[i].kind = "file" => posted[i].to \in Peers

WindowInv == OpenInv /\ DraftInv /\ FilesInv

\* A step that moves no file keeps the account.
LEMMA SameFiles ==
    ASSUME FilesInv, posted' = <<>>, UNCHANGED <<files, attachments, filesHistory>>
    PROVE  FilesInv'
<1>1. /\ files' = files /\ attachments' = attachments /\ picked' = picked
      /\ sent' = sent /\ dropped' = dropped
  BY DEF filesHistory
<1>2. \A i \in DOMAIN posted' : posted'[i].kind = "file" => posted'[i].to \in Peers
  OBVIOUS
<1> QED
  BY <1>1, <1>2 DEF FilesInv

\* Plus adds to each path how often it is in the list.
LEMMA PlusIs ==
    ASSUME NEW counts \in [Paths -> Int], NEW s \in Seq(Paths)
    PROVE  /\ Plus(counts, s) \in [Paths -> Int]
           /\ \A path \in Paths :
                Plus(counts, s)[path] = counts[path] + Count(s, path)
<1>1. ASSUME NEW path \in Paths
      PROVE  counts[path] + Count(s, path) \in Int
  <2>1. Count(s, path) \in Nat
    BY CountNat
  <2>2. counts[path] \in Int
    OBVIOUS
  <2> QED
    BY <2>1, <2>2
<1> QED
  BY <1>1 DEF Plus

\* The window starts empty.
LEMMA InitWindow ==
    ASSUME Init
    PROVE  WindowInv
<1>1. contacts = <<>> /\ last = <<>> /\ idx = [m \in {} |-> 0]
      /\ selected = NoMac /\ highlight = 1 /\ chosen = NoMac
  BY DEF Init, RosterInit
<1>2. MacsOf(contacts) = {} /\ MacsOf(last) = {} /\ DOMAIN contacts = {}
  BY <1>1 DEF MacsOf
<1>3. idx \in Bijection({}, {})
  <2> DEFINE S == {}
  <2>1. idx \in [S -> S] /\ \A i, j \in S : idx[i] = idx[j] => i = j
    BY <1>1
  <2>2. \A k \in S : \E i \in S : idx[i] = k
    OBVIOUS
  <2> HIDE DEF S
  <2>3. idx \in Bijection(S, S)
    BY <2>1, <2>2, Fun_IsBij
  <2> QED
    BY <2>3 DEF S
<1>4. RowsKept
  BY <1>1 DEF RowsKept
<1>5. <<>> \in Seq(Rows) /\ Distinct(<<>>)
  BY DEF Distinct
<1>6. RosterInv
  BY <1>1, <1>2, <1>3, <1>4, <1>5 DEF RosterInv, ListInv
<1>7. DraftNotRedirected
  BY <1>1, RosterAssumption DEF DraftNotRedirected
<1>8. DraftInv
  <2>1. /\ value = <<>> /\ focus = FALSE /\ files = <<>>
        /\ dialog = FALSE /\ attachments = <<>> /\ written = 0
    BY DEF Init, ComposerInit
  <2>2. /\ <<>> \in Seq(Chars) /\ <<>> \in Seq(Paths) /\ Len(<<>>) = 0
    OBVIOUS
  <2>3. value \in Seq(Chars) /\ Len(value) <= written /\ written \in Nat
    BY <2>1, <2>2
  <2>4. files \in Seq(Paths) /\ attachments \in Seq(Paths)
    BY <2>1, <2>2
  <2>5. focus \in BOOLEAN /\ dialog \in BOOLEAN
    BY <2>1
  <2> QED
    BY <2>3, <2>4, <2>5 DEF DraftInv
<1>9. FilesInv
  BY CountEmpty DEF Init, ComposerInit, None, FilesInv
<1> QED
  BY <1>1, <1>6, <1>7, <1>8, <1>9 DEF WindowInv, OpenInv

\* Moving, writing, pasting, clicking and the roster's events touch no file.
LEMMA EditsKeepWindow ==
    ASSUME WindowInv,
           \/ \E step \in {-1, 1} : Arrow(step)
           \/ \E c \in Chars : Type(c)
           \/ \E clip \in Clips : Insert(clip)
           \/ ClickSidebar
           \/ ClickAttach
           \/ Edit
           \/ Neighbors
    PROVE  WindowInv'
<1> USE DEF WindowInv
<1>1. ASSUME NEW step \in {-1, 1}, Arrow(step)
      PROVE  WindowInv'
  <2>1. OpenInv'
    BY <1>1, MovesKeepOpen DEF Arrow
  <2>2. DraftInv' /\ FilesInv'
    BY <1>1, SameFiles DEF Arrow, DraftInv, composerVars
  <2> QED
    BY <2>1, <2>2
<1>2. ASSUME NEW c \in Chars, Type(c)
      PROVE  WindowInv'
  <2>1. OpenInv'
    BY <1>2, MovesKeepOpen, SameOpens DEF Type
  <2>2. FilesInv'
    BY <1>2, SameFiles DEF Type, InputKey
  <2>3. DraftInv'
    BY <1>2 DEF Type, InputKey, DraftInv
  <2> QED
    BY <2>1, <2>2, <2>3
<1>3. ASSUME NEW clip \in Clips, Insert(clip)
      PROVE  WindowInv'
  <2>1. OpenInv'
    BY <1>3, SameOpens DEF Insert
  <2>2. FilesInv'
    BY <1>3, SameFiles DEF Insert, Paste
  <2>3. clip \in Seq(Chars)
    BY ChatWindowAssumption
  <2>4. DraftInv'
    BY <1>3, <2>3 DEF Insert, Paste, DraftInv
  <2> QED
    BY <2>1, <2>2, <2>4
<1>4. ASSUME ClickSidebar
      PROVE  WindowInv'
  <2>1. OpenInv'
    BY <1>4, SidebarKeepsOpen
  <2>2. FilesInv'
    BY <1>4, SameFiles DEF ClickSidebar, ClickBar
  <2>3. DraftInv'
    BY <1>4 DEF ClickSidebar, ClickBar, DraftInv
  <2> QED
    BY <2>1, <2>2, <2>3
<1>5. ASSUME ClickAttach
      PROVE  WindowInv'
  <2>1. OpenInv'
    BY <1>5, SameOpens DEF ClickAttach
  <2>2. FilesInv'
    BY <1>5, SameFiles DEF ClickAttach, Attach
  <2>3. DraftInv'
    BY <1>5 DEF ClickAttach, Attach, DraftInv
  <2> QED
    BY <2>1, <2>2, <2>3
<1>6. ASSUME Edit
      PROVE  WindowInv'
  <2>1. OpenInv'
    BY <1>6, SameOpens DEF Edit
  <2>2. UNCHANGED <<files, attachments>>
    BY <1>6 DEF Edit, Backspace, DialogClosed, ClickBar
  <2>3. FilesInv'
    BY <1>6, <2>2, SameFiles DEF Edit
  <2>4. CASE Backspace
    <3>1. /\ SubSeq(value, 1, Len(value) - 1) \in Seq(Chars)
          /\ Len(SubSeq(value, 1, Len(value) - 1)) <= Len(value)
      BY <2>4 DEF DraftInv, Backspace
    <3> QED
      BY <1>6, <2>1, <2>3, <2>4, <3>1 DEF Edit, Backspace, DraftInv
  <2>5. CASE DialogClosed
    BY <1>6, <2>1, <2>3, <2>5 DEF Edit, DialogClosed, DraftInv
  <2>6. CASE \E inside \in BOOLEAN : ClickBar(inside)
    BY <1>6, <2>1, <2>3, <2>6 DEF Edit, ClickBar, DraftInv
  <2> QED
    BY <1>6, <2>4, <2>5, <2>6 DEF Edit
<1>7. ASSUME Neighbors
      PROVE  WindowInv'
  <2>1. OpenInv'
    BY <1>7, NeighborsKeepsOpen
  <2>2. DraftInv' /\ FilesInv'
    BY <1>7, SameFiles DEF Neighbors, DraftInv, composerVars
  <2> QED
    BY <2>1, <2>2
<1> QED
  BY <1>1, <1>2, <1>3, <1>4, <1>5, <1>6, <1>7

\* A step of the composer that touches neither the list nor the conversation.
LEMMA FilesStep ==
    ASSUME WindowInv, DraftInv', FilesInv', UNCHANGED <<rosterVars, chosen>>
    PROVE  WindowInv'
BY SameOpens DEF WindowInv

\* A chip that is closed is a file the user discarded.
LEMMA ChipKeepsWindow ==
    ASSUME WindowInv, NEW i \in DOMAIN files, RemoveChip(i)
    PROVE  WindowInv'
<1>1. /\ value' = value /\ focus' = focus /\ dialog' = dialog
      /\ attachments' = attachments /\ written' = written
      /\ picked' = picked /\ sent' = sent /\ posted' = <<>>
      /\ files' = SubSeq(files, 1, i - 1) \o SubSeq(files, i + 1, Len(files))
      /\ dropped' = Plus(dropped, <<files[i]>>)
      /\ UNCHANGED <<rosterVars, chosen>>
  BY DEF RemoveChip, CloseChip
<1>2. /\ DraftInv /\ files \in Seq(Paths) /\ files[i] \in Paths
      /\ <<files[i]>> \in Seq(Paths)
  BY DEF WindowInv, DraftInv
<1>3. /\ files' \in Seq(Paths)
      /\ \A path : Count(files, path) = Count(files', path) + Count(<<files[i]>>, path)
  <2> DEFINE rest == SubSeq(files, 1, i - 1) \o SubSeq(files, i + 1, Len(files))
  <2>1. rest \in Seq(Paths)
    BY <1>2, CountRemoved
  <2>2. \A path : Count(files, path) = Count(rest, path) + Count(<<files[i]>>, path)
    BY <1>2, CountRemoved
  <2> QED
    BY <1>1, <2>1, <2>2
<1>4. DraftInv'
  BY <1>1, <1>2, <1>3 DEF DraftInv
<1>5. FilesInv
  BY DEF WindowInv
<1>6. /\ dropped' \in [Paths -> Int]
      /\ \A path \in Paths :
            dropped'[path] = dropped[path] + Count(<<files[i]>>, path)
  BY <1>1, <1>2, <1>5, PlusIs DEF FilesInv
<1>7. ASSUME NEW path \in Paths
      PROVE  picked'[path] = Count(attachments', path) + Count(files', path)
                             + sent'[path] + dropped'[path]
  <2>1. /\ Count(attachments, path) \in Nat /\ Count(files', path) \in Nat
        /\ Count(<<files[i]>>, path) \in Nat
    BY <1>2, <1>3, CountNat DEF DraftInv
  <2>2. sent[path] \in Int /\ dropped[path] \in Int
    BY <1>5 DEF FilesInv
  <2>3. picked[path] = Count(attachments, path) + Count(files, path)
                       + sent[path] + dropped[path]
    BY <1>5 DEF FilesInv
  <2> QED
    <3>1. /\ picked' = picked /\ attachments' = attachments /\ sent' = sent
          /\ Count(files, path) = Count(files', path) + Count(<<files[i]>>, path)
          /\ dropped'[path] = dropped[path] + Count(<<files[i]>>, path)
      BY <1>1, <1>3, <1>6
    <3> QED
      BY <3>1, <2>1, <2>2, <2>3
<1>8. FilesInv'
  <2>1. \A k \in DOMAIN posted' : posted'[k].kind = "file" => posted'[k].to \in Peers
    BY <1>1
  <2>2. picked' \in [Paths -> Int] /\ sent' \in [Paths -> Int]
    BY <1>1, <1>5 DEF FilesInv
  <2> QED
    BY <2>1, <2>2, <1>6, <1>7 DEF FilesInv
<1> QED
  BY <1>1, <1>4, <1>8, FilesStep

\* A file the dialog returns waits in the picker.
LEMMA PickKeepsWindow ==
    ASSUME WindowInv, NEW p \in Paths, PickPath(p)
    PROVE  WindowInv'
<1>1. /\ value' = value /\ focus' = focus /\ dialog' = FALSE /\ files' = files
      /\ attachments' = Append(attachments, p) /\ written' = written
      /\ picked' = Plus(picked, <<p>>) /\ sent' = sent /\ dropped' = dropped
      /\ posted' = <<>> /\ UNCHANGED <<rosterVars, chosen>>
  BY DEF PickPath, PathPicked
<1>2. /\ DraftInv /\ attachments \in Seq(Paths) /\ files \in Seq(Paths)
      /\ <<p>> \in Seq(Paths) /\ FilesInv
  BY DEF WindowInv, DraftInv
<1>3. attachments' \in Seq(Paths) /\ attachments' = attachments \o <<p>>
  BY <1>1, <1>2
<1>4. DraftInv'
  BY <1>1, <1>2, <1>3 DEF DraftInv
<1>5. /\ picked' \in [Paths -> Int]
      /\ \A path \in Paths : picked'[path] = picked[path] + Count(<<p>>, path)
  BY <1>1, <1>2, PlusIs DEF FilesInv
<1>6. ASSUME NEW path \in Paths
      PROVE  picked'[path] = Count(attachments', path) + Count(files', path)
                             + sent'[path] + dropped'[path]
  <2>1. Count(attachments', path) = Count(attachments, path) + Count(<<p>>, path)
    <3>1. Count(attachments \o <<p>>, path) =
                Count(attachments, path) + Count(<<p>>, path)
      BY ZenonT(60), <1>2, CountConcat
    <3> QED
      BY <3>1, <1>3
  <2>2. /\ Count(attachments, path) \in Nat /\ Count(files, path) \in Nat
        /\ Count(<<p>>, path) \in Nat
    BY <1>2, CountNat
  <2>3. sent[path] \in Int /\ dropped[path] \in Int
    BY <1>2 DEF FilesInv
  <2>4. picked[path] = Count(attachments, path) + Count(files, path)
                       + sent[path] + dropped[path]
    BY <1>2 DEF FilesInv
  <2> QED
    <3>1. /\ files' = files /\ sent' = sent /\ dropped' = dropped
          /\ picked'[path] = picked[path] + Count(<<p>>, path)
      BY <1>1, <1>5
    <3> QED
      BY <3>1, <2>1, <2>2, <2>3, <2>4
<1>7. FilesInv'
  <2>1. \A k \in DOMAIN posted' : posted'[k].kind = "file" => posted'[k].to \in Peers
    BY <1>1
  <2>2. sent' \in [Paths -> Int] /\ dropped' \in [Paths -> Int]
    BY <1>1, <1>2 DEF FilesInv
  <2> QED
    BY <2>1, <2>2, <1>5, <1>6 DEF FilesInv
<1> QED
  BY <1>1, <1>4, <1>7, FilesStep

\* A frame takes what was picked into the chips, and nothing else.
LEMMA FrameKeepsWindow ==
    ASSUME WindowInv, Frame
    PROVE  WindowInv'
<1>1. /\ value' = value /\ focus' = focus /\ dialog' = dialog
      /\ attachments' = <<>> /\ written' = written
      /\ picked' = picked /\ sent' = sent
      /\ posted' = <<>> /\ UNCHANGED <<rosterVars, chosen>>
  BY DEF Frame, TakeAttachments
<1>2. /\ DraftInv /\ attachments \in Seq(Paths) /\ files \in Seq(Paths)
      /\ <<>> \in Seq(Paths) /\ FilesInv
  BY DEF WindowInv, DraftInv
<1>3. \/ /\ files' = files \o attachments /\ dropped' = dropped
      \/ /\ files' = files /\ dropped' = Plus(dropped, attachments)
  BY DEF Frame, TakeAttachments
<1>4. files' \in Seq(Paths)
  BY <1>2, <1>3, ConcatFacts
<1>5. DraftInv'
  BY <1>1, <1>2, <1>4 DEF DraftInv
<1>6. dropped' \in [Paths -> Int]
  BY <1>2, <1>3, PlusIs DEF FilesInv
<1>7. ASSUME NEW path \in Paths
      PROVE  picked'[path] = Count(attachments', path) + Count(files', path)
                             + sent'[path] + dropped'[path]
  <2>1. /\ Count(attachments, path) \in Nat /\ Count(files, path) \in Nat
        /\ Count(attachments', path) = 0
    BY <1>1, <1>2, CountNat, CountEmpty
  <2>2. sent[path] \in Int /\ dropped[path] \in Int
    BY <1>2 DEF FilesInv
  <2>3. picked[path] = Count(attachments, path) + Count(files, path)
                       + sent[path] + dropped[path]
    BY <1>2 DEF FilesInv
  <2>4. CASE files' = files \o attachments /\ dropped' = dropped
    <3>1. Count(files', path) = Count(files, path) + Count(attachments, path)
      BY <1>2, <2>4, CountConcat
    <3> QED
      BY <1>1, <2>1, <2>2, <2>3, <2>4, <3>1
  <2>5. CASE files' = files /\ dropped' = Plus(dropped, attachments)
    <3>1. dropped'[path] = dropped[path] + Count(attachments, path)
      BY <1>2, <2>5, PlusIs DEF FilesInv
    <3> QED
      BY <1>1, <2>1, <2>2, <2>3, <2>5, <3>1
  <2> QED
    BY <1>3, <2>4, <2>5
<1>8. FilesInv'
  BY <1>1, <1>2, <1>6, <1>7 DEF FilesInv
<1> QED
  BY <1>1, <1>5, <1>8, FilesStep

\* What Send makes of the chips.
Handed(missing) ==
    [i \in DOMAIN files |->
        IF files[i] \in missing THEN Text("[error adjunto]") ELSE File(files[i])]

\* It names each chip that is not missing, once for each time it is there, and
\* the text names none.
LEMMA HandedOver ==
    ASSUME files \in Seq(Paths), NEW missing, NEW path \in Paths, NEW t,
           t = <<>> \/ \E what : t = <<Text(what)>>
    PROVE  /\ Count(t, File(path)) = 0
           /\ Count(t \o Handed(missing), File(path)) =
                IF path \in missing THEN 0 ELSE Count(files, path)
<1>0. PICK what : t = <<>> \/ t = <<Text(what)>>
  OBVIOUS
<1> DEFINE x == Text(what)
           e == Text("[error adjunto]")
           p == File(path)
           c == [i \in DOMAIN files |->
                    IF files[i] \in missing THEN e ELSE File(files[i])]
           M == {x, e} \union {File(q) : q \in Paths}
<1>1. /\ x # p /\ e # p
      /\ \A q \in Paths : File(q) = p => q = path
  <2>1. p.kind = "file" /\ x.kind = "text" /\ e.kind = "text"
    BY DEF Text, File
  <2>2. \A q \in Paths : File(q).what = q
    BY DEF File
  <2>3. ASSUME NEW q \in Paths, File(q) = p
        PROVE  q = path
    <3>1. p.what = path /\ File(q).what = q
      BY <2>2
    <3> QED
      BY <2>3, <3>1
  <2> HIDE DEF p, x, e
  <2> QED
    BY <2>1, <2>3
<1>2. Len(files) \in Nat /\ DOMAIN files = 1 .. Len(files)
      /\ \A i \in DOMAIN files : files[i] \in Paths
  OBVIOUS
<1>3. x \in M /\ e \in M /\ \A q \in Paths : File(q) \in M
  OBVIOUS
<1> HIDE DEF x, e, p, M
<1>4. c \in Seq(M) /\ DOMAIN c = DOMAIN files
  <2>1. c \in [1 .. Len(files) -> M]
    BY <1>2, <1>3
  <2> QED
    BY <1>2, <2>1
<1>5. t \in Seq(M) /\ Count(t, p) = 0
  <2>1. CASE t = <<>>
    BY <2>1, CountEmpty
  <2>2. CASE t = <<x>>
    <3>1. <<x>> \in Seq(M)
      BY <1>3
    <3>2. {i \in DOMAIN <<x>> : <<x>>[i] = p} = {}
      BY <1>1
    <3> QED
      BY <2>2, <3>1, <3>2, FS_EmptySet DEF Count
  <2> QED
    BY <1>0, <2>1, <2>2 DEF x
<1>6. Count(c, p) = IF path \in missing THEN 0 ELSE Count(files, path)
  <2> DEFINE S == {i \in DOMAIN c : c[i] = p}
             F == {i \in DOMAIN files : files[i] = path}
  <2>1. ASSUME NEW i \in DOMAIN files
        PROVE  c[i] = p <=> files[i] = path /\ path \notin missing
    <3>1. CASE files[i] \in missing
      BY <1>1, <3>1
    <3>2. CASE files[i] \notin missing
      <4>1. c[i] = File(files[i])
        BY <3>2
      <4>2. files[i] = path => File(files[i]) = p
        BY DEF p
      <4> HIDE DEF c
      <4> QED
        BY <1>1, <1>2, <3>2, <4>1, <4>2
    <3> QED
      BY <3>1, <3>2
  <2> HIDE DEF c
  <2>2. S = IF path \in missing THEN {} ELSE F
    BY <1>4, <2>1
  <2> HIDE DEF S, F
  <2>3. Cardinality(S) = IF path \in missing THEN 0 ELSE Cardinality(F)
    BY <2>2, FS_EmptySet
  <2> QED
    BY <2>3 DEF Count, S, F
<1>7. Count(c, p) \in Nat
  BY <1>4, CountNat
<1>8. Count(t \o c, p) = Count(t, p) + Count(c, p)
  BY <1>4, <1>5, CountConcat
<1> HIDE DEF c
<1>9. Count(t \o c, p) = IF path \in missing THEN 0 ELSE Count(files, path)
  BY <1>5, <1>6, <1>7, <1>8
<1> QED
  BY <1>5, <1>9 DEF Handed, c, p, e

\* Sending hands over each chip once and keeps none.
LEMMA SendKeepsWindow ==
    ASSUME WindowInv, NEW byClick \in BOOLEAN, Send(byClick)
    PROVE  WindowInv'
<1> DEFINE text(missing) ==
               IF Outgoing.text = <<>> \/ selected = NoMac THEN <<>>
               ELSE <<Text(Outgoing.text)>>
           chips(missing) ==
               IF P2p THEN [i \in DOMAIN files |->
                            IF files[i] \in missing THEN Text("[error adjunto]")
                            ELSE File(files[i])]
               ELSE <<>>
           lost(missing) == IF P2p THEN missing ELSE Paths
           all == Plus(None, files)
<1>0. PICK missing \in SUBSET Range(files) :
        /\ posted' = text(missing) \o chips(missing)
        /\ dropped' = [path \in Paths |-> dropped[path] +
                        IF path \in lost(missing) THEN all[path] ELSE 0]
  BY Zenon DEF Send
<1>1. /\ posted' = text(missing) \o chips(missing)
      /\ sent' = [path \in Paths |-> sent[path] + Count(posted', File(path))]
      /\ dropped' = [path \in Paths |-> dropped[path] +
                        IF path \in lost(missing) THEN all[path] ELSE 0]
  BY <1>0, Zenon DEF Send
<1>2. /\ focus' = TRUE /\ dialog' = dialog /\ attachments' = attachments
      /\ written' = written /\ picked' = picked
      /\ UNCHANGED <<rosterVars, chosen>>
  BY DEF Send, TrySend
<1>3. \/ value' = <<>> /\ files' = <<>>
      \/ value' = value /\ files' = files /\ files = <<>>
  BY DEF Send, TrySend, Cleared, Outgoing, Nothing
<1>4. /\ DraftInv /\ attachments \in Seq(Paths) /\ files \in Seq(Paths)
      /\ FilesInv /\ selected \in Peers \union {NoMac, AllMacs}
  BY DEF WindowInv, DraftInv, OpenInv, RosterInv
<1>5. DraftInv'
  <2>1. <<>> \in Seq(Chars) /\ <<>> \in Seq(Paths) /\ Len(<<>>) = 0
    OBVIOUS
  <2>2. /\ value \in Seq(Chars) /\ written \in Nat /\ Len(value) <= written
        /\ focus \in BOOLEAN /\ dialog \in BOOLEAN
    BY <1>4 DEF DraftInv
  <2>3. value' \in Seq(Chars) /\ Len(value') <= written' /\ files' \in Seq(Paths)
    <3>1. CASE value' = <<>> /\ files' = <<>>
      BY <3>1, <1>2, <2>1, <2>2
    <3>2. CASE value' = value /\ files' = files
      BY <3>2, <1>2, <1>4, <2>2
    <3> QED
      BY <3>1, <3>2, <1>3
  <2> QED
    BY <1>2, <1>4, <2>2, <2>3 DEF DraftInv
<1>6. ASSUME NEW path \in Paths
      PROVE  /\ sent[path] \in Int /\ dropped[path] \in Int
             /\ Count(files, path) \in Nat /\ Count(attachments, path) \in Nat
             /\ all[path] = Count(files, path)
             /\ Count(files', path) = 0
             /\ Count(posted', File(path)) =
                    IF path \in lost(missing) THEN 0 ELSE all[path]
  <2>1. sent[path] \in Int /\ dropped[path] \in Int
    BY <1>4 DEF FilesInv
  <2>2. Count(files, path) \in Nat /\ Count(attachments, path) \in Nat
    BY <1>4, CountNat
  <2>3. all[path] = 0 + Count(files, path)
    BY DEF Plus, None
  <2>4. all[path] = Count(files, path)
    BY <2>2, <2>3
  <2>5. Count(posted', File(path)) =
            IF path \in lost(missing) THEN 0 ELSE all[path]
    <3>1. text(missing) = <<>> \/ text(missing) = <<Text(Outgoing.text)>>
      BY Zenon
    <3> HIDE DEF text, all
    <3>2. CASE P2p
      <4>1. posted' = text(missing) \o Handed(missing)
        BY <1>1, <3>2 DEF Handed
      <4>2. Count(text(missing) \o Handed(missing), File(path)) =
                IF path \in missing THEN 0 ELSE Count(files, path)
        BY <1>4, <3>1, HandedOver
      <4> QED
        BY <2>4, <3>2, <4>1, <4>2
    <3>3. CASE ~P2p
      <4>1. text(missing) \o <<>> = text(missing)
        BY <3>1
      <4>2. Count(text(missing), File(path)) = 0
        BY <1>4, <3>1, HandedOver
      <4> QED
        BY <1>1, <3>3, <4>1, <4>2
    <3> QED
      BY <3>2, <3>3
  <2> QED
    BY <1>3, <2>1, <2>2, <2>4, <2>5, CountEmpty
<1> HIDE DEF all, lost
<1>7. /\ sent' \in [Paths -> Int] /\ dropped' \in [Paths -> Int]
      /\ \A path \in Paths :
            sent'[path] + dropped'[path] =
                sent[path] + dropped[path] + Count(files, path)
  <2>1. ASSUME NEW path \in Paths
        PROVE  LET s == sent[path] + Count(posted', File(path))
                   d == dropped[path] + IF path \in lost(missing) THEN all[path] ELSE 0
               IN  /\ s \in Int /\ d \in Int
                   /\ s + d = sent[path] + dropped[path] + Count(files, path)
    <3>1. /\ sent[path] \in Int /\ dropped[path] \in Int
          /\ all[path] = Count(files, path) /\ Count(files, path) \in Nat
          /\ Count(posted', File(path)) =
                IF path \in lost(missing) THEN 0 ELSE all[path]
      BY <1>6
    <3> QED
      BY <3>1
  <2> QED
    BY <1>1, <2>1
<1>8. ASSUME NEW path \in Paths
      PROVE  picked'[path] = Count(attachments', path) + Count(files', path)
                             + sent'[path] + dropped'[path]
  <2>1. picked[path] = Count(attachments, path) + Count(files, path)
                       + sent[path] + dropped[path]
    BY <1>4 DEF FilesInv
  <2>2. sent'[path] \in Int /\ dropped'[path] \in Int
    BY <1>7
  <2> QED
    <3>1. /\ picked' = picked /\ attachments' = attachments
          /\ Count(files', path) = 0
          /\ sent'[path] + dropped'[path] =
                sent[path] + dropped[path] + Count(files, path)
      BY <1>2, <1>6, <1>7
    <3>2. /\ sent[path] \in Int /\ dropped[path] \in Int
          /\ Count(files, path) \in Nat /\ Count(attachments, path) \in Nat
      BY <1>6
    <3> QED
      BY <3>1, <3>2, <2>1, <2>2
<1>9. ASSUME NEW i \in DOMAIN posted', posted'[i].kind = "file"
      PROVE  posted'[i].to \in Peers
  <2> DEFINE x == Text(Outgoing.text)
             e == Text("[error adjunto]")
             M == {x, e} \union {File(path) : path \in Paths}
             t == text(missing)
             c == chips(missing)
  <2>1. /\ x.kind = "text" /\ x.to = selected /\ e.to = selected
        /\ \A path \in Paths : File(path).to = selected
    BY DEF Text, File
  <2>2. \A m \in M : m.to = selected
    BY <2>1, Zenon
  <2>3. t = <<>> \/ t = <<x>>
    BY Zenon
  <2>4. \/ P2p /\ c = [k \in DOMAIN files |->
                        IF files[k] \in missing THEN e ELSE File(files[k])]
        \/ ~P2p /\ c = <<>>
    BY Zenon
  <2>5. posted' = t \o c
    BY <1>1
  <2>6. \A path \in Paths : File(path) \in M
    OBVIOUS
  <2>7. x \in M /\ e \in M
    OBVIOUS
  <2> HIDE DEF x, e, M, t, c
  <2>8. ASSUME P2p
        PROVE  posted'[i].to \in Peers
    <3>1. selected \in Peers
      BY <1>4, <2>8 DEF P2p
    <3>2. Len(files) \in Nat /\ DOMAIN files = 1 .. Len(files)
      BY <1>4
    <3>3. \A k \in 1 .. Len(files) : files[k] \in Paths
      BY <1>4
    <3>4. c = [k \in 1 .. Len(files) |->
                IF files[k] \in missing THEN e ELSE File(files[k])]
      BY <2>4, <2>8, <3>2
    <3>5. c \in [1 .. Len(files) -> M]
      BY <2>6, <2>7, <3>3, <3>4
    <3>6. c \in Seq(M)
      BY <3>2, <3>5
    <3>7. t \in Seq(M)
      <4>1. <<>> \in Seq(M)
        OBVIOUS
      <4>2. <<x>> \in Seq(M)
        BY <2>7
      <4> QED
        BY <2>3, <4>1, <4>2, Zenon
    <3>8. posted' \in Seq(M)
      BY <2>5, <3>6, <3>7
    <3>9. posted'[i] \in M
      BY <3>8, <1>9
    <3> QED
      BY <2>2, <3>1, <3>9
  <2>9. ASSUME ~P2p
        PROVE  FALSE
    <3>1. c = <<>>
      BY <2>4, <2>9
    <3>2. posted' = <<>> \/ posted' = <<x>>
      BY <2>3, <2>5, <3>1
    <3>3. posted'[i] = x
      BY <3>2, <1>9
    <3> QED
      BY <3>3, <2>1, <1>9
  <2> QED
    BY <2>8, <2>9
<1>10. FilesInv'
  BY <1>2, <1>4, <1>7, <1>8, <1>9 DEF FilesInv
<1> QED
  BY <1>2, <1>5, <1>10, FilesStep

\* The invariant of the window.
THEOREM WindowInvariance == Spec => []WindowInv
<1>1. Init => WindowInv
  BY InitWindow
<1>2. WindowInv /\ [Next]_vars => WindowInv'
  <2> SUFFICES ASSUME WindowInv, [Next]_vars
               PROVE  WindowInv'
    OBVIOUS
  <2>1. CASE Next
    <3>1. CASE \/ \E step \in {-1, 1} : Arrow(step)
               \/ \E c \in Chars : Type(c)
               \/ \E clip \in Clips : Insert(clip)
               \/ ClickSidebar
               \/ ClickAttach
               \/ Edit
               \/ Neighbors
      BY <3>1, EditsKeepWindow
    <3>2. CASE \E i \in DOMAIN files : RemoveChip(i)
      BY <3>2, ChipKeepsWindow
    <3>3. CASE \E byClick \in BOOLEAN : Send(byClick)
      BY <3>3, SendKeepsWindow
    <3>4. CASE \E path \in Paths : PickPath(path)
      BY <3>4, PickKeepsWindow
    <3>5. CASE Frame
      BY <3>5, FrameKeepsWindow
    <3> QED
      BY <2>1, <3>1, <3>2, <3>3, <3>4, <3>5 DEF Next, User
  <2>2. CASE UNCHANGED vars
    <3>1. DraftInv'
      BY <2>2 DEF WindowInv, DraftInv, vars, composerVars, windowVars
    <3>2. FilesInv'
      BY <2>2 DEF WindowInv, FilesInv, vars, composerVars, windowVars, filesHistory
    <3> QED
      BY <2>2, <3>1, <3>2, FilesStep DEF vars, windowVars
  <2> QED
    BY <2>1, <2>2
<1> QED
  BY <1>1, <1>2, PTL DEF Spec

\* The contact list and the composer keep their types (RosterService, Composer).
THEOREM WindowTypeCorrect == Spec => []WindowTypeOK
<1>1. WindowInv => WindowTypeOK
  <2> SUFFICES ASSUME WindowInv PROVE WindowTypeOK
    OBVIOUS
  <2>1. RosterInv /\ DraftInv
    BY DEF WindowInv, OpenInv
  <2>2. RosterTypeOK
    <3> DEFINE S == MacsOf(last)
               T == DOMAIN contacts
    <3>1. S \subseteq Peers
      <4>1. last \in Seq(Rows)
        BY <2>1 DEF RosterInv
      <4>2. \A i \in DOMAIN last : last[i] \in Rows
        BY <4>1
      <4>3. \A i \in DOMAIN last : last[i].mac \in Peers
        BY <4>2 DEF Rows
      <4> QED
        BY <4>3 DEF MacsOf
    <3> HIDE DEF S, T
    <3>2. idx \in Bijection(S, T)
      BY <2>1 DEF RosterInv, ListInv, S, T
    <3>3. idx \in [S -> T]
      BY <3>2, BijectionFacts
    <3> QED
      BY <2>1, <3>1, <3>3 DEF RosterTypeOK, RosterInv, ListInv, T
  <2>3. Range(files) \union Range(attachments) \subseteq Paths
    BY <2>1 DEF DraftInv, Range
  <2> QED
    BY <2>1, <2>2, <2>3 DEF WindowTypeOK, WindowInv, OpenInv, DraftInv
<1> QED
  BY <1>1, WindowInvariance, PTL

\* Everybody who was ever reported is listed once and has a position of its
\* own, and of every alias and state as many are shown as were reported, however
\* often the list is updated through its stale index and sorted
\* (on_neighbors_changed).
THEOREM NobodyIsLost == Spec => []NobodyLost
<1>1. WindowInv => NobodyLost
  <2> SUFFICES ASSUME WindowInv PROVE NobodyLost
    OBVIOUS
  <2>1. RosterInv
    BY DEF WindowInv, OpenInv
  <2> DEFINE f == [i \in DOMAIN contacts |-> contacts[i].mac]
             S == MacsOf(last)
             T == DOMAIN contacts
  <2>2. \A i, j \in DOMAIN f : f[i] = f[j] => i = j
    BY <2>1 DEF RosterInv, ListInv, Distinct
  <2> HIDE DEF f, S, T
  <2>3. IsInjective(f)
    BY <2>2 DEF IsInjective
  <2>4. idx \in Bijection(S, T)
    BY <2>1 DEF RosterInv, ListInv, S, T
  <2>5. /\ DOMAIN idx = S
        /\ \A a, b \in S : idx[a] = idx[b] => a = b
    BY <2>4, BijectionFacts
  <2>6. IsInjective(idx)
    BY <2>5 DEF IsInjective
  <2> QED
    BY <2>1, <2>3, <2>5, <2>6 DEF NobodyLost, EachListedOnce, RosterInv, f, S
<1> QED
  BY <1>1, WindowInvariance, PTL

\* The events of the backend never redirect the draft: what is open is what the
\* user chose last, and a neighbor that is listed (select, on_neighbors_changed).
THEOREM DraftStays == Spec => []DraftNotRedirected
<1>1. WindowInv => DraftNotRedirected
  BY DEF WindowInv, OpenInv
<1> QED
  BY <1>1, WindowInvariance, PTL

\* Of every path picked, any number of times, nothing is lost or sent twice on
\* its way from the dialog to the backend (take_attachments, add_files, run).
THEOREM PickedAreAccounted == Spec => []FilesAccounted
<1>1. WindowInv => FilesAccounted
  <2> SUFFICES ASSUME WindowInv PROVE FilesAccounted
    OBVIOUS
  <2>1. FilesInv /\ files \in Seq(Paths) /\ attachments \in Seq(Paths)
    BY DEF WindowInv, DraftInv
  <2>2. \A path \in Paths : Count(attachments \o files, path) =
                            Count(attachments, path) + Count(files, path)
    BY <2>1, CountConcat
  <2> QED
    BY <2>1, <2>2 DEF FilesInv, FilesAccounted
<1> QED
  BY <1>1, WindowInvariance, PTL

-----------------------------------------------------------------------------
(***************************************************************************)
(* What leaves the bar                                                     *)
(***************************************************************************)
LEMMA StripOfOne ==
    ASSUME NEW s \in Seq(Chars), Len(s) <= 1
    PROVE  Len(Strip(s)) <= 1
<1> DEFINE ink == {i \in DOMAIN s : s[i] # " "}
<1>1. ink = {} \/ ink = {1}
  <2>1. DOMAIN s \subseteq {1}
    OBVIOUS
  <2> QED
    BY <2>1
<1>2. Strip(s) = IF ink = {} THEN <<>> ELSE SubSeq(s, Min(ink), Max(ink))
  BY DEF Strip
<1>3. ASSUME ink = {1}
      PROVE  Strip(s) = SubSeq(s, 1, 1) /\ 1 \in DOMAIN s
  <2>1. 1 \in DOMAIN s
    BY <1>3
  <2> HIDE DEF ink
  <2>2. Min(ink) = 1 /\ Max(ink) = 1
    BY <1>3 DEF Min, Max
  <2> QED
    BY <2>1, <2>2, <1>2, <1>3
<1>4. ASSUME ink = {}
      PROVE  Strip(s) = <<>>
  BY <1>2, <1>4
<1> HIDE DEF ink
<1>5. CASE ink = {}
  BY <1>4, <1>5
<1>6. CASE ink = {1}
  <2>1. Len(SubSeq(s, 1, 1)) = 1
    BY <1>3, <1>6
  <2> QED
    BY <2>1, <1>3, <1>6
<1> QED
  BY <1>1, <1>5, <1>6

\* A text and several chips are cleared by nothing but an attempt to send.
LEMMA OnlySendClears ==
    ASSUME WindowInv, Next,
           \/ Len(Strip(value)) > 1 /\ value' = <<>>
           \/ Len(files) > 1 /\ files' = <<>>
    PROVE  \E byClick \in BOOLEAN : Send(byClick)
<1> SUFFICES ASSUME ~ \E byClick \in BOOLEAN : Send(byClick)
             PROVE  FALSE
  OBVIOUS
<1>1. /\ files \in Seq(Paths) /\ attachments \in Seq(Paths)
      /\ value \in Seq(Chars) /\ Len(value) \in Nat
  BY DEF WindowInv, DraftInv
<1>2. Len(Strip(value)) > 1 => Len(value) > 1
  <2>1. ASSUME Len(value) <= 1
        PROVE  Len(Strip(value)) <= 1
    BY <1>1, <2>1, StripOfOne
  <2> QED
    BY <1>1, <2>1
<1>3. \/ value' = <<>> /\ Len(value) > 1
      \/ files' = <<>> /\ Len(files) > 1
  BY <1>2
<1>4. ASSUME UNCHANGED value \/ \E c : value' = Append(value, c)
      PROVE  ~(value' = <<>> /\ Len(value) > 1)
  BY <1>1, <1>4
<1>5. ASSUME UNCHANGED files
      PROVE  ~(files' = <<>> /\ Len(files) > 1)
  BY <1>1, <1>5
<1>6. ASSUME NEW step \in {-1, 1}, Arrow(step)
      PROVE  FALSE
  BY <1>3, <1>4, <1>5, <1>6 DEF Arrow, composerVars
<1>7. ASSUME NEW c \in Chars, Type(c)
      PROVE  FALSE
  BY <1>3, <1>4, <1>5, <1>7 DEF Type, InputKey
<1>8. ASSUME NEW clip \in Clips, Insert(clip)
      PROVE  FALSE
  <2>1. clip \in Seq(Chars) /\ value' = value \o clip
    BY <1>8, ChatWindowAssumption DEF Insert, Paste
  <2>2. Len(value') = Len(value) + Len(clip) /\ Len(clip) \in Nat
    BY <2>1, <1>1
  <2>3. ~(value' = <<>> /\ Len(value) > 1)
    BY <2>2, <1>1
  <2> QED
    BY <2>3, <1>3, <1>5, <1>8 DEF Insert, Paste
<1>9. ASSUME ClickSidebar \/ ClickAttach \/ Neighbors
      PROVE  FALSE
  <2>1. UNCHANGED value /\ UNCHANGED files
    BY <1>9 DEF ClickSidebar, ClickBar, ClickAttach, Attach, Neighbors, composerVars
  <2> QED
    BY <2>1, <1>3, <1>4, <1>5
<1>10. ASSUME Edit
       PROVE  FALSE
  <2>1. UNCHANGED files
    BY <1>10 DEF Edit, Backspace, DialogClosed, ClickBar
  <2>2. CASE Backspace
    <3>1. value' = SubSeq(value, 1, Len(value) - 1)
      BY <2>2 DEF Backspace
    <3>2. ASSUME Len(value) > 1
          PROVE  value' # <<>>
      <4>1. Len(value') = Len(value) - 1
        BY <3>1, <3>2, <1>1
      <4> QED
        BY <4>1, <3>2, <1>1
    <3> QED
      BY <2>1, <3>2, <1>3, <1>5
  <2>3. CASE DialogClosed \/ \E inside \in BOOLEAN : ClickBar(inside)
    <3>1. UNCHANGED value
      BY <2>3 DEF DialogClosed, ClickBar
    <3> QED
      BY <2>1, <3>1, <1>3, <1>4, <1>5
  <2> QED
    BY <1>10, <2>2, <2>3 DEF Edit
<1>11. ASSUME NEW i \in DOMAIN files, RemoveChip(i)
       PROVE  FALSE
  <2> DEFINE n == Len(files)
             a == SubSeq(files, 1, i - 1)
             b == SubSeq(files, i + 1, Len(files))
  <2>1. files' = a \o b /\ UNCHANGED value
    BY <1>11 DEF RemoveChip, CloseChip
  <2>2. /\ a \in Seq(Paths) /\ b \in Seq(Paths) /\ n \in Nat /\ i \in 1 .. n
        /\ Len(a) = i - 1 /\ Len(b) = n - i
    BY SMTT(60), <1>1
  <2> HIDE DEF a, b
  <2>3. Len(files') = n - 1
    BY <2>1, <2>2
  <2>4. ~(files' = <<>> /\ Len(files) > 1)
    BY <2>2, <2>3
  <2> QED
    BY <2>1, <2>4, <1>3, <1>4
<1>12. ASSUME NEW path \in Paths, PickPath(path)
       PROVE  FALSE
  BY <1>3, <1>4, <1>5, <1>12 DEF PickPath, PathPicked
<1>13. ASSUME Frame
       PROVE  FALSE
  <2>1. UNCHANGED value /\ (UNCHANGED files \/ files' = files \o attachments)
    BY <1>13 DEF Frame, TakeAttachments
  <2>2. ASSUME files' = files \o attachments
        PROVE  ~(files' = <<>> /\ Len(files) > 1)
    <3>1. Len(files') = Len(files) + Len(attachments) /\ Len(attachments) \in Nat
      BY <2>2, <1>1
    <3> QED
      BY <3>1, <1>1
  <2> QED
    BY <2>1, <2>2, <1>3, <1>4, <1>5
<1> QED
  BY <1>6, <1>7, <1>8, <1>9, <1>10, <1>11, <1>12, <1>13 DEF Next, User

\* What an attempt to send clears was handed to the backend.
LEMMA SendPosts ==
    ASSUME WindowInv, NEW byClick \in BOOLEAN, Send(byClick)
    PROVE  /\ selected # NoMac /\ Len(Strip(value)) > 1
                => Text(Strip(value)) \in Range(posted')
           /\ P2p => \A path \in Range(files) :
                File(path) \in Range(posted') \/ dropped'[path] > dropped[path]
<1> DEFINE text == IF Outgoing.text = <<>> \/ selected = NoMac THEN <<>>
                   ELSE <<Text(Outgoing.text)>>
           chips(missing) ==
               IF P2p THEN [i \in DOMAIN files |->
                            IF files[i] \in missing THEN Text("[error adjunto]")
                            ELSE File(files[i])]
               ELSE <<>>
           lost(missing) == IF P2p THEN missing ELSE Paths
           all == Plus(None, files)
<1>1. PICK missing \in SUBSET Range(files) :
        /\ posted' = text \o chips(missing)
        /\ dropped' = [path \in Paths |-> dropped[path] +
                        IF path \in lost(missing) THEN all[path] ELSE 0]
  BY Zenon DEF Send
<1>2. /\ files \in Seq(Paths) /\ value \in Seq(Chars)
      /\ dropped \in [Paths -> Int]
  BY DEF WindowInv, DraftInv, FilesInv
<1> DEFINE x == Text(Strip(value))
           c == chips(missing)
<1>3. text = <<>> \/ text = <<x>>
  BY DEF Outgoing
<1>4. selected # NoMac /\ Len(Strip(value)) > 1 => text = <<x>>
  <2>1. Len(<<>>) = 0
    OBVIOUS
  <2>2. Len(Strip(value)) > 1 => Strip(value) # <<>>
    BY <2>1
  <2> QED
    BY <2>2 DEF Outgoing
<1>5. Len(files) \in Nat /\ DOMAIN files = 1 .. Len(files)
  BY <1>2
<1>6. \/ /\ P2p /\ Len(c) = Len(files)
         /\ c = [i \in 1 .. Len(files) |->
                    IF files[i] \in missing THEN Text("[error adjunto]")
                    ELSE File(files[i])]
      \/ ~P2p /\ c = <<>>
  <2> DEFINE d == [i \in 1 .. Len(files) |->
                    IF files[i] \in missing THEN Text("[error adjunto]")
                    ELSE File(files[i])]
  <2>1. P2p => c = d
    BY <1>5
  <2>2. ~P2p => c = <<>>
    OBVIOUS
  <2>3. Len(d) = Len(files)
    BY <1>5
  <2> HIDE DEF c
  <2> QED
    BY <2>1, <2>2, <2>3
<1> DEFINE M == {x} \union {c[i] : i \in DOMAIN c}
<1>7. c \in Seq(M)
  <2>1. CASE P2p
    <3>1. DOMAIN c = 1 .. Len(files) /\ c = [i \in 1 .. Len(files) |-> c[i]]
      BY <1>6, <2>1
    <3> HIDE DEF c
    <3>2. c \in [1 .. Len(files) -> M]
      BY <3>1
    <3> QED
      BY <3>2, <1>5
  <2>2. CASE ~P2p
    <3>1. c = <<>>
      BY <2>2
    <3>2. <<>> \in Seq(M)
      OBVIOUS
    <3> HIDE DEF c, M
    <3> QED
      BY <3>1, <3>2
  <2> QED
    BY <2>1, <2>2
<1>8. <<>> \in Seq(M) /\ <<x>> \in Seq(M)
  OBVIOUS
<1> HIDE DEF x, c, M, text, lost, all
<1>9. text \in Seq(M)
  BY <1>3, <1>8
<1>10. posted' = text \o c
  BY <1>1 DEF c
<1>11. ASSUME text = <<x>>
       PROVE  x \in Range(posted')
  <2>1. posted' = <<x>> \o c /\ <<x>>[1] = x /\ Len(<<x>>) = 1
    BY <1>10, <1>11
  <2>2. posted'[1] = x /\ 1 \in DOMAIN posted'
    BY <2>1, <1>7, <1>8
  <2> QED
    BY <2>2 DEF Range
<1>12. ASSUME P2p, NEW path \in Range(files)
       PROVE  File(path) \in Range(posted') \/ dropped'[path] > dropped[path]
  <2>1. PICK i \in 1 .. Len(files) : files[i] = path
    BY <1>5 DEF Range
  <2>2. path \in Paths
    BY <2>1, <1>2
  <2>3. CASE path \in missing
    <3>1. dropped'[path] = dropped[path] + all[path]
      BY <1>1, <1>12, <2>2, <2>3 DEF lost
    <3>2. all[path] = 0 + Count(files, path)
      BY <2>2 DEF all, Plus, None
    <3> DEFINE S == {k \in DOMAIN files : files[k] = path}
    <3>3. i \in S
      BY <2>1, <1>5
    <3>4. IsFiniteSet(S)
      BY <1>2, CountNat
    <3> HIDE DEF S
    <3>5. Cardinality(S) \in Nat /\ Cardinality(S) # 0
      BY <3>3, <3>4, FS_CardinalityType, FS_EmptySet
    <3>6. Count(files, path) \in Nat /\ Count(files, path) # 0
      BY <3>5 DEF Count, S
    <3>7. dropped[path] \in Int
      BY <1>2, <2>2
    <3> QED
      BY <3>1, <3>2, <3>6, <3>7
  <2>4. CASE path \notin missing
    <3>1. Len(c) = Len(files) /\ c[i] = File(path)
      BY <1>6, <1>12, <2>1, <2>4
    <3>2. Len(text) \in Nat
      BY <1>9
    <3>3. posted'[Len(text) + i] = c[i] /\ Len(text) + i \in DOMAIN posted'
      <4>1. posted' \in Seq(M) /\ Len(posted') = Len(text) + Len(c)
        BY <1>7, <1>9, <1>10, ConcatFacts
      <4>2. posted'[Len(text) + i] = c[i]
        BY <1>7, <1>9, <1>10, <2>1, <3>1, ConcatFacts
      <4>3. Len(text) + i \in 1 .. Len(posted')
        BY <4>1, <3>1, <3>2, <1>5, <2>1
      <4> QED
        BY <4>1, <4>2, <4>3
    <3> QED
      BY <3>1, <3>3 DEF Range
  <2> QED
    BY <2>3, <2>4
<1> QED
  BY <1>4, <1>11, <1>12 DEF x

\* A text or several chips leave the bar of an open conversation only towards
\* the backend, whatever the user does in between (Composer, InputBar, run).
THEOREM ClearedArePosted == Spec => ClearedIsPosted
<1> DEFINE A == /\ selected # NoMac /\ Len(Strip(value)) > 1 /\ value' = <<>>
                    => Text(Strip(value)) \in Range(posted')
                /\ P2p /\ Len(files) > 1 /\ files' = <<>>
                    => \A path \in Range(files) :
                        File(path) \in Range(posted')
                            \/ dropped'[path] > dropped[path]
<1>1. WindowInv /\ [Next]_vars => [A]_vars
  <2> SUFFICES ASSUME WindowInv, Next
               PROVE  A
    OBVIOUS
  <2>1. CASE \/ Len(Strip(value)) > 1 /\ value' = <<>>
             \/ Len(files) > 1 /\ files' = <<>>
    <3>1. PICK byClick \in BOOLEAN : Send(byClick)
      BY <2>1, OnlySendClears
    <3> QED
      BY <3>1, SendPosts
  <2>2. CASE ~ \/ Len(Strip(value)) > 1 /\ value' = <<>>
               \/ Len(files) > 1 /\ files' = <<>>
    BY <2>2
  <2> QED
    BY <2>1, <2>2
<1> QED
  BY <1>1, WindowInvariance, PTL DEF Spec, ClearedIsPosted
=============================================================================
