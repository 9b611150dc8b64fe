------------------------------- MODULE Roster -------------------------------
(***************************************************************************)
(* The contact list of the user interface: RosterService with the sidebar  *)
(* that shows it.  A neighbors_changed event carries one row per entry of  *)
(* the backend's neighbor table; the handler writes each row into the      *)
(* contact that _idx names for its MAC, appends the unknown ones and sorts *)
(* the list.  Sorting moves contacts; _idx keeps the old positions.        *)
(*                                                                         *)
(* A name stands for its rank in the order of name.lower(), positions      *)
(* count from 1, and a row says online when last_seen_ms < 10000.          *)
(***************************************************************************)
EXTENDS Nodes, Sequences, FiniteSets, Functions

NoMac == "none"
AllMacs == "__ALL__"

ASSUME RosterAssumption == NoMac \notin Peers /\ AllMacs \notin Peers

VARIABLES
    contacts,       \* the list as shown
    idx,            \* _idx: MAC -> position
    selected,       \* selected_mac
    highlight,      \* Sidebar.selected: the row drawn as selected
    last            \* history: the rows of the last event

rosterVars == <<contacts, idx, selected, highlight, last>>

Rows == [mac : Peers, name : Names, online : BOOLEAN]

RosterInit ==
    /\ contacts = <<>> /\ idx = [m \in {} |-> 0]
    /\ selected = NoMac /\ highlight = 1
    /\ last = <<>>

MacsOf(s) == {s[i].mac : i \in DOMAIN s}

\* The rows of MACs seen for the first time, in order: the one sequence there
\* is of them, as a set.
Unknown(rows) ==
    LET new == {i \in DOMAIN rows : rows[i].mac \notin DOMAIN idx}
    IN  {[k \in DOMAIN at |-> rows[at[k]]] :
            at \in {b \in Bijection(1 .. Cardinality(new), new) :
                        \A k, l \in DOMAIN b : k < l => b[k] < b[l]}}

\* Mutant: known contacts are left as they are.
UpdatedAppends(rows, new) == contacts \o new

\* The contacts after the loop over the rows: the contact at position idx[mac]
\* takes name and online from the row and keeps its own mac.
Updated(rows, new) ==
    [i \in DOMAIN contacts |->
        LET hits == {r \in Range(rows) :
                        r.mac \in DOMAIN idx /\ idx[r.mac] = i}
        IN  IF hits = {} THEN contacts[i]
            ELSE [(CHOOSE r \in hits : TRUE) EXCEPT !.mac = contacts[i].mac]]
    \o new

\* Mutant: positions of new contacts start one too early.
IndexedEarly(new) ==
    [m \in DOMAIN idx \union MacsOf(new) |->
        IF m \in DOMAIN idx THEN idx[m]
        ELSE Len(contacts) - 1 + CHOOSE k \in DOMAIN new : new[k].mac = m]

Indexed(new) ==
    [m \in DOMAIN idx \union MacsOf(new) |->
        IF m \in DOMAIN idx THEN idx[m]
        ELSE Len(contacts) + CHOOSE k \in DOMAIN new : new[k].mac = m]

\* The sort key (not online, name.lower()).
Before(c, d) ==
    \/ c.online /\ ~d.online
    \/ c.online = d.online /\ c.name < d.name

\* The rearrangements of s that a stable sort can make: exactly one.
StableOrders(s) ==
    {p \in Bijection(DOMAIN s, DOMAIN s) :
        \A i, j \in DOMAIN s : i < j =>
            \/ Before(s[p[i]], s[p[j]])
            \/ ~Before(s[p[j]], s[p[i]]) /\ p[i] < p[j]}

\* Mutant: the first conversation is opened with each event.
SelectFirstAlways(list) == IF list = <<>> THEN NoMac ELSE list[1].mac

SelectFirst(list) ==
    IF selected = NoMac /\ list # <<>> THEN list[1].mac ELSE selected

OnNeighborsChanged(rows) ==
    \E new \in Unknown(rows) :
        LET list == Updated(rows, new)
        IN  \E p \in StableOrders(list) :
                /\ contacts' = [i \in DOMAIN list |-> list[p[i]]]
                /\ idx' = Indexed(new)
                /\ selected' = SelectFirst(contacts')
                /\ last' = rows
                /\ UNCHANGED highlight

-----------------------------------------------------------------------------
(***************************************************************************)
(* Sidebar.handle_event                                                    *)
(***************************************************************************)
Select(mac) == selected' = IF mac \in DOMAIN idx THEN mac ELSE selected

Click(i) ==
    /\ i \in DOMAIN contacts
    /\ highlight' = i
    /\ Select(contacts[i].mac)
    /\ UNCHANGED <<contacts, idx, last>>

\* Up and down start from the highlighted row, not from the selected contact.
Press(step) ==
    /\ highlight + step \in DOMAIN contacts
    /\ highlight' = highlight + step
    /\ Select(contacts[highlight + step].mac)
    /\ UNCHANGED <<contacts, idx, last>>

ClickAll ==
    /\ selected' = AllMacs
    /\ UNCHANGED <<contacts, idx, highlight, last>>

\* The last rows, after some neighbors have gone silent.
Aged == {[i \in DOMAIN last |->
            IF i \in silent THEN [last[i] EXCEPT !.online = FALSE]
                           ELSE last[i]] : silent \in SUBSET DOMAIN last}

\* An event follows a reply: one neighbor, old or new, is online, under any
\* name; the others keep their names and places.
Told(rows, m, name) ==
    LET row == [mac |-> m, name |-> name, online |-> TRUE]
    IN  IF m \in MacsOf(rows)
        THEN [i \in DOMAIN rows |-> IF rows[i].mac = m THEN row ELSE rows[i]]
        ELSE Append(rows, row)

-----------------------------------------------------------------------------
(***************************************************************************)
(* Properties                                                              *)
(***************************************************************************)

\* Contacts, index, selection and highlight have their types.
RosterTypeOK ==
    /\ contacts \in Seq(Rows)
    /\ DOMAIN idx \subseteq Peers
    /\ \A m \in DOMAIN idx : idx[m] \in DOMAIN contacts
    /\ selected \in Peers \union {NoMac, AllMacs}
    /\ highlight = 1 \/ highlight \in DOMAIN contacts

\* Every neighbor reported so far is listed exactly once, and _idx gives every
\* one a position of its own, through updates, appends and sorts.
EachListedOnce ==
    /\ IsInjective([i \in DOMAIN contacts |-> contacts[i].mac])
    /\ MacsOf(contacts) = MacsOf(last) /\ DOMAIN idx = MacsOf(last)
    /\ IsInjective(idx)

\* How many elements of s show this name and state.
Showing(s, name, online) ==
    Cardinality({i \in DOMAIN s : s[i].name = name /\ s[i].online = online})

\* What the list shows is what the last event said, if only the names and
\* states are counted: nothing of a row is lost, though sorting may have given
\* it to another contact (on_neighbors_changed with its stale _idx).
RowsKept ==
    \A name \in Names, online \in BOOLEAN :
        Showing(contacts, name, online) = Showing(last, name, online)

\* No update, append or sort repeats or loses a neighbor or what was said of
\* one (on_neighbors_changed).
NobodyLost == EachListedOnce /\ RowsKept
=============================================================================
