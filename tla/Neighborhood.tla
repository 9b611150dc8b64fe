---------------------------- MODULE Neighborhood ----------------------------
(***************************************************************************)
(* Discovery and Roster together, with the path between them: the          *)
(* dispatcher takes a snapshot of the table after each reply and schedules *)
(* a broadcast on the loop of the IPC thread; the loop writes to the       *)
(* clients connected at that moment; the user interface reads the lines    *)
(* into a queue that EventPump drains.  A user interface that connects     *)
(* asks for the table with neighbors_get; the answer travels on the same   *)
(* stream and looks like an event.                                         *)
(***************************************************************************)
EXTENDS Discovery, Roster

CONSTANT MaxEvents  \* bound: events between the table and the list

ASSUME NeighborhoodAssumption == MaxEvents \in Nat \ {0}

VARIABLES
    ipc,            \* "down" before _start_ipc, "up", "connected"
    asked,          \* the user interface has sent neighbors_get
    answered,       \* and the loop has answered it
    scheduled,      \* broadcasts waiting in the loop of the IPC thread
    events          \* lines on the socket and in the queue of UDSBridge

ipcVars == <<ipc, asked, answered, scheduled, events>>
vars == <<discoveryVars, rosterVars, ipcVars>>

Init ==
    /\ DiscoveryInit
    /\ RosterInit
    /\ ipc = "down" /\ asked = FALSE /\ answered = FALSE
    /\ scheduled = <<>> /\ events = <<>>

\* _neighbors_snapshot: what the age of an entry will be compared with later.
SnapshotOf(t) ==
    [i \in DOMAIN t |-> [mac |-> t[i].mac, name |-> t[i].name,
                         online |-> t[i].age = Online]]

\* The reply handler ends with the callback on_neighbors_changed, which emits
\* nothing while there is no loop.
Reply(p) ==
    /\ Len(scheduled) + Len(events) < MaxEvents
    /\ OnDiscoverReply(p)
    /\ scheduled' = IF ipc = "down" THEN scheduled
                    ELSE Append(scheduled, SnapshotOf(table'))
    /\ UNCHANGED <<rosterVars, ipc, asked, answered, events>>

StartIpc ==
    /\ ipc = "down"
    /\ ipc' = "up"
    /\ UNCHANGED <<discoveryVars, rosterVars, asked, answered, scheduled,
                   events>>

\* _handle_client registers the writer before it reads the first command.
Connect ==
    /\ ipc = "up"
    /\ ipc' = "connected"
    /\ UNCHANGED <<discoveryVars, rosterVars, asked, answered, scheduled,
                   events>>

\* Mutant: the table is asked for over a connection that gets no broadcasts
\* yet.
BootstrapEarly ==
    /\ ipc = "up"
    /\ ~asked
    /\ asked' = TRUE
    /\ UNCHANGED <<discoveryVars, rosterVars, ipc, answered, scheduled,
                   events>>

Bootstrap ==
    /\ ipc = "connected"
    /\ ~asked
    /\ asked' = TRUE
    /\ UNCHANGED <<discoveryVars, rosterVars, ipc, answered, scheduled,
                   events>>

NeighborsGet ==
    /\ asked
    /\ ~answered
    /\ answered' = TRUE
    /\ events' = Append(events, SnapshotOf(table))
    /\ UNCHANGED <<discoveryVars, rosterVars, ipc, asked, scheduled>>

Broadcast ==
    /\ scheduled # <<>>
    /\ scheduled' = Tail(scheduled)
    /\ events' = IF ipc = "connected" THEN Append(events, Head(scheduled))
                 ELSE events
    /\ UNCHANGED <<discoveryVars, rosterVars, ipc, asked, answered>>

\* EventPump.pump hands the next event to RosterService.
PumpEvent ==
    /\ events # <<>>
    /\ events' = Tail(events)
    /\ OnNeighborsChanged(Head(events))
    /\ UNCHANGED <<discoveryVars, ipc, asked, answered, scheduled>>

IpcNext == StartIpc \/ Connect \/ Bootstrap \/ NeighborsGet \/ Broadcast
           \/ PumpEvent

Next ==
    \/ /\ \/ TimerDiscover
          \/ \E p \in Peers : OnDiscoverRequest(p)
          \/ DiscoveryEnvironment
       /\ UNCHANGED <<rosterVars, ipcVars>>
    \/ \E p \in Peers : Reply(p)
    \/ IpcNext

\* The scheduler, the dispatchers, the loops and the pump keep running; the
\* user starts the user interface.
Fairness ==
    /\ WF_vars(TimerDiscover /\ UNCHANGED <<rosterVars, ipcVars>>)
    /\ \A p \in Peers :
        /\ WF_vars(OnDiscoverRequest(p) /\ UNCHANGED <<rosterVars, ipcVars>>)
        /\ SF_vars(Reply(p))
    /\ WF_vars(StartIpc) /\ WF_vars(Connect) /\ WF_vars(Bootstrap)
    /\ WF_vars(NeighborsGet) /\ WF_vars(Broadcast) /\ WF_vars(PumpEvent)

Spec == Init /\ [][Next]_vars
FairSpec == Spec /\ Fairness

-----------------------------------------------------------------------------
(***************************************************************************)
(* Properties                                                              *)
(***************************************************************************)

\* Nothing is on its way from the table to the list.
Quiet == answered /\ scheduled = <<>> /\ events = <<>>

Named(s, name) == Cardinality({i \in DOMAIN s : s[i].name = name})

\* Once the first answer has come, a user interface that has read all its
\* events lists exactly the backend's neighbors, each name as often as in the
\* table, whenever it connected (_handle_client, broadcast, bootstrap).
RosterComplete ==
    Quiet => /\ MacsOf(contacts) = MacsOf(table)
             /\ \A name \in Names : Named(contacts, name) = Named(table, name)

\* In the end the table has every peer under its current alias, and the list
\* holds every peer, and each current alias as often as there are peers with
\* it, through losses, restarts and a late start of the user interface
\* (periodic task, request, reply, broadcast).
RosterSettles ==
    <>[](/\ TableRight
         /\ MacsOf(contacts) = Peers
         /\ \A name \in Names :
                Named(contacts, name)
                    = Cardinality({p \in Peers : alias[p] = name}))

\* Every listed neighbor is shown under its own alias.
RosterRight ==
    Quiet => \A i \in DOMAIN contacts, k \in DOMAIN table :
                contacts[i].mac = table[k].mac
                    => contacts[i].name = table[k].name
=============================================================================
