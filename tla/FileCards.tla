------------------------------ MODULE FileCards ------------------------------
(***************************************************************************)
(* The cards on which a user interface shows the files that come in: one   *)
(* card per source and root of the path, with a count of the files started *)
(* and the files done.  FileReceiver emits an event at each step of a      *)
(* transfer; events reach the user interface in order, and it finds the    *)
(* card of an event by the id of the file.                                 *)
(*                                                                         *)
(* An id is the name and the hash of the file, so that two sources with    *)
(* the same file use one id and, in turn, one receive context.  The user   *)
(* interface has been connected since before the first transfer.           *)
(***************************************************************************)
EXTENDS Integers, Sequences

CONSTANTS
    Files,          \* [id, src, root, chunks]: what the sources may send
    MaxMetas,       \* bound: FILE_META frames
    MaxRepeats      \* bound: FILE_DATA frames with a chunk that is there

\* An id is made of the name and the hash of a file: files that share one are
\* both empty or both not, but each sender cuts them into chunks of its own.
ASSUME FileCardsAssumption ==
    /\ \A f \in Files : f.chunks \in Nat
    /\ \A f, g \in Files : f.id = g.id => (f.chunks = 0 <=> g.chunks = 0)
    /\ MaxMetas \in Nat /\ MaxRepeats \in Nat

Ids == {f.id : f \in Files}
\* A lone file is its own root: every file has a card of a folder.
FolderRoot(f) == <<f.src, f.root>>
Keys == {FolderRoot(f) : f \in Files}

VARIABLES
    ctx,            \* FileReceiver.ctx_by_id: one record per id
    metas, repeats,
    opened,         \* history: transfers started, per key
    stored,         \* history: files renamed to their destination, per key
    events,         \* under way to the user interface
    card,           \* subtitle of the card of each key, "none" without one
    total, done,    \* folder_stats_rx
    fileid_to_folder_rx

rcvVars == <<ctx, metas, repeats, opened, stored>>
cardVars == <<card, total, done, fileid_to_folder_rx>>
vars == <<rcvVars, events, cardVars>>

NoEntries == [id \in {} |-> 0]
Set(f, id, x) == [i \in DOMAIN f \union {id} |-> IF i = id THEN x ELSE f[i]]

Init ==
    /\ ctx = NoEntries /\ metas = 0 /\ repeats = 0 /\ events = <<>>
    /\ opened = [k \in Keys |-> 0] /\ stored = [k \in Keys |-> 0]
    /\ card = [k \in Keys |-> "none"]
    /\ total = [k \in Keys |-> 0] /\ done = [k \in Keys |-> 0]
    /\ fileid_to_folder_rx = NoEntries

Event(kind, id, key) == [kind |-> kind, id |-> id, key |-> key]

-----------------------------------------------------------------------------
(***************************************************************************)
(* FileReceiver                                                            *)
(***************************************************************************)
Without(id) == [i \in DOMAIN ctx \ {id} |-> ctx[i]]

\* Hash and rename of the file that is complete: it is stored and reported,
\* or its hash is wrong, or the rename raises, nothing more is reported and
\* the contexts stay as they are in rest.
End(id, key, reports, rest) ==
    \/ /\ events' = events \o reports.ok \o <<Event("finished", id, key)>>
       /\ stored' = [stored EXCEPT ![key] = @ + 1]
       /\ ctx' = Without(id)
    \/ /\ events' = events \o reports.any \o <<Event("error", id, key)>>
       /\ ctx' = Without(id)
       /\ UNCHANGED stored
    \/ /\ events' = events \o reports.any
       /\ ctx' = rest
       /\ UNCHANGED stored

\* A context of the same id gives way.  An empty file ends here.
OnMeta(f) ==
    /\ metas < MaxMetas
    /\ metas' = metas + 1
    /\ LET key == FolderRoot(f)
           started == <<Event("started", f.id, key)>>
           progress == <<Event("progress", f.id, key)>>
       IN  /\ opened' = [opened EXCEPT ![key] = @ + 1]
           /\ IF f.chunks = 0
              THEN End(f.id, key, [ok |-> started \o progress,
                                   any |-> started], ctx)
              ELSE /\ ctx' = Set(ctx, f.id, [key |-> key, received |-> 0,
                                              total_chunks |-> f.chunks,
                                              finished |-> FALSE])
                   /\ events' = events \o started
                   /\ UNCHANGED stored
    /\ UNCHANGED <<repeats, cardVars>>

\* Mutant: one chunk too few.
AllReceivedEarly(received, total_chunks) == received + 1 >= total_chunks
AllReceived(received, total_chunks) == received >= total_chunks

\* A chunk that is new, or one that has been written before.
OnData(id) ==
    /\ id \in DOMAIN ctx
    /\ \E new \in {0, 1} :
        LET c == ctx[id]
            progress == <<Event("progress", id, c.key)>>
            last == /\ AllReceived(c.received + new, c.total_chunks)
                    /\ ~c.finished
            rest == [ctx EXCEPT ![id].received = @ + new,
                                ![id].finished = last \/ @]
        IN  /\ \/ new = 1 /\ c.received < c.total_chunks /\ UNCHANGED repeats
               \/ /\ new = 0 /\ c.received > 0
                  /\ repeats < MaxRepeats /\ repeats' = repeats + 1
            /\ IF last
               THEN End(id, c.key, [ok |-> progress, any |-> progress], rest)
               ELSE /\ ctx' = rest
                    /\ events' = events \o progress
                    /\ UNCHANGED stored
    /\ UNCHANGED <<metas, opened, cardVars>>

-----------------------------------------------------------------------------
(***************************************************************************)
(* The user interface                                                      *)
(***************************************************************************)
NextEvent(kind) == events # <<>> /\ Head(events).kind = kind

\* Mutant: an id keeps the first card it had.
MovedNot(id, key) ==
    IF id \in DOMAIN fileid_to_folder_rx THEN fileid_to_folder_rx
    ELSE Set(fileid_to_folder_rx, id, key)
Moved(id, key) == Set(fileid_to_folder_rx, id, key)

OnFileRxStarted ==
    /\ NextEvent("started")
    /\ events' = Tail(events)
    /\ LET ev == Head(events)
       IN  /\ total' = [total EXCEPT ![ev.key] = @ + 1]
           /\ card' = [card EXCEPT ![ev.key] = "Recibiendo"]
           /\ fileid_to_folder_rx' = Moved(ev.id, ev.key)
    /\ UNCHANGED <<rcvVars, done>>

OnFileRxProgress ==
    /\ NextEvent("progress")
    /\ events' = Tail(events)
    /\ card' = [card EXCEPT ![fileid_to_folder_rx[Head(events).id]] =
                    "Recibiendo"]
    /\ UNCHANGED <<rcvVars, total, done, fileid_to_folder_rx>>

\* Mutants: the comparison is off by one, one way and the other.
CompleteEarly(d, t) == d + 1 >= t
CompleteLate(d, t) == d > t
Complete(d, t) == d >= t

FolderMarkDone ==
    /\ NextEvent("finished")
    /\ events' = Tail(events)
    /\ LET key == fileid_to_folder_rx[Head(events).id]
       IN  /\ done' = [done EXCEPT ![key] = @ + 1]
           /\ card' = [card EXCEPT ![key] =
                        IF Complete(done[key] + 1, total[key])
                        THEN "Recibido" ELSE "Recibiendo"]
    /\ UNCHANGED <<rcvVars, total, fileid_to_folder_rx>>

OnFileRxError ==
    /\ NextEvent("error")
    /\ events' = Tail(events)
    /\ card' = [card EXCEPT ![fileid_to_folder_rx[Head(events).id]] = "Error"]
    /\ UNCHANGED <<rcvVars, total, done, fileid_to_folder_rx>>

Pump ==
    \/ OnFileRxStarted \/ OnFileRxProgress \/ FolderMarkDone \/ OnFileRxError

Next == (\E f \in Files : OnMeta(f)) \/ (\E id \in Ids : OnData(id)) \/ Pump

\* The main loop pumps the events in every frame.
Spec == Init /\ [][Next]_vars /\ WF_vars(Pump)

-----------------------------------------------------------------------------
(***************************************************************************)
(* Properties                                                              *)
(***************************************************************************)
\* A context is finished when no chunk is missing, and only then; every
\* event that is not a start belongs to an id whose start came before it.
CardsTypeOK ==
    /\ DOMAIN ctx \subseteq Ids
    /\ \A id \in DOMAIN ctx :
        /\ ctx[id].key \in Keys
        /\ ctx[id].received \in 0 .. ctx[id].total_chunks
        /\ ctx[id].finished <=> ctx[id].received = ctx[id].total_chunks
    /\ card \in [Keys -> {"none", "Recibiendo", "Recibido", "Error"}]
    /\ DOMAIN fileid_to_folder_rx \subseteq Ids
    /\ metas \in 0 .. MaxMetas /\ repeats \in 0 .. MaxRepeats

\* The files counted as done on a card are files its source has delivered
\* below its root: no event is taken for one of another card, though sources
\* share ids and contexts give way to each other.
DoneIsStored == \A k \in Keys : done[k] <= stored[k] /\ done[k] <= total[k]

\* A card that says "Recibido" stands for a folder of which every transfer
\* the user interface knows of has ended with the file in its place.
ReceivedIsStored ==
    \A k \in Keys :
        card[k] = "Recibido" =>
            /\ stored[k] >= total[k]
            /\ (\A i \in DOMAIN events :
                    ~(events[i].kind = "started" /\ events[i].key = k))
               => \A id \in DOMAIN ctx : ctx[id].key # k

\* In the end a card says "Recibido" if, and only if, every transfer started
\* below its root has stored its file.
CardsSettle ==
    \A k \in Keys :
        <>[](card[k] = "Recibido" <=> opened[k] > 0 /\ opened[k] = stored[k])
=============================================================================
