------------------------------ MODULE SentCards ------------------------------
(***************************************************************************)
(* The cards on which the user interface shows the files it sends.  A chip *)
(* that is sent gets a card at once, entered under an id of FileService,   *)
(* the time in milliseconds.  The events of the backend name its own ids,  *)
(* which are matched with a card by the name of the file, the last card of *)
(* that name, and entered beside the first id.  A watchdog marks the card  *)
(* of an entry "Enviado" when it has not been touched for a second.        *)
(*                                                                         *)
(* The backend may report a file or not, and its start after its progress  *)
(* or its end (SendJobs).  Cards are listed in the order they were made;   *)
(* the contact plays no part in finding them.  file_tx_done and            *)
(* file_tx_error are subscribed to and never sent.                         *)
(***************************************************************************)
EXTENDS Integers, Sequences, FiniteSetsExt

CONSTANTS
    Uploads,        \* [name, folder, files]: the chips, files: set of [id, name]
    MaxSends,       \* bound: chips sent
    MaxProgress     \* bound: progress events for each file

\* A chip of a file has its name.  An id of the backend is made of the name
\* and the hash of the file.
ASSUME SentCardsAssumption ==
    /\ \A u \in Uploads :
        /\ u.folder \in BOOLEAN
        /\ ~u.folder => \A f \in u.files : u.files = {f} /\ f.name = u.name
    /\ \A u, v \in Uploads : \A f \in u.files, g \in v.files :
        f.id = g.id => f.name = g.name
    /\ MaxSends \in Nat /\ MaxProgress \in Nat

VARIABLES
    cards,          \* [upload, subtitle, posted]
    clock,          \* milliseconds, as far as FileService tells them apart
    progress_index_tx,  \* id -> position of a card
    last_tick_tx,   \* ids with a time of the last event
    unwatched,      \* history: cards that lost their id, or got none
    \* --- the backend, per card and file ---
    begun,          \* file_tx_started has been sent
    progress,       \* file_tx_progress events sent
    ended           \* file_tx_finished has been sent

uiVars == <<cards, clock, progress_index_tx, last_tick_tx, unwatched>>
backendVars == <<begun, progress, ended>>
vars == <<uiVars, backendVars>>

Files == UNION {u.files : u \in Uploads}
Transfers == (1 .. MaxSends) \X Files
Subtitles == {"Enviando", "%", "Enviado"}

Init ==
    /\ cards = <<>> /\ clock = 0
    /\ progress_index_tx = [id \in {} |-> 0] /\ last_tick_tx = {} /\ unwatched = {}
    /\ begun = {} /\ ended = {}
    /\ progress = [t \in Transfers |-> 0]

FileId(t) == <<"id", t[2].id>>
With(id, n) == [i \in DOMAIN progress_index_tx \union {id} |->
                    IF i = id THEN n ELSE progress_index_tx[i]]
Without(id) == [i \in DOMAIN progress_index_tx \ {id} |-> progress_index_tx[i]]
Shown(n, subtitle) == [cards EXCEPT ![n].subtitle = subtitle]

-----------------------------------------------------------------------------
(***************************************************************************)
(* Sending a chip                                                          *)
(***************************************************************************)
\* Mutant: the entry gets no time.
TouchedNot(id) == last_tick_tx \ {id}
Touched(id) == last_tick_tx \union {id}

\* append_local_file_card.
Card(u, posted) == [upload |-> u, subtitle |-> "Enviando", posted |-> posted]

\* send_path, with its command.  The clock may not have moved: two chips of
\* one message are often sent within a millisecond.
SendPath(u) ==
    /\ Len(cards) < MaxSends
    /\ cards' = Append(cards, Card(u, TRUE))
    /\ clock' \in {clock, clock + 1}
    /\ LET tid == <<IF u.folder THEN "fx" ELSE "tx", clock'>>
           before == {progress_index_tx[i] :
                        i \in DOMAIN progress_index_tx \cap {tid}}
       IN  /\ progress_index_tx' = With(tid, Len(cards'))
           /\ last_tick_tx' = Touched(tid)
           /\ unwatched' = unwatched \union before
    /\ UNCHANGED backendVars

\* The file is gone: send_file raises after the card was made.
SendPathRaises(u) ==
    /\ Len(cards) < MaxSends
    /\ cards' = Append(cards, Card(u, FALSE))
    /\ unwatched' = unwatched \union {Len(cards')}
    /\ UNCHANGED <<clock, progress_index_tx, last_tick_tx, backendVars>>

-----------------------------------------------------------------------------
(***************************************************************************)
(* The events of the backend                                               *)
(***************************************************************************)
Sent(t) ==
    /\ t[1] \in DOMAIN cards
    /\ cards[t[1]].posted /\ t[2] \in cards[t[1]].upload.files

\* _resolve_msg_for_event_tx: the entry of the id, or else the last card of
\* that name; none for the files of a folder, whose card has its own name.
Named(name) == {n \in DOMAIN cards : cards[n].upload.name = name}
Resolved(t) ==
    IF FileId(t) \in DOMAIN progress_index_tx
    THEN {progress_index_tx[FileId(t)]}
    ELSE IF Named(t[2].name) = {} THEN {} ELSE {Max(Named(t[2].name))}

\* The cards, the one found showing subtitle.
Showing(t, subtitle) ==
    [n \in DOMAIN cards |->
        IF n \in Resolved(t) THEN [cards[n] EXCEPT !.subtitle = subtitle]
                             ELSE cards[n]]

\* The card found is entered under the id and has just been heard of.
Entered(t) ==
    /\ unwatched' = unwatched \ Resolved(t)
    /\ IF Resolved(t) = {} THEN UNCHANGED <<progress_index_tx, last_tick_tx>>
       ELSE /\ progress_index_tx' = With(FileId(t), Max(Resolved(t)))
            /\ last_tick_tx' = Touched(FileId(t))

\* Mutant: the card is shown as it was made.
StartedShown(t) == Showing(t, "Enviando")
StartedLeaves(t) == cards

OnFileTxStarted(t) ==
    /\ Sent(t) /\ t \notin begun
    /\ begun' = begun \union {t}
    /\ Entered(t)
    /\ cards' = StartedLeaves(t)
    /\ UNCHANGED <<clock, progress, ended>>

OnFileTxProgress(t) ==
    /\ Sent(t) /\ t \notin ended /\ progress[t] < MaxProgress
    /\ progress' = [progress EXCEPT ![t] = @ + 1]
    /\ Entered(t)
    /\ cards' = Showing(t, "%")
    /\ UNCHANGED <<clock, begun, ended>>

\* The poller reports progress before the end.
OnFileTxFinished(t) ==
    /\ Sent(t) /\ t \notin ended /\ progress[t] > 0
    /\ ended' = ended \union {t}
    /\ cards' = Showing(t, "Enviado")
    /\ progress_index_tx' = Without(FileId(t))
    /\ last_tick_tx' = last_tick_tx \ {FileId(t)}
    /\ UNCHANGED <<clock, unwatched, begun, progress>>

-----------------------------------------------------------------------------
(***************************************************************************)
(* The watchdog, once per frame, at whatever time                          *)
(***************************************************************************)
Watchdog(id) ==
    /\ id \in DOMAIN progress_index_tx /\ id \in last_tick_tx
    /\ cards' = Shown(progress_index_tx[id], "Enviado")
    /\ progress_index_tx' = Without(id)
    /\ last_tick_tx' = last_tick_tx \ {id}
    /\ UNCHANGED <<clock, unwatched, backendVars>>

Backend ==
    \E t \in Transfers :
        OnFileTxStarted(t) \/ OnFileTxProgress(t) \/ OnFileTxFinished(t)

EntryIds == {<<kind, n>> : kind \in {"tx", "fx"}, n \in 0 .. MaxSends}
            \union {FileId(t) : t \in Transfers}

Next ==
    \/ \E u \in Uploads : SendPath(u) \/ SendPathRaises(u)
    \/ Backend
    \/ \E id \in EntryIds : Watchdog(id)

\* Every frame runs the watchdog, and time passes.
Spec == Init /\ [][Next]_vars /\ \A id \in EntryIds : WF_vars(Watchdog(id))

-----------------------------------------------------------------------------
(***************************************************************************)
(* Properties                                                              *)
(***************************************************************************)
\* Cards and entries have their types, and every entry has a time, without
\* which the watchdog passes over it.
SentCardsTypeOK ==
    /\ \A n \in DOMAIN cards :
        cards[n].upload \in Uploads /\ cards[n].subtitle \in Subtitles
    /\ DOMAIN progress_index_tx = last_tick_tx /\ last_tick_tx \subseteq EntryIds
    /\ \A id \in DOMAIN progress_index_tx : progress_index_tx[id] \in DOMAIN cards
    /\ clock \in 0 .. MaxSends /\ unwatched \subseteq DOMAIN cards

\* No other card can be taken for card n by an event of either.
Alone(n) ==
    \A k \in DOMAIN cards \ {n} :
        cards[n].upload.name \notin
            {cards[k].upload.name} \union {f.name : f \in cards[k].upload.files}

\* The card of a file of which the backend has reported the end says
\* "Enviado" from then on, though the watchdog may have closed its entry
\* before and the start of the transfer may be reported last.
FinishedShown ==
    \A t \in ended :
        Alone(t[1]) /\ ~cards[t[1]].upload.folder
            => cards[t[1]].subtitle = "Enviado"

\* In the end every card says "Enviado", whatever the backend has reported of
\* it, but for the cards of files that were gone and of those whose id was
\* given to a card of the same millisecond before any event named them.
SentCardsSettle ==
    \A n \in 1 .. MaxSends :
        <>[](n \in DOMAIN cards /\ n \notin unwatched
                => cards[n].subtitle = "Enviado")
=============================================================================
