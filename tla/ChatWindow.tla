----------------------------- MODULE ChatWindow -----------------------------
(***************************************************************************)
(* The main loop of the user interface, app.run: a frame handles what the  *)
(* user did, pumps the events of the backend and takes what the file       *)
(* dialog has picked.  Every event of the user goes to the sidebar and     *)
(* then to the composer, whatever has the focus and also while the dialog  *)
(* is open; the contacts change under the draft with each event of the     *)
(* backend.  SentCards has the cards of the files sent.                    *)
(***************************************************************************)
EXTENDS Roster, Composer, SequencesExt

CONSTANTS
    Chars,          \* what the user types
    StepOf,         \* the characters that move through the sidebar: "j", "k"
    Clips,          \* what the clipboard may hold
    Paths,          \* what the file dialog shows
    MaxChars,       \* bound: characters written
    MaxPicks,       \* bound: times each path is picked
    MayVanish       \* whether files may be gone from the disk when sent

ASSUME ChatWindowAssumption ==
    /\ DOMAIN StepOf \subseteq Chars /\ Range(StepOf) \subseteq {-1, 1}
    /\ Clips \subseteq Seq(Chars)
    /\ MaxChars \in Nat /\ MaxPicks \in Nat
    /\ MayVanish \in BOOLEAN

VARIABLES
    posted,         \* what the last event of the user gave to the backend
    written,        \* history: characters written
    chosen,         \* history: the conversation the user chose last
    picked,         \* history: how often each path was picked,
    sent,           \* handed to the backend for the open conversation,
    dropped         \* closed, missing, or dropped with no neighbor open

filesHistory == <<picked, sent, dropped>>
windowVars == <<posted, written, chosen, filesHistory>>
vars == <<rosterVars, composerVars, windowVars>>

None == [path \in Paths |-> 0]

Init ==
    /\ RosterInit /\ ComposerInit
    /\ posted = <<>> /\ written = 0 /\ chosen = NoMac
    /\ picked = None /\ sent = None /\ dropped = None

Count(s, path) == Cardinality({i \in DOMAIN s : s[i] = path})
Plus(counts, s) == [path \in Paths |-> counts[path] + Count(s, path)]

-----------------------------------------------------------------------------
(***************************************************************************)
(* What the user does                                                      *)
(***************************************************************************)
\* Up and down, from the highlighted row.
Moves(step) ==
    IF highlight + step \in DOMAIN contacts
    THEN Press(step) /\ chosen' = contacts[highlight + step].mac
    ELSE UNCHANGED <<rosterVars, chosen>>

Arrow(step) ==
    /\ Moves(step)
    /\ posted' = <<>>
    /\ UNCHANGED <<composerVars, written, filesHistory>>

\* The sidebar does not ask who has the focus.
Type(c) ==
    /\ written < MaxChars
    /\ written' = written + 1
    /\ IF c \in DOMAIN StepOf THEN Moves(StepOf[c])
                              ELSE UNCHANGED <<rosterVars, chosen>>
    /\ InputKey(c)
    /\ posted' = <<>>
    /\ UNCHANGED filesHistory

Insert(clip) ==
    /\ written + Len(clip) <= MaxChars
    /\ written' = written + Len(clip)
    /\ Paste(clip)
    /\ posted' = <<>>
    /\ UNCHANGED <<rosterVars, chosen, filesHistory>>

\* A click on a row, or on the button to write to everybody.
ClickSidebar ==
    /\ \/ \E i \in DOMAIN contacts : Click(i) /\ chosen' = contacts[i].mac
       \/ ClickAll /\ chosen' = AllMacs
    /\ ClickBar(FALSE)
    /\ posted' = <<>>
    /\ UNCHANGED <<written, filesHistory>>

RemoveChip(i) ==
    /\ CloseChip(i)
    /\ dropped' = Plus(dropped, <<files[i]>>)
    /\ posted' = <<>>
    /\ UNCHANGED <<rosterVars, written, chosen, picked, sent>>

P2p == selected \notin {NoMac, AllMacs}

Text(what) == [kind |-> "text", to |-> selected, what |-> what]
File(path) == [kind |-> "file", to |-> selected, what |-> path]

\* Enter or the button.  Composer has cleared the bar; what it returns is
\* sent, without the files to everybody, and not at all while no conversation
\* is open.  A file that is not there any more is told to the contact.
Send(byClick) ==
    /\ TrySend(byClick)
    /\ \E missing \in SUBSET Range(files) :
        /\ missing # {} => P2p /\ MayVanish
        /\ posted' =
            (IF Outgoing.text = <<>> \/ selected = NoMac THEN <<>>
             ELSE <<Text(Outgoing.text)>>) \o
            (IF P2p THEN [i \in DOMAIN files |->
                            IF files[i] \in missing THEN Text("[error adjunto]")
                            ELSE File(files[i])]
             ELSE <<>>)
        /\ LET all == Plus(None, files)
               lost == IF P2p THEN missing ELSE Paths
           IN  dropped' = [path \in Paths |-> dropped[path] +
                            IF path \in lost THEN all[path] ELSE 0]
    /\ sent' = [path \in Paths |-> sent[path] + Count(posted', File(path))]
    /\ UNCHANGED <<rosterVars, written, chosen, picked>>

ClickAttach ==
    /\ Attach(selected # AllMacs)
    /\ posted' = <<>>
    /\ UNCHANGED <<rosterVars, written, chosen, filesHistory>>

PickPath(path) ==
    /\ picked[path] < MaxPicks
    /\ picked' = Plus(picked, <<path>>)
    /\ PathPicked(path)
    /\ posted' = <<>>
    /\ UNCHANGED <<rosterVars, written, chosen, sent, dropped>>

\* What only the composer sees.
Edit ==
    /\ Backspace \/ DialogClosed \/ \E inside \in BOOLEAN : ClickBar(inside)
    /\ posted' = <<>>
    /\ UNCHANGED <<rosterVars, written, chosen, filesHistory>>

User ==
    \/ \E step \in {-1, 1} : Arrow(step)
    \/ \E c \in Chars : Type(c)
    \/ \E clip \in Clips : Insert(clip)
    \/ ClickSidebar
    \/ \E i \in DOMAIN files : RemoveChip(i)
    \/ \E byClick \in BOOLEAN : Send(byClick)
    \/ ClickAttach
    \/ \E path \in Paths : PickPath(path)
    \/ Edit

-----------------------------------------------------------------------------
(***************************************************************************)
(* The rest of the frame                                                   *)
(***************************************************************************)
\* pump hands on an event of the backend.
Neighbors ==
    /\ \E rows \in Aged, m \in Peers, name \in Names :
        OnNeighborsChanged(Told(rows, m, name))
    /\ posted' = <<>>
    /\ UNCHANGED <<composerVars, written, chosen, filesHistory>>

Frame ==
    /\ TakeAttachments(selected # AllMacs)
    /\ dropped' = IF selected # AllMacs THEN dropped
                  ELSE Plus(dropped, attachments)
    /\ posted' = <<>>
    /\ UNCHANGED <<rosterVars, written, chosen, picked, sent>>

Next == User \/ Neighbors \/ Frame

Spec == Init /\ [][Next]_vars

-----------------------------------------------------------------------------
(***************************************************************************)
(* Properties                                                              *)
(***************************************************************************)
\* The contact list is well formed and so is what the composer holds.
WindowTypeOK ==
    /\ RosterTypeOK
    /\ value \in Seq(Chars) /\ Len(value) <= written
    /\ focus \in BOOLEAN /\ dialog \in BOOLEAN
    /\ Range(files) \union Range(attachments) \subseteq Paths
    /\ chosen \in Peers \union {NoMac, AllMacs}

\* The conversation that is open, to which the next message goes, is the one
\* of the row the user clicked or moved to last, as the row was shown, and of
\* a listed neighbor: the events of the backend, which rename and reorder the
\* rows behind a draft, never redirect it (select, on_neighbors_changed).
DraftNotRedirected ==
    /\ chosen # NoMac => selected = chosen
    /\ selected \in Peers => selected \in MacsOf(contacts)
    /\ selected = NoMac => contacts = <<>>

\* No file is sent twice or gets lost between the dialog and the backend: each
\* time it was picked it waits in the picker, is a chip, was sent to one
\* neighbor, or was closed, missing, or dropped for "__ALL__" or a window with
\* no conversation (take_attachments, add_files, clear_files, run).
FilesAccounted ==
    /\ \A path \in Paths :
        picked[path] = Count(attachments \o files, path)
                       + sent[path] + dropped[path]
    /\ \A i \in DOMAIN posted : posted[i].kind = "file" => posted[i].to \in Peers

\* With a conversation open, a text leaves the bar as a whole, and several
\* chips leave it at once, only in a step that hands them to the backend for
\* that conversation; chips do not go to everybody ("Limpiar input y chips
\* SOLO si realmente se envia", composer.py).
ClearedIsPosted ==
    [][ /\ selected # NoMac /\ Len(Strip(value)) > 1 /\ value' = <<>>
            => Text(Strip(value)) \in Range(posted')
        /\ P2p /\ Len(files) > 1 /\ files' = <<>>
            => \A path \in Range(files) :
                File(path) \in Range(posted') \/ dropped'[path] > dropped[path]
      ]_vars
=============================================================================
