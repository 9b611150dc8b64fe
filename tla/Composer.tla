------------------------------ MODULE Composer ------------------------------
(***************************************************************************)
(* Where the user writes: the input bar with its draft, the chips of the   *)
(* attachments above it and the dialog that picks them.  Composer hands    *)
(* each event to the bar and turns an attempt to send into what there is   *)
(* to send.  The broadcast mode of Composer is never switched on.          *)
(*                                                                         *)
(* An operator for each handler says what it does to its own variables;    *)
(* what it returns is told apart by which handler it is, and Outgoing.     *)
(***************************************************************************)
EXTENDS Integers, Sequences, FiniteSetsExt

VARIABLES
    value,          \* InputBar.value: the draft, as a sequence of characters
    focus,          \* InputBar.focus
    files,          \* the chips: paths, in the order they were added
    dialog,         \* the file dialog is open
    attachments     \* paths picked in the dialog and not taken yet

composerVars == <<value, focus, files, dialog, attachments>>

ComposerInit ==
    /\ value = <<>> /\ focus = FALSE /\ files = <<>>
    /\ dialog = FALSE /\ attachments = <<>>

\* str.strip: blanks at both ends go.
Strip(s) ==
    LET ink == {i \in DOMAIN s : s[i] # " "}
    IN  IF ink = {} THEN <<>> ELSE SubSeq(s, Min(ink), Max(ink))

-----------------------------------------------------------------------------
(***************************************************************************)
(* The input bar                                                           *)
(***************************************************************************)
\* A printable character.
InputKey(c) ==
    /\ value' = IF focus THEN Append(value, c) ELSE value
    /\ UNCHANGED <<focus, files, dialog, attachments>>

Backspace ==
    /\ focus /\ value # <<>>
    /\ value' = SubSeq(value, 1, Len(value) - 1)
    /\ UNCHANGED <<focus, files, dialog, attachments>>

\* Ctrl-V.
Paste(clip) ==
    /\ focus
    /\ value' = value \o clip
    /\ UNCHANGED <<focus, files, dialog, attachments>>

\* A click inside or outside the bar, on none of its buttons.
ClickBar(inside) ==
    /\ focus' = inside
    /\ UNCHANGED <<value, files, dialog, attachments>>

-----------------------------------------------------------------------------
(***************************************************************************)
(* Composer                                                                *)
(***************************************************************************)
\* Mutant: with chips the text is not sent.
OutgoingChipsOnly ==
    [text |-> IF files = <<>> THEN Strip(value) ELSE <<>>, files |-> files]

\* What an attempt to send would send.
Outgoing == [text |-> Strip(value), files |-> files]
Nothing == [text |-> <<>>, files |-> <<>>]

\* The draft and the chips are taken.
Cleared == value' = <<>> /\ files' = <<>>

\* Enter, with the focus, or a click on the button, which gives it.  An empty
\* message is refused and the draft, blanks, stays.
TrySend(byClick) ==
    /\ focus \/ byClick
    /\ focus' = TRUE
    /\ IF Outgoing = Nothing THEN UNCHANGED <<value, files>> ELSE Cleared
    /\ UNCHANGED <<dialog, attachments>>

\* The cross on a chip; the click goes no further.
CloseChip(i) ==
    /\ i \in DOMAIN files
    /\ files' = SubSeq(files, 1, i - 1) \o SubSeq(files, i + 1, Len(files))
    /\ UNCHANGED <<value, focus, dialog, attachments>>

-----------------------------------------------------------------------------
(***************************************************************************)
(* The attachment picker                                                   *)
(***************************************************************************)
\* The button focuses the bar, too.  A dialog that is open stays the only one.
Attach(opens) ==
    /\ focus' = TRUE
    /\ dialog' = (dialog \/ opens)
    /\ UNCHANGED <<value, files, attachments>>

PathPicked(path) ==
    /\ dialog
    /\ dialog' = FALSE
    /\ attachments' = Append(attachments, path)
    /\ UNCHANGED <<value, focus, files>>

DialogClosed ==
    /\ dialog
    /\ dialog' = FALSE
    /\ UNCHANGED <<value, focus, files, attachments>>

\* Mutant: the list is not emptied.
TakeAttachmentsKeeps(accepted) ==
    /\ attachments # <<>>
    /\ files' = IF accepted THEN files \o attachments ELSE files
    /\ UNCHANGED <<value, focus, dialog, attachments>>

\* The end of a frame: what was picked becomes chips, or is dropped.
TakeAttachments(accepted) ==
    /\ attachments # <<>>
    /\ attachments' = <<>>
    /\ files' = IF accepted THEN files \o attachments ELSE files
    /\ UNCHANGED <<value, focus, dialog>>
=============================================================================
