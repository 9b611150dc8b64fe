---------------------------- MODULE FileDelivery ----------------------------
(***************************************************************************)
(* What a file transfer promises, with no frames, timers or threads: the   *)
(* chunks of one file reach the receiver (held), the sender counts a       *)
(* prefix of them as acknowledged (confirmed), the complete file appears   *)
(* at its destination (stored), and the sender may declare the transfer    *)
(* complete (claimed).  FileTransfer implements this specification.        *)
(***************************************************************************)
EXTENDS Integers

CONSTANT Total          \* number of chunks of the file

VARIABLES
    held,               \* chunks that have reached the receiver
    confirmed,          \* length of the prefix the sender knows acknowledged
    assembled,          \* the receiver has held all the chunks together
    stored,             \* the file is at its destination
    claimed             \* the sender has declared the transfer complete

vars == <<held, confirmed, assembled, stored, claimed>>

Chunks == 0 .. Total - 1

Init ==
    /\ held = {}
    /\ confirmed = 0
    /\ assembled = FALSE
    /\ stored = FALSE
    /\ claimed = FALSE

\* A chunk reaches the receiver; the one that makes the file whole is noted.
Reach(i) ==
    /\ held' = held \union {i}
    /\ assembled' \in {assembled, TRUE}
    /\ assembled' => held' = Chunks
    /\ UNCHANGED <<confirmed, stored, claimed>>

\* The sender learns of a longer prefix, all of which has arrived.
Confirm(n) ==
    /\ n > confirmed
    /\ 0 .. n - 1 \subseteq held
    /\ n = Total => assembled
    /\ confirmed' = n
    /\ UNCHANGED <<held, assembled, stored, claimed>>

\* The file is put in place, only once it has been assembled.
Store ==
    /\ Total > 0 => assembled
    /\ stored' = TRUE
    /\ UNCHANGED <<held, confirmed, assembled, claimed>>

\* The sender declares success, only when every chunk is confirmed.
Claim ==
    /\ confirmed = Total
    /\ claimed' = TRUE
    /\ UNCHANGED <<held, confirmed, assembled, stored>>

Next ==
    \/ \E i \in Chunks : Reach(i)
    \/ \E n \in 1 .. Total : Confirm(n)
    \/ Store
    \/ Claim

Spec == Init /\ [][Next]_vars
=============================================================================
