---------------------------- MODULE MCChatWindow ----------------------------
(***************************************************************************)
(* A user who writes letters of which one moves the selection, pastes and  *)
(* attaches, next to neighbors that come, go and change their alias.       *)
(***************************************************************************)
EXTENDS ChatWindow, TLC

MCChars == {"a", "j", " "}
MCStepOf == [c \in {"j"} |-> 1]
MCClips == {<<"a", "a">>}
Symmetry == Permutations(Peers) \union Permutations(Paths)
=============================================================================
