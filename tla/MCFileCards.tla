----------------------------- MODULE MCFileCards -----------------------------
(***************************************************************************)
(* A folder of a file of two chunks and an empty one, and a lone file that *)
(* two sources have and cut into chunks of different sizes.                *)
(***************************************************************************)
EXTENDS FileCards

MCFiles == {[id |-> "big", src |-> "s", root |-> "folder", chunks |-> 2],
            [id |-> "empty", src |-> "s", root |-> "folder", chunks |-> 0],
            [id |-> "lone", src |-> "s", root |-> "lone", chunks |-> 1],
            [id |-> "lone", src |-> "t", root |-> "lone", chunks |-> 2]}
=============================================================================
