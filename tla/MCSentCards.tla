---------------------------- MODULE MCSentCards ----------------------------
(***************************************************************************)
(* Two files of one name, one of them also in a folder with another file.  *)
(***************************************************************************)
EXTENDS SentCards

File(id, name) == [id |-> id, name |-> name]
MCUploads ==
    {[name |-> "a", folder |-> FALSE, files |-> {File("a1", "a")}],
     [name |-> "a", folder |-> FALSE, files |-> {File("a2", "a")}],
     [name |-> "f", folder |-> TRUE,
      files |-> {File("a1", "a"), File("b", "b")}]}
=============================================================================
