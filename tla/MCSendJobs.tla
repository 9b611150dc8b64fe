----------------------------- MODULE MCSendJobs -----------------------------
\* Commands for SendJobs.
EXTENDS SendJobs

File(id) == [kind |-> "file_send", files |-> <<id>>]
Folder(ids) == [kind |-> "folder_send", files |-> ids]

\* Different files, one by one and in a folder.
DifferentFiles == <<File("a"), Folder(<<"b", "c">>)>>

\* The same file to two neighbors.
SameFile == <<File("a"), File("a")>>
=============================================================================
