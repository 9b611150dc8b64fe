------------------------------ MODULE SendJobs ------------------------------
(***************************************************************************)
(* The outgoing files of a node, across its threads.  The IPC loop runs    *)
(* the commands file_send and folder_send one after the other, each inside *)
(* FileSender.send_file until the META is answered or 30 s have passed;    *)
(* the file_sender thread goes through a snapshot of the contexts in       *)
(* _ctx_by_id and drops the finished ones; the poller goes through a       *)
(* snapshot of _files_out and reports progress and end to the user         *)
(* interface.  FileTransfer has the protocol of one transfer; here a       *)
(* transfer is answered, and ends, at some point.                          *)
(*                                                                         *)
(* A job is one context object, <<c, k>> for file k of command c.  All     *)
(* tables are keyed by the file id, name and hash, which several jobs may  *)
(* share.                                                                  *)
(***************************************************************************)
EXTENDS Integers, Sequences, FiniteSets, Functions

\* The commands the user interface sends: [kind, files], files a sequence of
\* file ids; one file in a file_send.
CONSTANT Commands

ASSUME CommandsAssumption ==
    /\ Commands \in Seq(Range(Commands))
    /\ \A c \in DOMAIN Commands :
        /\ Commands[c].kind \in {"file_send", "folder_send"}
        /\ Commands[c].files \in Seq(Range(Commands[c].files)) \ {<<>>}
        /\ Commands[c].kind = "file_send" => Len(Commands[c].files) = 1

VARIABLES
    \* --- the IPC loop ---
    ipc_pc,         \* where _on_cmd is
    cmd, file,      \* the command being run and its file
    awaited,        \* the contexts send_folder is waiting for: one or none
    \* --- shared ---
    opened,         \* contexts that exist
    registry,       \* _ctx_by_id: file id -> job
    meta_acked, finished,   \* the contexts with these flags set
    files_out,      \* _files_out: file id -> job described by the entry
    \* --- the file_sender thread and the poller ---
    pump_todo,      \* contexts of the snapshot not visited yet
    poll_pc,        \* "off", "idle", "scan", "check"
    poll_todo,      \* <<file id, job>> entries of the snapshot left
    poll_now,       \* the entry being looked at and the context found for it
    \* --- user interface ---
    told            \* for each job the events about it, repetitions left out

ipcVars == <<ipc_pc, cmd, file, awaited>>
pollVars == <<poll_pc, poll_todo, poll_now>>
vars == <<ipcVars, opened, registry, meta_acked, finished, files_out,
          pump_todo, pollVars, told>>

Jobs == UNION {{<<c, k>> : k \in DOMAIN Commands[c].files} :
                    c \in DOMAIN Commands}
FileId(job) == Commands[job[1]].files[job[2]]
Job == <<cmd, file>>

\* Mutant: one file too many.
LastFileLate == file > Len(Commands[cmd].files)
LastFile == file = Len(Commands[cmd].files)
NoEntry == <<>>

Init ==
    /\ ipc_pc = "idle" /\ cmd = 1 /\ file = 1 /\ awaited = {}
    /\ opened = {} /\ registry = [i \in {} |-> 0]
    /\ meta_acked = {} /\ finished = {}
    /\ files_out = [i \in {} |-> 0]
    /\ pump_todo = {}
    /\ poll_pc = "off" /\ poll_todo = {} /\ poll_now = NoEntry
    /\ told = [job \in Jobs |-> <<>>]

Set(f, id, job) == [i \in DOMAIN f \union {id} |->
                        IF i = id THEN job ELSE f[i]]

\* The events about a job; progress that follows progress is left out.
Tell(job, what) ==
    told' = [told EXCEPT ![job] =
                IF @ # <<>> /\ @[Len(@)] = what THEN @ ELSE Append(@, what)]

-----------------------------------------------------------------------------
(***************************************************************************)
(* The IPC loop: _on_cmd, send_folder, send_file                           *)
(***************************************************************************)
\* send_file makes a context and enters it, over any with the same id.
SendFile ==
    /\ ipc_pc = "idle"
    /\ cmd \in DOMAIN Commands
    /\ opened' = opened \union {Job}
    /\ registry' = Set(registry, FileId(Job), Job)
    /\ ipc_pc' = "wait"
    /\ UNCHANGED <<cmd, file, awaited, meta_acked, finished, files_out,
                   pump_todo, pollVars, told>>

\* A file that is gone or cannot be read: the exception ends the command.  The
\* files of the folder that were sent are in sent_list alone, which is lost.
SendFileFails ==
    /\ ipc_pc = "idle"
    /\ cmd \in DOMAIN Commands
    /\ cmd' = cmd + 1 /\ file' = 1
    /\ UNCHANGED <<ipc_pc, awaited, opened, registry, meta_acked, finished,
                   files_out, pump_todo, pollVars, told>>

\* Mutant: gives up only on a context that has been answered.
MetaTimeoutAnswered ==
    /\ ipc_pc = "wait"
    /\ Job \in meta_acked \ finished
    /\ finished' = finished \union {Job}
    /\ UNCHANGED <<ipcVars, opened, registry, meta_acked, files_out,
                   pump_todo, pollVars, told>>

\* No answer for 30 s.
MetaTimeout ==
    /\ ipc_pc = "wait"
    /\ Job \notin meta_acked \union finished
    /\ finished' = finished \union {Job}
    /\ UNCHANGED <<ipcVars, opened, registry, meta_acked, files_out,
                   pump_todo, pollVars, told>>

\* What comes after a file: the next one, or reporting them from the first.
NextFile ==
    IF LastFile THEN ipc_pc' = "assign" /\ file' = 1
                ELSE ipc_pc' = "idle" /\ file' = file + 1

\* send_file returns.  send_folder looks the context up again by its id and
\* waits for the one it finds.
SendFileReturns ==
    /\ ipc_pc = "wait"
    /\ Job \in meta_acked \union finished
    /\ IF Commands[cmd].kind = "folder_send" /\ FileId(Job) \in DOMAIN registry
       THEN /\ awaited' = {registry[FileId(Job)]}
            /\ ipc_pc' = "await"
            /\ UNCHANGED file
       ELSE /\ NextFile
            /\ UNCHANGED awaited
    /\ UNCHANGED <<cmd, opened, registry, meta_acked, finished, files_out,
                   pump_todo, pollVars, told>>

AwaitedDone == awaited \subseteq finished

FolderGoesOn ==
    /\ ipc_pc = "await"
    /\ AwaitedDone
    /\ awaited' = {}
    /\ NextFile
    /\ UNCHANGED <<cmd, opened, registry, meta_acked, finished, files_out,
                   pump_todo, pollVars, told>>

AssignFilesOut ==
    /\ ipc_pc = "assign"
    /\ files_out' = Set(files_out, FileId(Job), Job)
    /\ ipc_pc' = "emit"
    /\ UNCHANGED <<cmd, file, awaited, opened, registry, meta_acked, finished,
                   pump_todo, pollVars, told>>

\* file_tx_started; after the last file _ensure_file_poller and the answer.
EmitStarted ==
    /\ ipc_pc = "emit"
    /\ Tell(Job, "started")
    /\ IF LastFile
       THEN /\ ipc_pc' = "idle" /\ cmd' = cmd + 1 /\ file' = 1
            /\ poll_pc' = IF poll_pc = "off" THEN "idle" ELSE poll_pc
       ELSE /\ ipc_pc' = "assign" /\ file' = file + 1
            /\ UNCHANGED <<cmd, poll_pc>>
    /\ UNCHANGED <<awaited, opened, registry, meta_acked, finished, files_out,
                   pump_todo, poll_todo, poll_now>>

-----------------------------------------------------------------------------
(***************************************************************************)
(* The dispatcher: an answer is about the context its file id finds        *)
(***************************************************************************)
OnAck(id) ==
    /\ id \in DOMAIN registry
    /\ registry[id] \notin meta_acked \union finished
    /\ meta_acked' = meta_acked \union {registry[id]}
    /\ UNCHANGED <<ipcVars, opened, registry, finished, files_out, pump_todo,
                   pollVars, told>>

OnFin(id) ==
    /\ id \in DOMAIN registry
    /\ finished' = finished \union {registry[id]}
    /\ UNCHANGED <<ipcVars, opened, registry, meta_acked, files_out, pump_todo,
                   pollVars, told>>

-----------------------------------------------------------------------------
(***************************************************************************)
(* The file_sender thread: _pump                                           *)
(***************************************************************************)
PumpSnapshot ==
    /\ pump_todo = {}
    /\ DOMAIN registry # {}
    /\ pump_todo' = Range(registry)
    /\ UNCHANGED <<ipcVars, opened, registry, meta_acked, finished, files_out,
                   pollVars, told>>

\* Mutant: contexts are dropped once they are answered.
DroppableEarly(job) == job \in finished \union meta_acked
Droppable(job) == job \in finished

\* The entry is removed by its id, whichever context it holds by now.
PumpDrop(job) ==
    /\ job \in pump_todo
    /\ Droppable(job)
    /\ pump_todo' = pump_todo \ {job}
    /\ registry' = Restrict(registry, DOMAIN registry \ {FileId(job)})
    /\ UNCHANGED <<ipcVars, opened, meta_acked, finished, files_out, pollVars,
                   told>>

\* The visit of an unfinished context: chunks are sent, and it may turn out to
\* be complete or out of retries; before the META is answered only when the
\* file is empty or an answer meant for an earlier context has counted.
PumpVisit(job, ends) ==
    /\ job \in pump_todo
    /\ ~Droppable(job)
    /\ pump_todo' = pump_todo \ {job}
    /\ finished' = IF ends THEN finished \union {job} ELSE finished
    /\ UNCHANGED <<ipcVars, opened, registry, meta_acked, files_out, pollVars,
                   told>>

-----------------------------------------------------------------------------
(***************************************************************************)
(* The poller: _file_progress_poller                                       *)
(***************************************************************************)
PollSnapshot ==
    /\ poll_pc = "idle"
    /\ poll_todo' = {<<id, files_out[id]>> : id \in DOMAIN files_out}
    /\ poll_pc' = "scan"
    /\ UNCHANGED <<ipcVars, opened, registry, meta_acked, finished, files_out,
                   pump_todo, poll_now, told>>

\* An entry whose context is gone is passed over.
PollMisses(entry) ==
    /\ poll_pc = "scan"
    /\ entry \in poll_todo
    /\ entry[1] \notin DOMAIN registry
    /\ poll_todo' = poll_todo \ {entry}
    /\ UNCHANGED <<ipcVars, opened, registry, meta_acked, finished, files_out,
                   pump_todo, poll_pc, poll_now, told>>

\* file_tx_progress, with the numbers of the context found.
PollProgress(entry) ==
    /\ poll_pc = "scan"
    /\ entry \in poll_todo
    /\ entry[1] \in DOMAIN registry
    /\ poll_todo' = poll_todo \ {entry}
    /\ poll_now' = <<entry[1], entry[2], registry[entry[1]]>>
    /\ poll_pc' = "check"
    /\ Tell(entry[2], "progress")
    /\ UNCHANGED <<ipcVars, opened, registry, meta_acked, finished, files_out,
                   pump_todo>>

\* Mutant: answered is taken for finished.
ReportableEarly(job) == job \in meta_acked
Reportable(job) == job \in finished

\* file_tx_finished, always with status ok; the entry goes by its id.
PollFinished ==
    /\ poll_pc = "check"
    /\ IF Reportable(poll_now[3])
       THEN /\ Tell(poll_now[2], "finished")
            /\ files_out' = Restrict(files_out, DOMAIN files_out \ {poll_now[1]})
       ELSE UNCHANGED <<told, files_out>>
    /\ poll_now' = NoEntry
    /\ poll_pc' = "scan"
    /\ UNCHANGED <<ipcVars, opened, registry, meta_acked, finished, pump_todo,
                   poll_todo>>

PollSleeps ==
    /\ poll_pc = "scan"
    /\ poll_todo = {}
    /\ poll_pc' = "idle"
    /\ UNCHANGED <<ipcVars, opened, registry, meta_acked, finished, files_out,
                   pump_todo, poll_todo, poll_now, told>>

-----------------------------------------------------------------------------
IpcLoop == SendFile \/ SendFileFails \/ SendFileReturns \/ FolderGoesOn
           \/ AssignFilesOut \/ EmitStarted
Dispatcher == \E id \in DOMAIN registry : OnAck(id) \/ OnFin(id)
Pump == \/ PumpSnapshot
        \/ \E job \in Jobs : PumpDrop(job) \/ PumpVisit(job, FALSE)
                             \/ PumpVisit(job, TRUE)
Poller == \/ PollSnapshot \/ PollFinished \/ PollSleeps
          \/ \E entry \in poll_todo : PollMisses(entry) \/ PollProgress(entry)

Next == IpcLoop \/ MetaTimeout \/ Dispatcher \/ Pump \/ Poller

Spec == Init /\ [][Next]_vars

\* The threads keep running, the deadline of a META passes, and the pump ends
\* an answered transfer whose context it keeps visiting (SenderFinishes of
\* FileTransfer).
Fairness ==
    /\ WF_vars(IpcLoop) /\ WF_vars(MetaTimeout)
    /\ WF_vars(Pump) /\ WF_vars(Poller)
    /\ \A job \in Jobs : SF_vars(job \in meta_acked /\ PumpVisit(job, TRUE))

FairSpec == Spec /\ Fairness

-----------------------------------------------------------------------------
(***************************************************************************)
(* Properties                                                              *)
(***************************************************************************)

\* All tables refer to jobs of the commands sent so far.
TypeOK ==
    /\ ipc_pc \in {"idle", "wait", "await", "assign", "emit"}
    /\ cmd \in 1 .. Len(Commands) + 1
    /\ cmd \in DOMAIN Commands => file \in DOMAIN Commands[cmd].files
    /\ opened \subseteq Jobs /\ awaited \subseteq opened
    /\ meta_acked \subseteq opened /\ finished \subseteq opened
    /\ Range(registry) \subseteq opened /\ Range(files_out) \subseteq opened
    /\ pump_todo \subseteq opened
    /\ poll_pc \in {"off", "idle", "scan", "check"}
    /\ poll_pc = "check" <=> poll_now # NoEntry
    /\ \A job \in Jobs :
        Range(told[job]) \subseteq {"started", "progress", "finished"}

\* A transfer that has not ended can be found by its file id: answers reach it
\* and the pump visits it (add_ctx_by_id, _pump).
OpenIsRegistered ==
    \A job \in opened \ finished :
        FileId(job) \in DOMAIN registry /\ registry[FileId(job)] = job

\* The user interface hears of the end of a transfer once, after it has
\* ended, and of no progress after that (_file_progress_poller).
EndReportedOnce ==
    \A job \in Jobs : \A i \in DOMAIN told[job] :
        told[job][i] = "finished" =>
            /\ job \in finished
            /\ \A k \in i + 1 .. Len(told[job]) : told[job][k] = "started"

\* The IPC loop gets through all its commands: no transfer keeps it for ever.
CommandsAnswered == <>(cmd > Len(Commands))

\* Every transfer that was begun ends.
TransfersEnd == \A job \in Jobs : job \in opened ~> job \in finished
=============================================================================
