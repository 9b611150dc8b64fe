------------------------------ MODULE Lifecycle ------------------------------
(***************************************************************************)
(* The backend from its start to its end, and again: AppServer.run_forever *)
(* opens the raw socket, starts the threads, then registers what handles   *)
(* the frames, starts the IPC server and waits for stop; on its way out it *)
(* closes the socket, joins the threads and takes the handlers away.  The  *)
(* receiver thread can only be joined once recvfrom has returned.  The     *)
(* handlers for the answers to a file come later, from the IPC thread,     *)
(* which makes the FileSender with the first command that sends a file.    *)
(*                                                                         *)
(* The container is restarted whenever the program ends.  The user         *)
(* interface waits for the backend's UDS socket to answer; its connection  *)
(* ends with the backend and it has to be started again.                   *)
(***************************************************************************)
EXTENDS Integers, Sequences

CONSTANTS
    MaxRuns,        \* bound: starts of the backend
    MaxFrames       \* bound: frames in a queue; what comes on top is lost

ASSUME LifecycleAssumption == MaxRuns \in Nat /\ MaxFrames \in Nat \ {0}

\* What FileReceiver handles, what FileSender, and what Discovery.
FileKinds == {"FILE_META", "FILE_DATA"}
AnswerKinds == {"ACK", "FILE_FIN"}
DiscoverKinds == {"DISCOVER_REQUEST", "DISCOVER_REPLY"}
Kinds == FileKinds \union AnswerKinds \union DiscoverKinds
            \union {"APP_MESSAGE"}

Threads == {"receiver", "sender", "scheduler", "dispatcher", "file_sender"}

VARIABLES
    main,           \* how far run_forever is
    stop_evt,       \* AppServer._stop_evt
    shutdown,       \* ThreadManager._shutdown_event
    socket,         \* the raw socket: "none", "open", "closed"
    thread,         \* "new", "running", "blocked" in recvfrom, "ended"
    handlers,       \* _message_handlers: kinds that have one
    scheduled,      \* the discover task is in _scheduled_tasks
    incoming,       \* _incoming_queue, as kinds
    outgoing,       \* _outgoing_queue, as a number
    unhandled,      \* history: the dispatcher found no handler in this run
    file_sender,    \* "none", "acks" and "made" as its handlers are entered,
                    \* "asked" from its first META on
    ipc,            \* the IPC server: "none", "starting", "listening"
    socket_file,    \* its socket file is on disk
    ui,             \* the user interface: "waiting", "connected", "lost"
    runs

procVars == <<stop_evt, shutdown, socket, thread>>
tableVars == <<handlers, scheduled, file_sender>>
queueVars == <<incoming, outgoing, unhandled>>
uiVars == <<ipc, socket_file, ui>>
lifecycleVars == <<main, procVars, tableVars, queueVars, uiVars, runs>>

\* run_forever from its first line to its last.
Stages == {"off", "socket", "threads", "files", "discovery", "messaging",
           "serving", "closed", "joining", "detached"}

New == [t \in Threads |-> "new"]

LifecycleInit ==
    /\ main = "off" /\ runs = 0
    /\ stop_evt = FALSE /\ shutdown = FALSE
    /\ socket = "none" /\ thread = New
    /\ handlers = {} /\ scheduled = FALSE /\ file_sender = "none"
    /\ incoming = <<>> /\ outgoing = 0 /\ unhandled = FALSE
    /\ ipc = "none" /\ socket_file = FALSE /\ ui = "waiting"

-----------------------------------------------------------------------------
(***************************************************************************)
(* run_forever                                                             *)
(***************************************************************************)
\* SocketManager.__enter__; it may raise, and the program ends at once.
Boot ==
    /\ main = "off" /\ runs < MaxRuns
    /\ runs' = runs + 1
    /\ \/ main' = "socket" /\ socket' = "open"
       \/ UNCHANGED <<main, socket>>
    /\ UNCHANGED <<stop_evt, shutdown, thread, tableVars, queueVars, uiVars>>

StartThreads ==
    /\ main = "socket" /\ main' = "threads"
    /\ thread' = [t \in Threads |-> "running"]
    /\ UNCHANGED <<stop_evt, shutdown, socket, tableVars, queueVars, uiVars,
                   runs>>

\* FileReceiver, then Discovery.attach, then Messaging.attach.
Register(from, to, kinds) ==
    /\ main = from /\ main' = to
    /\ handlers' = handlers \union kinds
    /\ scheduled' = (scheduled \/ kinds = DiscoverKinds)
    /\ UNCHANGED <<procVars, file_sender, queueVars, uiVars, runs>>

RegisterHandlers ==
    \/ Register("threads", "files", FileKinds)
    \/ Register("files", "discovery", DiscoverKinds)
    \/ Register("discovery", "messaging", {"APP_MESSAGE"})

StartIpc ==
    /\ main = "messaging" /\ main' = "serving"
    /\ ipc' = "starting"
    /\ UNCHANGED <<procVars, tableVars, queueVars, socket_file, ui, runs>>

\* A directory that cannot be made, for the files or for the UDS socket: the
\* exception leaves the with block, as a stop does.
SetUpFails ==
    /\ main \in {"threads", "messaging"} /\ main' = "closed"
    /\ socket' = "closed"
    /\ UNCHANGED <<stop_evt, shutdown, thread, tableVars, queueVars, uiVars,
                   runs>>

\* stop(), from a signal, at any point.
Stop ==
    /\ main # "off" /\ ~stop_evt
    /\ stop_evt' = TRUE
    /\ UNCHANGED <<main, shutdown, socket, thread, tableVars, queueVars,
                   uiVars, runs>>

\* Mutant: the wait for the event never ends.
NotStopped == FALSE
Stopped == stop_evt

LeaveSocket ==
    /\ main = "serving" /\ Stopped
    /\ main' = "closed"
    /\ socket' = "closed"
    /\ UNCHANGED <<stop_evt, shutdown, thread, tableVars, queueVars, uiVars,
                   runs>>

\* th_mgr.stop: first the event, then the joins.
Shutdown ==
    /\ main = "closed" /\ main' = "joining"
    /\ shutdown' = TRUE
    /\ UNCHANGED <<stop_evt, socket, thread, tableVars, queueVars, uiVars,
                   runs>>

\* Mutant: the threads are not joined.
JoinedAtOnce == shutdown
Joined == \A t \in Threads : thread[t] = "ended"

\* Discovery.detach and Messaging.detach, after the joins.  The task stays:
\* a bound method "is not" the one that was entered.
Detach ==
    /\ main = "joining" /\ Joined
    /\ main' = "detached"
    /\ handlers' = handlers \ (DiscoverKinds \union {"APP_MESSAGE"})
    /\ UNCHANGED <<procVars, scheduled, file_sender, queueVars, uiVars, runs>>

\* The process is gone, with its threads and connections.
Gone ==
    /\ main' = "off" /\ stop_evt' = FALSE /\ shutdown' = FALSE
    /\ socket' = "none" /\ thread' = New
    /\ handlers' = {} /\ scheduled' = FALSE /\ file_sender' = "none"
    /\ incoming' = <<>> /\ outgoing' = 0 /\ unhandled' = FALSE
    /\ ipc' = "none"
    /\ ui' = IF ui = "connected" THEN "lost" ELSE ui
    /\ UNCHANGED runs

\* ipc.stop, if there is a server, is handed to the loop of a daemon thread:
\* it may be too late to remove the file.
Exit ==
    /\ main = "detached" /\ Gone
    /\ socket_file' \in {socket_file, socket_file /\ ipc = "none"}

\* No usable key: there is no ThreadManager yet.
StartFails == main = "socket" /\ Gone /\ UNCHANGED socket_file

\* docker stop, after ten seconds.
Kill == main # "off" /\ stop_evt /\ Gone /\ UNCHANGED socket_file

-----------------------------------------------------------------------------
(***************************************************************************)
(* The threads                                                             *)
(***************************************************************************)
\* A thread looks at _shutdown_event between two rounds.
Round(t, state) == thread' = [thread EXCEPT ![t] =
                                IF shutdown THEN "ended" ELSE state]

Queued(kind) == IF Len(incoming) < MaxFrames THEN Append(incoming, kind)
                                             ELSE incoming
Enqueued == IF outgoing < MaxFrames THEN outgoing + 1 ELSE outgoing

\* recvfrom on a socket that is closed raises at once, and the thread looks
\* at the event again.
Receive ==
    /\ thread["receiver"] = "running" /\ socket = "open"
    /\ thread' = [thread EXCEPT !["receiver"] = "blocked"]
    /\ UNCHANGED <<main, stop_evt, shutdown, socket, tableVars, queueVars,
                   uiVars, runs>>

\* A thread that is inside recvfrom keeps the socket alive.
FrameArrives(kind) ==
    /\ thread["receiver"] = "blocked"
    /\ incoming' = Queued(kind)
    /\ Round("receiver", "running")
    /\ UNCHANGED <<main, stop_evt, shutdown, socket, tableVars, outgoing,
                   unhandled, uiVars, runs>>

\* The server is set up, and answers are due from the first META on.
Expected(kind) ==
    /\ main = "messaging" \/ ipc # "none"
    /\ kind \in AnswerKinds => file_sender = "asked"

Dispatch ==
    /\ thread["dispatcher"] = "running" /\ incoming # <<>>
    /\ incoming' = Tail(incoming)
    /\ unhandled' = (unhandled \/ /\ Expected(Head(incoming))
                                  /\ Head(incoming) \notin handlers)
    /\ outgoing' = IF Head(incoming) \in handlers \cap {"DISCOVER_REQUEST"}
                   THEN Enqueued ELSE outgoing
    /\ Round("dispatcher", "running")
    /\ UNCHANGED <<main, stop_evt, shutdown, socket, tableVars, uiVars, runs>>

\* With the socket closed the frame is lost.
SendFrame ==
    /\ thread["sender"] = "running" /\ outgoing > 0
    /\ outgoing' = outgoing - 1
    /\ Round("sender", "running")
    /\ UNCHANGED <<main, stop_evt, shutdown, socket, tableVars, incoming,
                   unhandled, uiVars, runs>>

RunTasks ==
    /\ thread["scheduler"] = "running" /\ scheduled
    /\ outgoing' = Enqueued
    /\ Round("scheduler", "running")
    /\ UNCHANGED <<main, stop_evt, shutdown, socket, tableVars, incoming,
                   unhandled, uiVars, runs>>

\* Nothing to do: get and wait time out.
EndThread(t) ==
    /\ thread[t] = "running" /\ shutdown
    /\ Round(t, "running")
    /\ UNCHANGED <<main, stop_evt, shutdown, socket, tableVars, queueVars,
                   uiVars, runs>>

-----------------------------------------------------------------------------
(***************************************************************************)
(* The IPC thread and the user interface                                   *)
(***************************************************************************)
\* Mutant: a file that was left is in the way.
CanBindFresh == ~socket_file
CanBind == TRUE

\* A file left by an earlier run is removed first.
Listen ==
    /\ ipc = "starting" /\ CanBind
    /\ ipc' = "listening" /\ socket_file' = TRUE
    /\ UNCHANGED <<main, procVars, tableVars, queueVars, ui, runs>>

\* open_unix_connection, tried again and again.
UiConnect ==
    /\ ui = "waiting" /\ socket_file /\ ipc = "listening"
    /\ ui' = "connected"
    /\ UNCHANGED <<main, procVars, tableVars, queueVars, ipc,
                   socket_file, runs>>

UiRestart ==
    /\ ui = "lost" /\ ui' = "waiting"
    /\ UNCHANGED <<main, procVars, tableVars, queueVars, ipc,
                   socket_file, runs>>

\* The first file_send or folder_send: FileSender.__init__ enters a handler,
EnterHandler(from, to, kind) ==
    /\ file_sender = from /\ file_sender' = to
    /\ handlers' = handlers \union {kind}
    /\ UNCHANGED <<main, procVars, scheduled, queueVars, uiVars, runs>>

MakeFileSender ==
    \/ /\ ipc = "listening" /\ ui = "connected"
       /\ EnterHandler("none", "acks", "ACK")
    \/ EnterHandler("acks", "made", "FILE_FIN")

\* Mutant: the META is queued when one handler is entered.
MadeEarly == file_sender = "acks"
Made == file_sender = "made"

\* and send_file queues the META.
SendMeta ==
    /\ Made /\ file_sender' = "asked"
    /\ outgoing' = Enqueued
    /\ UNCHANGED <<main, procVars, handlers, scheduled, incoming, unhandled,
                   uiVars, runs>>

Main == \/ StartThreads \/ RegisterHandlers \/ StartIpc \/ LeaveSocket
        \/ Shutdown \/ Detach \/ Exit

Arrival == \E kind \in Kinds : FrameArrives(kind)

LifecycleNext ==
    \/ Boot \/ Main \/ SetUpFails \/ StartFails \/ Stop \/ Kill
    \/ Receive \/ Arrival \/ Dispatch \/ SendFrame \/ RunTasks
    \/ \E t \in Threads : EndThread(t)
    \/ Listen \/ UiConnect \/ UiRestart \/ MakeFileSender \/ SendMeta

\* Threads run; the other nodes send a request every five seconds.
LifecycleSpec ==
    /\ LifecycleInit /\ [][LifecycleNext]_lifecycleVars
    /\ WF_lifecycleVars(Main) /\ WF_lifecycleVars(Listen)
    /\ WF_lifecycleVars(UiConnect) /\ WF_lifecycleVars(Arrival)
    /\ \A t \in Threads : WF_lifecycleVars(EndThread(t))

-----------------------------------------------------------------------------
(***************************************************************************)
(* Properties                                                              *)
(***************************************************************************)
\* The states of the program, its threads and its queues; what is taken away
\* on the way out is taken from threads that have ended.
LifecycleTypeOK ==
    /\ thread \in [Threads -> {"new", "running", "blocked", "ended"}]
    /\ main \in {"off", "socket"} <=> \A t \in Threads : thread[t] = "new"
    /\ main = "detached" => \A t \in Threads : thread[t] = "ended"
    /\ main \in Stages /\ socket \in {"none", "open", "closed"}
    /\ handlers \subseteq Kinds
    /\ incoming \in Seq(Kinds) /\ Len(incoming) <= MaxFrames
    /\ outgoing \in 0 .. MaxFrames /\ runs \in 0 .. MaxRuns
    /\ ui = "connected" => socket_file /\ ipc = "listening"
    /\ file_sender \in {"none", "acks", "made", "asked"}

\* From the moment the server is set up to the last frame the dispatcher takes
\* on its way out, no frame finds its handler missing, but for an ACK or a
\* FILE_FIN to a node that has not sent a file in this run: a mere receiver
\* has none for them, a sender has both before its first META can be answered
\* (run_forever registers late and detaches after the joins).
NoneUnhandled == ~unhandled

\* A stop always ends the program: every thread can be joined, the receiver
\* that sits in recvfrom too, as long as other nodes send.
StopEnds == stop_evt ~> main = "off"

\* A user interface that waits is connected in the end, if the backend goes
\* on serving, whatever file an earlier run has left.
UiServed ==
    (ui = "waiting" /\ main = "serving") ~> (ui = "connected" \/ main # "serving")
=============================================================================
