---------------------------- MODULE AppServerProofs ---------------------------
(***************************************************************************)
(* Theorems about AppServer: SendJobs, for any commands, and Lifecycle,    *)
(* for any number of starts and frames.                                    *)
(***************************************************************************)
EXTENDS SendJobs, Lifecycle, TLAPS

-----------------------------------------------------------------------------
(***************************************************************************)
(* SendJobs                                                                *)
(***************************************************************************)
Ids == {FileId(job) : job \in Jobs}
Events == {"started", "progress", "finished"}

\* The shape of the tables.
Shape ==
    /\ registry \in [DOMAIN registry -> opened] /\ DOMAIN registry \subseteq Ids
    /\ files_out \in [DOMAIN files_out -> opened]
    /\ DOMAIN files_out \subseteq Ids
    /\ poll_todo \subseteq Ids \X opened
    /\ poll_now # NoEntry => poll_now \in Ids \X opened \X opened
    /\ told \in [Jobs -> Seq(Events)]

\* Which contexts of the command being run exist.
Position ==
    /\ ipc_pc # "idle" => cmd \in DOMAIN Commands
    /\ cmd \notin DOMAIN Commands => file = 1
    /\ ipc_pc \in {"wait", "await"} => Job \in opened
    /\ ipc_pc \in {"idle", "wait", "await"} =>
            \A k \in 1 .. file - 1 : <<cmd, k>> \in opened
    /\ ipc_pc \in {"assign", "emit"} =>
            \A k \in DOMAIN Commands[cmd].files : <<cmd, k>> \in opened

TypeInv == TypeOK /\ Shape /\ Position

\* Each entry of a table stands under the id of its job.
Keyed ==
    /\ \A id \in DOMAIN registry : FileId(registry[id]) = id
    /\ \A id \in DOMAIN files_out : FileId(files_out[id]) = id
    /\ \A e \in poll_todo : FileId(e[2]) = e[1]
    /\ poll_now # NoEntry => /\ FileId(poll_now[2]) = poll_now[1]
                             /\ FileId(poll_now[3]) = poll_now[1]

\* The entry of the job has been made in _files_out.
Assigned(job) ==
    \/ job[1] < cmd
    \/ job[1] = cmd /\ ipc_pc = "assign" /\ job[2] < file
    \/ job[1] = cmd /\ ipc_pc = "emit" /\ job[2] <= file

Entered ==
    /\ \A id \in DOMAIN files_out : Assigned(files_out[id])
    /\ \A e \in poll_todo : Assigned(e[2])
    /\ poll_now # NoEntry => Assigned(poll_now[2])

\* The poller looks at an entry once in a round.
LookedAt ==
    poll_now # NoEntry => \A e \in poll_todo : e[2] # poll_now[2]

Reported(job) == "finished" \in Range(told[job])

\* The entry of a job that was reported is gone from every table.
Forgotten ==
    \A job \in Jobs : Reported(job) =>
        /\ Assigned(job)
        /\ \A id \in DOMAIN files_out : files_out[id] # job
        /\ \A e \in poll_todo : e[2] # job
        /\ poll_now # NoEntry => poll_now[2] # job

JobsInv == /\ TypeInv /\ Keyed /\ OpenIsRegistered
           /\ Entered /\ LookedAt /\ Forgotten /\ EndReportedOnce

\* No two files sent have one id, name and hash.
DistinctIds ==
    \A job, other \in Jobs : FileId(job) = FileId(other) => job = other

-----------------------------------------------------------------------------
\* Every command has files, and they are numbered from one.
LEMMA CommandShape ==
    /\ Len(Commands) \in Nat /\ DOMAIN Commands = 1 .. Len(Commands)
    /\ \A c \in DOMAIN Commands :
        /\ Len(Commands[c].files) \in Nat \ {0}
        /\ DOMAIN Commands[c].files = 1 .. Len(Commands[c].files)
  BY CommandsAssumption

\* A job is a file of a command.
LEMMA JobShape ==
    /\ \A c \in DOMAIN Commands : \A k \in DOMAIN Commands[c].files :
        <<c, k>> \in Jobs
    /\ \A job \in Jobs :
        /\ job = <<job[1], job[2]>>
        /\ job[1] \in DOMAIN Commands
        /\ job[2] \in DOMAIN Commands[job[1]].files
        /\ FileId(job) \in Ids
  BY DEF Jobs, Ids

\* Nothing is under way at the start.
LEMMA InitialJobs == Init => JobsInv
<1> SUFFICES ASSUME Init PROVE JobsInv
  OBVIOUS
<1> USE CommandShape DEF Init
<1>1. TypeOK
  BY DEF TypeOK, NoEntry, Range
<1>2. Shape /\ Position
  BY DEF Shape, Position, NoEntry
<1>3. Keyed /\ Entered /\ LookedAt /\ Forgotten
  BY DEF Keyed, Entered, LookedAt, Forgotten, NoEntry, Reported, Range
<1>4. OpenIsRegistered /\ EndReportedOnce
  BY DEF OpenIsRegistered, EndReportedOnce
<1> QED
  BY <1>1, <1>2, <1>3, <1>4 DEF JobsInv, TypeInv

-----------------------------------------------------------------------------
(***************************************************************************)
(* Types                                                                   *)
(***************************************************************************)
\* What is told of a job keeps its type.
LEMMA TellType ==
    ASSUME TypeInv, NEW job \in Jobs, NEW what \in Events, Tell(job, what)
    PROVE  /\ told' \in [Jobs -> Seq(Events)]
           /\ \A other \in Jobs : Range(told'[other]) \subseteq Events
<1>1. told[job] \in Seq(Events) /\ Append(told[job], what) \in Seq(Events)
  BY DEF TypeInv, Shape
<1>2. told' \in [Jobs -> Seq(Events)]
  BY <1>1 DEF Tell, TypeInv, Shape
<1> QED
  BY <1>2 DEF Range

\* The next file is one of the same command.
LEMMA NextFileType ==
    ASSUME TypeInv, NextFile, UNCHANGED cmd, cmd \in DOMAIN Commands
    PROVE  /\ file' \in DOMAIN Commands[cmd].files
           /\ ipc_pc' \in {"idle", "assign"}
           /\ ipc_pc' = "idle" => file' = file + 1
           /\ ipc_pc' = "assign" => LastFile
  BY CommandShape DEF NextFile, LastFile, TypeInv, TypeOK

\* The loop that takes the commands keeps the types.
LEMMA IpcType ==
    ASSUME TypeInv, IpcLoop
    PROVE  TypeInv'
<1> USE CommandShape DEF ipcVars, pollVars
<1>1. CASE SendFile
  <2>1. Job \in Jobs /\ FileId(Job) \in Ids
    BY <1>1, JobShape DEF SendFile, TypeInv, TypeOK, Job
  <2>2. registry' \in [DOMAIN registry' -> opened'] /\ DOMAIN registry' \subseteq Ids
    BY <1>1, <2>1 DEF SendFile, Set, TypeInv, Shape
  <2>3. Range(registry') \subseteq opened'
    BY <2>2 DEF Range
  <2>4. TypeOK'
    BY <1>1, <2>1, <2>3 DEF SendFile, TypeInv, TypeOK
  <2>5. Shape'
    BY <1>1, <2>2 DEF SendFile, TypeInv, Shape
  <2>6. Position'
    BY <1>1 DEF SendFile, TypeInv, Position, Job
  <2> QED
    BY <2>4, <2>5, <2>6 DEF TypeInv
<1>2. CASE SendFileReturns
  <2>1. cmd \in DOMAIN Commands /\ file \in DOMAIN Commands[cmd].files
    BY <1>2 DEF SendFileReturns, TypeInv, TypeOK, Position
  <2>2. awaited' \subseteq opened
    BY <1>2 DEF SendFileReturns, TypeInv, TypeOK, Range
  <2>3. \/ ipc_pc' = "await" /\ UNCHANGED file
        \/ NextFile
    BY <1>2 DEF SendFileReturns
  <2>4. TypeOK'
    BY <1>2, <2>1, <2>2, <2>3, NextFileType DEF SendFileReturns, TypeInv, TypeOK
  <2>5. Shape'
    BY <1>2 DEF SendFileReturns, TypeInv, Shape
  <2>6. \A k \in 1 .. file : <<cmd, k>> \in opened
    BY <1>2, <2>1 DEF SendFileReturns, TypeInv, Position, Job
  <2>7. Position'
    BY <1>2, <2>1, <2>3, <2>6, NextFileType
    DEF SendFileReturns, Position, Job, LastFile
  <2> QED
    BY <2>4, <2>5, <2>7 DEF TypeInv
<1>3. CASE FolderGoesOn
  <2>1. cmd \in DOMAIN Commands /\ file \in DOMAIN Commands[cmd].files
    BY <1>3 DEF FolderGoesOn, TypeInv, TypeOK, Position
  <2>4. TypeOK'
    BY <1>3, <2>1, NextFileType DEF FolderGoesOn, TypeInv, TypeOK
  <2>5. Shape'
    BY <1>3 DEF FolderGoesOn, TypeInv, Shape
  <2>6. \A k \in 1 .. file : <<cmd, k>> \in opened
    BY <1>3, <2>1 DEF FolderGoesOn, TypeInv, Position, Job
  <2>7. Position'
    BY <1>3, <2>1, <2>6, NextFileType DEF FolderGoesOn, Position, Job, LastFile
  <2> QED
    BY <2>4, <2>5, <2>7 DEF TypeInv
<1>4. CASE AssignFilesOut
  <2>1. /\ cmd \in DOMAIN Commands /\ file \in DOMAIN Commands[cmd].files
        /\ Job \in opened
    BY <1>4 DEF AssignFilesOut, TypeInv, TypeOK, Position, Job
  <2>2. FileId(Job) \in Ids
    BY <2>1, JobShape DEF Job
  <2>3. /\ files_out' \in [DOMAIN files_out' -> opened]
        /\ DOMAIN files_out' \subseteq Ids
    BY <1>4, <2>1, <2>2 DEF AssignFilesOut, Set, TypeInv, Shape
  <2>4. Range(files_out') \subseteq opened
    BY <2>3 DEF Range
  <2>5. TypeOK'
    BY <1>4, <2>4 DEF AssignFilesOut, TypeInv, TypeOK
  <2>6. Shape' /\ Position'
    BY <1>4, <2>3 DEF AssignFilesOut, TypeInv, Shape, Position
  <2> QED
    BY <2>5, <2>6 DEF TypeInv
<1>5. CASE EmitStarted
  <2>1. /\ cmd \in DOMAIN Commands /\ file \in DOMAIN Commands[cmd].files
        /\ Job \in Jobs
    BY <1>5, JobShape DEF EmitStarted, TypeInv, TypeOK, Position, Job
  <2>2. /\ told' \in [Jobs -> Seq(Events)]
        /\ \A other \in Jobs : Range(told'[other]) \subseteq Events
    BY <1>5, <2>1, TellType DEF EmitStarted, Events
  <2>3. TypeOK'
    BY SMTT(60), <1>5, <2>1, <2>2 DEF EmitStarted, LastFile, TypeInv, TypeOK, Events
  <2>4. Shape'
    BY <1>5, <2>2 DEF EmitStarted, TypeInv, Shape
  <2>5. Position'
    BY <1>5, <2>1 DEF EmitStarted, LastFile, TypeInv, TypeOK, Position, Job
  <2> QED
    BY <2>3, <2>4, <2>5 DEF TypeInv
<1>6. CASE SendFileFails
  <2>1. TypeOK'
    <3>1. cmd' \in 1 .. Len(Commands) + 1
      BY <1>6 DEF SendFileFails, TypeInv, TypeOK
    <3>2. cmd' \in DOMAIN Commands => file' \in DOMAIN Commands[cmd'].files
      BY <1>6 DEF SendFileFails
    <3> QED
      BY <1>6, <3>1, <3>2 DEF SendFileFails, TypeInv, TypeOK
  <2>2. Shape' /\ Position'
    BY <1>6 DEF SendFileFails, TypeInv, TypeOK, Shape, Position
  <2> QED
    BY <2>1, <2>2 DEF TypeInv
<1> QED
  BY <1>1, <1>2, <1>3, <1>4, <1>5, <1>6 DEF IpcLoop

\* So do the timeouts, the dispatcher and the pump.
LEMMA OthersType ==
    ASSUME TypeInv, MetaTimeout \/ Dispatcher \/ Pump
    PROVE  TypeInv'
<1> USE DEF ipcVars, pollVars
<1> DEFINE Kept ==
      /\ finished' \subseteq opened /\ meta_acked' \subseteq opened
      /\ pump_todo' \subseteq opened
      /\ registry' \in [DOMAIN registry' -> opened]
      /\ DOMAIN registry' \subseteq DOMAIN registry
      /\ UNCHANGED <<ipcVars, opened, files_out, pollVars, told>>
<1>1. Kept
  <2>1. CASE MetaTimeout
    BY <2>1 DEF MetaTimeout, TypeInv, TypeOK, Shape, Position
  <2>2. CASE Dispatcher
    BY <2>2 DEF Dispatcher, OnAck, OnFin, TypeInv, TypeOK, Shape
  <2>3. CASE PumpSnapshot
    BY <2>3 DEF PumpSnapshot, TypeInv, TypeOK, Shape
  <2>4. ASSUME NEW job \in Jobs, PumpDrop(job)
        PROVE  Kept
    BY <2>4 DEF PumpDrop, Restrict, TypeInv, TypeOK, Shape
  <2>5. ASSUME NEW job \in Jobs, NEW ends \in BOOLEAN, PumpVisit(job, ends)
        PROVE  Kept
    BY <2>5 DEF PumpVisit, TypeInv, TypeOK, Shape
  <2> QED
    BY <2>1, <2>2, <2>3, <2>4, <2>5 DEF Pump
<1>2. Range(registry') \subseteq opened
  BY <1>1 DEF Range
<1>3. TypeOK'
  BY <1>1, <1>2 DEF TypeInv, TypeOK
<1>4. Shape' /\ Position'
  BY <1>1 DEF TypeInv, Shape, Position, Job
<1> QED
  BY <1>3, <1>4 DEF TypeInv

\* And the poller.
LEMMA PollerType ==
    ASSUME TypeInv, Poller
    PROVE  TypeInv'
<1> USE DEF ipcVars, pollVars
<1>1. CASE PollSnapshot
  BY <1>1 DEF PollSnapshot, TypeInv, TypeOK, Shape, Position, Job
<1>2. CASE PollFinished
  <2>1. poll_now \in Ids \X opened \X opened /\ poll_now[2] \in Jobs
    BY <1>2 DEF PollFinished, TypeInv, TypeOK, Shape
  <2>2. /\ told' \in [Jobs -> Seq(Events)]
        /\ \A other \in Jobs : Range(told'[other]) \subseteq Events
    BY <1>2, <2>1, TellType DEF PollFinished, Events, TypeInv, TypeOK, Shape
  <2>3. /\ files_out' \in [DOMAIN files_out' -> opened]
        /\ DOMAIN files_out' \subseteq Ids
    BY <1>2 DEF PollFinished, Restrict, TypeInv, Shape
  <2>4. Range(files_out') \subseteq opened
    BY <2>3 DEF Range
  <2>5. TypeOK'
    BY <1>2, <2>2, <2>4 DEF PollFinished, TypeInv, TypeOK, Events, NoEntry
  <2>6. Shape' /\ Position'
    BY <1>2, <2>2, <2>3 DEF PollFinished, TypeInv, Shape, Position, Job, NoEntry
  <2> QED
    BY <2>5, <2>6 DEF TypeInv
<1>3. CASE PollSleeps
  BY <1>3 DEF PollSleeps, TypeInv, TypeOK, Shape, Position, Job
<1>4. ASSUME NEW entry \in poll_todo, PollMisses(entry)
      PROVE  TypeInv'
  BY <1>4 DEF PollMisses, TypeInv, TypeOK, Shape, Position, Job
<1>5. ASSUME NEW entry \in poll_todo, PollProgress(entry)
      PROVE  TypeInv'
  <2>1. /\ entry \in Ids \X opened /\ entry[2] \in Jobs
        /\ registry[entry[1]] \in opened
    BY <1>5 DEF PollProgress, TypeInv, TypeOK, Shape
  <2>2. /\ told' \in [Jobs -> Seq(Events)]
        /\ \A other \in Jobs : Range(told'[other]) \subseteq Events
    BY <1>5, <2>1, TellType DEF PollProgress, Events
  <2>3. poll_now' \in Ids \X opened \X opened /\ poll_now' # NoEntry
    BY <1>5, <2>1 DEF PollProgress, NoEntry
  <2>4. TypeOK'
    BY <1>5, <2>2, <2>3 DEF PollProgress, TypeInv, TypeOK, Events
  <2>5. Shape' /\ Position'
    BY <1>5, <2>2, <2>3 DEF PollProgress, TypeInv, Shape, Position, Job
  <2> QED
    BY <2>4, <2>5 DEF TypeInv
<1> QED
  BY <1>1, <1>2, <1>3, <1>4, <1>5 DEF Poller

\* Every step keeps the types.
LEMMA TypeStep ==
    ASSUME TypeInv, [Next]_vars
    PROVE  TypeInv'
<1>1. CASE UNCHANGED vars
  BY <1>1 DEF vars, ipcVars, pollVars, TypeInv, TypeOK, Shape, Position, Job
<1> QED
  BY <1>1, IpcType, OthersType, PollerType DEF Next

\* All tables refer to jobs of the commands sent so far, whatever the order
\* in which the threads take their turns.
THEOREM SendJobsTypeCorrect == Spec => []TypeOK
<1>1. Init => TypeInv
  BY InitialJobs DEF JobsInv
<1>2. TypeInv => TypeOK
  BY DEF TypeInv
<1> QED
  BY <1>1, <1>2, TypeStep, PTL DEF Spec

-----------------------------------------------------------------------------
(***************************************************************************)
(* Transfers that run can be found                                         *)
(***************************************************************************)
LEMMA KeyedStep ==
    ASSUME TypeInv, Keyed, [Next]_vars
    PROVE  Keyed'
<1> USE DEF Keyed, TypeInv, Shape, ipcVars, pollVars
<1>1. CASE UNCHANGED vars
  BY <1>1 DEF vars
<1>2. CASE IpcLoop
  <2>1. CASE SendFile \/ SendFileReturns \/ FolderGoesOn \/ EmitStarted
    BY <1>2, <2>1 DEF SendFile, SendFileReturns, FolderGoesOn, EmitStarted, Set
  <2>2. CASE AssignFilesOut
    BY <1>2, <2>2 DEF AssignFilesOut, Set
  <2>3. CASE SendFileFails
    BY <2>3 DEF SendFileFails
  <2> QED
    BY <1>2, <2>1, <2>2, <2>3 DEF IpcLoop
<1>3. CASE MetaTimeout \/ Dispatcher
  BY <1>3 DEF MetaTimeout, Dispatcher, OnAck, OnFin
<1>4. CASE Pump
  BY <1>4 DEF Pump, PumpSnapshot, PumpDrop, PumpVisit, Restrict
<1>5. CASE Poller
  <2>1. CASE PollSnapshot \/ PollSleeps
    BY <2>1 DEF PollSnapshot, PollSleeps
  <2>2. CASE PollFinished
    BY <2>2 DEF PollFinished, Restrict, NoEntry
  <2>3. ASSUME NEW entry \in poll_todo, PollMisses(entry) \/ PollProgress(entry)
        PROVE  Keyed'
    BY <2>3 DEF PollMisses, PollProgress
  <2> QED
    BY <1>5, <2>1, <2>2, <2>3 DEF Poller
<1> QED
  BY <1>1, <1>2, <1>3, <1>4, <1>5 DEF Next

\* No step but send_file enters a context, and none but the pump drops one.
LEMMA OpenStep ==
    ASSUME DistinctIds, TypeInv, OpenIsRegistered, [Next]_vars
    PROVE  OpenIsRegistered'
<1> USE DEF OpenIsRegistered, ipcVars, pollVars
<1>1. CASE SendFile
  <2>1. Job \in Jobs
    BY <1>1, JobShape DEF SendFile, TypeInv, TypeOK, Job
  <2>2. opened \subseteq Jobs
    BY DEF TypeInv, TypeOK
  <2> QED
    BY <1>1, <2>1, <2>2 DEF SendFile, Set, DistinctIds
<1>2. ASSUME NEW job \in Jobs, PumpDrop(job)
      PROVE  OpenIsRegistered'
  <2>1. opened \subseteq Jobs /\ job \in finished
    BY <1>2 DEF PumpDrop, Droppable, TypeInv, TypeOK
  <2> QED
    BY <1>2, <2>1 DEF PumpDrop, Restrict, DistinctIds
<1>3. ASSUME /\ UNCHANGED <<opened, registry>>
             /\ finished \subseteq finished'
      PROVE  OpenIsRegistered'
  BY <1>3
<1>4. CASE UNCHANGED vars
  BY <1>3, <1>4 DEF vars
<1>5. CASE SendFileFails \/ SendFileReturns \/ FolderGoesOn
           \/ AssignFilesOut \/ EmitStarted
  BY <1>3, <1>5 DEF SendFileFails, SendFileReturns, FolderGoesOn,
                    AssignFilesOut, EmitStarted
<1>6. CASE MetaTimeout \/ Dispatcher
  BY <1>3, <1>6 DEF MetaTimeout, Dispatcher, OnAck, OnFin
<1>7. CASE PumpSnapshot \/ \E job \in Jobs : PumpVisit(job, FALSE)
                                              \/ PumpVisit(job, TRUE)
  BY <1>3, <1>7 DEF PumpSnapshot, PumpVisit
<1>8. CASE Poller
  BY <1>3, <1>8
  DEF Poller, PollSnapshot, PollSleeps, PollFinished, PollMisses, PollProgress
<1> QED
  BY <1>1, <1>2, <1>4, <1>5, <1>6, <1>7, <1>8 DEF Next, IpcLoop, Pump

\* As long as all files sent have different ids, a transfer that has not ended
\* can be found by its id, so that answers reach it and the pump visits it.
THEOREM OpenFound ==
    ASSUME DistinctIds
    PROVE  Spec => []OpenIsRegistered
<1> DEFINE Inv == TypeInv /\ OpenIsRegistered
<1>1. Init => Inv
  BY InitialJobs DEF JobsInv
<1>2. Inv /\ [Next]_vars => Inv'
  BY DistinctIds, TypeStep, OpenStep
<1> QED
  BY <1>1, <1>2, PTL DEF Spec

-----------------------------------------------------------------------------
(***************************************************************************)
(* What the user interface is told                                         *)
(***************************************************************************)
\* What has been entered in _files_out once stays so.
LEMMA AssignedStays ==
    ASSUME TypeInv, [Next]_vars, NEW job \in Jobs, Assigned(job)
    PROVE  Assigned(job)'
<1> USE CommandShape, JobShape
        DEF Assigned, ipcVars, pollVars, TypeInv, TypeOK, Position
<1>1. CASE UNCHANGED vars
  BY <1>1 DEF vars
<1>2. CASE SendFile
  BY <1>2 DEF SendFile
<1>3. CASE SendFileReturns \/ FolderGoesOn
  <2>1. UNCHANGED cmd /\ ipc_pc \in {"wait", "await"}
    BY <1>3 DEF SendFileReturns, FolderGoesOn
  <2> QED
    BY <2>1
<1>4. CASE AssignFilesOut
  BY <1>4 DEF AssignFilesOut
<1>5. CASE EmitStarted
  BY <1>5 DEF EmitStarted, LastFile
<1>6. CASE MetaTimeout \/ Dispatcher \/ Pump
  BY <1>6 DEF MetaTimeout, Dispatcher, OnAck, OnFin, Pump, PumpSnapshot,
              PumpDrop, PumpVisit
<1>7. CASE Poller
  BY <1>7
  DEF Poller, PollSnapshot, PollSleeps, PollFinished, PollMisses, PollProgress
<1>8. CASE SendFileFails
  BY <1>8 DEF SendFileFails
<1> QED
  BY <1>1, <1>2, <1>3, <1>4, <1>5, <1>6, <1>7, <1>8 DEF Next, IpcLoop

\* What a step may tell of a job.
LEMMA ReportedBefore ==
    ASSUME TypeInv, NEW job \in Jobs, NEW what \in Events, Tell(job, what),
           NEW other \in Jobs, Reported(other)'
    PROVE  Reported(other) \/ (other = job /\ what = "finished")
<1>1. told[job] \in Seq(Events)
  BY DEF TypeInv, Shape
<1>2. told'[job] \in {told[job], Append(told[job], what)}
  BY DEF Tell, TypeInv, Shape
<1>3. Range(told'[job]) \subseteq Range(told[job]) \union {what}
  BY <1>1, <1>2 DEF Range
<1>4. other # job => told'[other] = told[other]
  BY DEF Tell, TypeInv, Shape
<1> QED
  BY <1>3, <1>4 DEF Reported
\* Steps that neither tell anything nor enter a job in a table of the poller.
LEMMA QuietStep ==
    ASSUME TypeInv, Entered, LookedAt, Forgotten, [Next]_vars,
           UNCHANGED <<files_out, poll_now, told>>, poll_todo' \subseteq poll_todo
    PROVE  Entered' /\ LookedAt' /\ Forgotten'
<1>1. \A job \in Jobs : Assigned(job) => Assigned(job)'
  BY AssignedStays
<1>2. /\ \A id \in DOMAIN files_out : files_out[id] \in Jobs
      /\ \A e \in poll_todo : e[2] \in Jobs
      /\ poll_now # NoEntry => poll_now[2] \in Jobs
  BY DEF TypeInv, TypeOK, Shape
<1>3. Entered'
  BY <1>1, <1>2 DEF Entered
<1>4. LookedAt'
  BY DEF LookedAt
<1>5. Forgotten'
  BY <1>1 DEF Forgotten, Reported
<1> QED
  BY <1>3, <1>4, <1>5

\* Every step keeps registry, reports and the poller's list in agreement.
LEMMA BooksStep ==
    ASSUME TypeInv, Keyed, Entered, LookedAt, Forgotten, [Next]_vars
    PROVE  Entered' /\ LookedAt' /\ Forgotten'
<1> USE DEF ipcVars, pollVars
<1>1. \A job \in Jobs : Assigned(job) => Assigned(job)'
  BY AssignedStays
<1>2. /\ \A id \in DOMAIN files_out : files_out[id] \in Jobs
      /\ \A e \in poll_todo : e[2] \in Jobs /\ e \in Ids \X opened
      /\ poll_now # NoEntry =>
            poll_now[2] \in Jobs /\ poll_now[3] \in Jobs
  BY DEF TypeInv, TypeOK, Shape
<1>3. ASSUME UNCHANGED <<files_out, poll_now, told>>,
             poll_todo' \subseteq poll_todo
      PROVE  Entered' /\ LookedAt' /\ Forgotten'
  BY <1>3, QuietStep
<1>4. CASE UNCHANGED vars
  BY <1>3, <1>4 DEF vars
<1>5. CASE SendFile \/ SendFileFails \/ SendFileReturns \/ FolderGoesOn
  BY <1>3, <1>5 DEF SendFile, SendFileFails, SendFileReturns, FolderGoesOn
<1>6. CASE AssignFilesOut
  <2>1. /\ Job \in Jobs /\ ~Assigned(Job) /\ Assigned(Job)'
        /\ files_out' = Set(files_out, FileId(Job), Job)
        /\ UNCHANGED <<poll_todo, poll_now, told>>
    BY <1>6, CommandShape, JobShape
    DEF AssignFilesOut, Assigned, Job, TypeInv, TypeOK, Position
  <2>2. \A id \in DOMAIN files_out' :
            files_out'[id] = Job \/ (/\ id \in DOMAIN files_out
                                     /\ files_out'[id] = files_out[id])
    BY <2>1 DEF Set
  <2>3. Entered'
    <3>1. PICK j \in Jobs : j = Job /\ Assigned(j)'
      BY <1>6, <2>1 DEF AssignFilesOut, Job, Assigned
    <3>2. \A id \in DOMAIN files_out' : files_out'[id] \in Jobs
      BY <1>2, <2>1, <2>2
    <3>3. ASSUME NEW id \in DOMAIN files_out', NEW k \in Jobs, files_out'[id] = k
          PROVE  Assigned(k)'
      <4>1. k = j \/ Assigned(k)
        BY <2>2, <3>1, <3>3 DEF Entered
      <4> QED
        BY <1>1, <3>1, <4>1
    <3> QED
      BY <1>1, <1>2, <2>1, <3>2, <3>3 DEF Entered
  <2>4. LookedAt'
    BY <2>1 DEF LookedAt
  <2>5. \A job \in Jobs : Reported(job)' => Reported(job) /\ job # Job
    BY <2>1 DEF Reported, Forgotten
  <2>6. ASSUME NEW job \in Jobs, Reported(job)'
        PROVE  /\ Assigned(job)'
               /\ \A id \in DOMAIN files_out' : files_out'[id] # job
               /\ \A e \in poll_todo' : e[2] # job
               /\ poll_now' # NoEntry => poll_now'[2] # job
    <3>1. Reported(job) /\ job # Job
      BY <2>5, <2>6
    <3> QED
      BY <1>1, <2>1, <2>2, <3>1 DEF Forgotten
  <2>7. Forgotten'
    BY <2>6 DEF Forgotten
  <2> QED
    BY <2>3, <2>4, <2>7
<1>7. CASE EmitStarted
  <2>1. /\ Job \in Jobs /\ Tell(Job, "started")
        /\ UNCHANGED <<files_out, poll_todo, poll_now>>
    BY <1>7, JobShape
    DEF EmitStarted, Job, TypeInv, TypeOK, Position
  <2>2. \A job \in Jobs : Reported(job)' => Reported(job)
    BY <2>1, ReportedBefore DEF Events
  <2>3. Entered' /\ LookedAt'
    BY <1>1, <1>2, <2>1 DEF Entered, LookedAt
  <2>4. Forgotten'
    BY <1>1, <2>1, <2>2 DEF Forgotten
  <2> QED
    BY <2>3, <2>4
<1>8. CASE MetaTimeout \/ Dispatcher \/ Pump
  BY <1>3, <1>8 DEF MetaTimeout, Dispatcher, OnAck, OnFin, Pump, PumpSnapshot,
                    PumpDrop, PumpVisit
<1>9. CASE PollSleeps \/ \E entry \in poll_todo : PollMisses(entry)
  BY <1>3, <1>9 DEF PollSleeps, PollMisses
<1>10. CASE PollSnapshot
  <2>1. /\ poll_now = NoEntry
        /\ poll_todo' = {<<id, files_out[id]>> : id \in DOMAIN files_out}
        /\ UNCHANGED <<files_out, poll_now, told>>
    BY <1>10 DEF PollSnapshot, TypeInv, TypeOK
  <2>2. Entered' /\ LookedAt'
    BY <1>1, <1>2, <2>1 DEF Entered, LookedAt
  <2>3. Forgotten'
    BY <1>1, <2>1 DEF Forgotten, Reported
  <2> QED
    BY <2>2, <2>3
<1>11. ASSUME NEW entry \in poll_todo, PollProgress(entry)
       PROVE  Entered' /\ LookedAt' /\ Forgotten'
  <2>1. /\ entry[2] \in Jobs /\ Tell(entry[2], "progress")
        /\ poll_todo' = poll_todo \ {entry}
        /\ poll_now' = <<entry[1], entry[2], registry[entry[1]]>>
        /\ UNCHANGED files_out
    BY <1>2, <1>11 DEF PollProgress
  <2>2. \A e \in poll_todo : e[2] = entry[2] => e = entry
    BY <1>2 DEF Keyed
  <2>3. \A job \in Jobs : Reported(job)' => Reported(job)
    BY <2>1, ReportedBefore DEF Events
  <2>4. Entered'
    BY <1>1, <1>2, <2>1 DEF Entered
  <2>5. LookedAt'
    BY <2>1, <2>2 DEF LookedAt
  <2>6. Forgotten'
    BY <1>1, <2>1, <2>3 DEF Forgotten
  <2> QED
    BY <2>4, <2>5, <2>6
<1>12. CASE PollFinished
  <2>1. /\ poll_now # NoEntry /\ poll_now' = NoEntry /\ poll_now[2] \in Jobs
        /\ UNCHANGED poll_todo
    BY <1>2, <1>12 DEF PollFinished, TypeInv, TypeOK
  <2>2. CASE ~Reportable(poll_now[3])
    BY <1>1, <1>2, <1>12, <2>1, <2>2
    DEF PollFinished, Entered, LookedAt, Forgotten, Reported
  <2>3. CASE Reportable(poll_now[3])
    <3>1. /\ Tell(poll_now[2], "finished")
          /\ files_out' = Restrict(files_out, DOMAIN files_out \ {poll_now[1]})
      BY <1>12, <2>3 DEF PollFinished
    <3>2. \A id \in DOMAIN files_out' :
            /\ id \in DOMAIN files_out /\ files_out'[id] = files_out[id]
            /\ files_out[id] # poll_now[2]
      BY <2>1, <3>1 DEF Restrict, Keyed
    <3>3. \A job \in Jobs : Reported(job)' => Reported(job) \/ job = poll_now[2]
      BY <2>1, <3>1, ReportedBefore DEF Events
    <3>4. Entered' /\ LookedAt'
      BY <1>1, <1>2, <2>1, <3>2 DEF Entered, LookedAt
    <3>5. Forgotten'
      BY <1>1, <2>1, <3>2, <3>3 DEF Forgotten, Entered, LookedAt
    <3> QED
      BY <3>4, <3>5
  <2> QED
    BY <2>2, <2>3
<1> QED
  BY <1>4, <1>5, <1>6, <1>7, <1>8, <1>9, <1>10, <1>11, <1>12
  DEF Next, IpcLoop, Poller

\* The end is told of a job that has ended, and nothing but its start later.
LEMMA EndStep ==
    ASSUME DistinctIds, TypeInv, Keyed, Forgotten, EndReportedOnce, [Next]_vars
    PROVE  EndReportedOnce'
<1> USE DEF ipcVars, pollVars
<1>1. finished \subseteq finished'
  BY DEF Next, vars, IpcLoop, SendFile, SendFileFails, SendFileReturns,
         FolderGoesOn, AssignFilesOut, EmitStarted, MetaTimeout, Dispatcher, OnAck, OnFin,
         Pump, PumpSnapshot, PumpDrop, PumpVisit, Poller, PollSnapshot,
         PollSleeps, PollFinished, PollMisses, PollProgress
<1>2. ASSUME UNCHANGED told PROVE EndReportedOnce'
  BY <1>1, <1>2 DEF EndReportedOnce
<1>3. ASSUME NEW job \in Jobs, NEW what \in Events, Tell(job, what),
             what = "finished" => job \in finished,
             Reported(job) => what = "started"
      PROVE  EndReportedOnce'
  <2>1. told[job] \in Seq(Events)
    BY DEF TypeInv, Shape
  <2>2. \A other \in Jobs : other # job => told'[other] = told[other]
    BY <1>3 DEF Tell, TypeInv, Shape
  <2>3. CASE told'[job] = told[job]
    BY <1>1, <2>2, <2>3 DEF EndReportedOnce
  <2>4. CASE told'[job] = Append(told[job], what)
    <3>1. ASSUME NEW i \in DOMAIN told'[job], told'[job][i] = "finished"
          PROVE  /\ job \in finished
                 /\ \A k \in i + 1 .. Len(told'[job]) : told'[job][k] = "started"
      <4>1. CASE i \in DOMAIN told[job]
        <5>1. told[job][i] = "finished"
          BY <2>1, <2>4, <3>1, <4>1
        <5>2. what = "started"
          BY <1>3, <4>1, <5>1 DEF Reported, Range
        <5> QED
          BY <2>1, <2>4, <4>1, <5>1, <5>2 DEF EndReportedOnce
      <4>2. CASE i = Len(told[job]) + 1
        BY <1>3, <2>1, <2>4, <3>1, <4>2
      <4> QED
        BY <2>1, <2>4, <3>1, <4>1, <4>2
    <3> QED
      BY <1>1, <2>2, <3>1 DEF EndReportedOnce
  <2> QED
    BY <1>3, <2>3, <2>4 DEF Tell, TypeInv, Shape
<1>4. CASE EmitStarted
  BY <1>3, <1>4, JobShape
  DEF EmitStarted, Job, TypeInv, TypeOK, Position, Events
<1>5. ASSUME NEW entry \in poll_todo, PollProgress(entry)
      PROVE  EndReportedOnce'
  BY <1>3, <1>5 DEF PollProgress, Forgotten, TypeInv, TypeOK, Shape, Events
<1>6. CASE PollFinished
  <2>1. CASE Reportable(poll_now[3])
    <3>1. /\ poll_now # NoEntry
          /\ poll_now[2] \in Jobs /\ poll_now[3] \in Jobs
      BY <1>6 DEF PollFinished, TypeInv, TypeOK, Shape
    <3>2. poll_now[2] = poll_now[3]
      BY <3>1 DEF Keyed, DistinctIds
    <3>3. Tell(poll_now[2], "finished") /\ poll_now[2] \in finished
      BY <1>6, <2>1, <3>2 DEF PollFinished, Reportable
    <3>4. ~Reported(poll_now[2])
      BY <3>1 DEF Forgotten
    <3> QED
      BY <1>3, <3>1, <3>3, <3>4 DEF Events
  <2>2. CASE ~Reportable(poll_now[3])
    BY <1>2, <1>6, <2>2 DEF PollFinished
  <2> QED
    BY <2>1, <2>2
<1>7. CASE \/ UNCHANGED vars \/ SendFile \/ SendFileFails
           \/ SendFileReturns \/ FolderGoesOn
           \/ AssignFilesOut \/ MetaTimeout \/ Dispatcher \/ Pump
           \/ PollSnapshot \/ PollSleeps
           \/ \E entry \in poll_todo : PollMisses(entry)
  BY <1>2, <1>7
  DEF vars, SendFile, SendFileFails, SendFileReturns, FolderGoesOn,
      AssignFilesOut, MetaTimeout, Dispatcher, OnAck, OnFin, Pump, PumpSnapshot, PumpDrop,
      PumpVisit, PollSnapshot, PollSleeps, PollMisses
<1> QED
  BY <1>4, <1>5, <1>6, <1>7 DEF Next, IpcLoop, Poller

\* The inductive invariant of the jobs: where each job stands in the tables
\* of the IPC loop, the pump and the poller.
THEOREM JobsInvariance ==
    ASSUME DistinctIds
    PROVE  Spec => []JobsInv
<1>1. JobsInv /\ [Next]_vars => JobsInv'
  BY DistinctIds, TypeStep, KeyedStep, OpenStep, BooksStep, EndStep DEF JobsInv
<1> QED
  BY InitialJobs, <1>1, PTL DEF Spec

\* As long as all files sent have different ids, the user interface hears of
\* the end of a transfer only after it has ended, and of no progress or
\* second end later, though the poller works on snapshots.
THEOREM EndToldOnce ==
    ASSUME DistinctIds
    PROVE  Spec => []EndReportedOnce
<1>1. JobsInv => EndReportedOnce
  BY DEF JobsInv
<1> QED
  BY JobsInvariance, DistinctIds, <1>1, PTL

-----------------------------------------------------------------------------
(***************************************************************************)
(* Lifecycle                                                               *)
(***************************************************************************)
SetUp == main = "messaging" \/ ipc # "none"

\* How far the registration of handlers has come at each stage, that the
\* handlers of FileSender are there before its META, and that the IPC server
\* is started last.
Registered ==
    /\ main \in {"files", "discovery"} => FileKinds \subseteq handlers
    /\ main = "discovery" => DiscoverKinds \subseteq handlers
    /\ SetUp /\ main # "detached"
            => FileKinds \union DiscoverKinds \union {"APP_MESSAGE"}
                    \subseteq handlers
    /\ file_sender # "none" => "ACK" \in handlers
    /\ file_sender \in {"made", "asked"} => "FILE_FIN" \in handlers
    /\ main \in {"off", "socket", "threads", "files", "discovery", "messaging"}
            => ipc = "none"

LifecycleInv == LifecycleTypeOK /\ Registered /\ NoneUnhandled

\* Nothing runs at the start.
LEMMA LifecycleInitial == LifecycleInit => LifecycleInv
  BY LifecycleAssumption
  DEF LifecycleInit, New, LifecycleInv, LifecycleTypeOK, Registered,
      NoneUnhandled, SetUp, Stages, Threads, Kinds, FileKinds, DiscoverKinds

\* What run_forever does.
LEMMA MainStep ==
    ASSUME LifecycleInv,
           Boot \/ Main \/ SetUpFails \/ StartFails \/ Stop \/ Kill
    PROVE  LifecycleInv'
<1> USE LifecycleAssumption
        DEF LifecycleInv, LifecycleTypeOK, Registered, SetUp, NoneUnhandled,
            Stages
<1>1. CASE Boot
  BY <1>1 DEF Boot, tableVars, queueVars, uiVars
<1>2. CASE StartThreads
  BY <1>2 DEF StartThreads, Threads, tableVars, queueVars, uiVars
<1>3. CASE RegisterHandlers
  <2>1. /\ FileKinds \subseteq Kinds /\ DiscoverKinds \subseteq Kinds
        /\ "APP_MESSAGE" \in Kinds
    BY DEF Kinds
  <2>2. /\ main \in {"threads", "files", "discovery"}
        /\ main' \in {"files", "discovery", "messaging"}
        /\ UNCHANGED <<procVars, file_sender, queueVars, uiVars, runs>>
    BY <1>3 DEF RegisterHandlers, Register
  <2>3. /\ handlers' \subseteq Kinds /\ handlers \subseteq handlers'
        /\ main' \in {"files", "discovery"} => FileKinds \subseteq handlers'
        /\ main' = "discovery" => DiscoverKinds \subseteq handlers'
        /\ main' = "messaging" => FileKinds \union DiscoverKinds
                                    \union {"APP_MESSAGE"} \subseteq handlers'
    BY <1>3, <2>1 DEF RegisterHandlers, Register
  <2> QED
    BY <2>2, <2>3 DEF procVars, queueVars, uiVars
<1>4. CASE StartIpc
  BY <1>4 DEF StartIpc, procVars, tableVars, queueVars
<1>5. CASE LeaveSocket
  BY <1>5 DEF LeaveSocket, tableVars, queueVars, uiVars
<1>6. CASE Shutdown
  BY <1>6 DEF Shutdown, tableVars, queueVars, uiVars
<1>7. CASE Detach
  <2>1. "ACK" \notin DiscoverKinds \union {"APP_MESSAGE"}
        /\ "FILE_FIN" \notin DiscoverKinds \union {"APP_MESSAGE"}
    BY DEF DiscoverKinds
  <2> QED
    BY <1>7, <2>1 DEF Detach, Joined, procVars, queueVars, uiVars
<1>8. CASE Exit \/ StartFails \/ Kill
  <2>1. Gone
    BY <1>8 DEF Exit, StartFails, Kill
  <2>2. /\ main' = "off" /\ thread' = [t \in Threads |-> "new"]
        /\ handlers' = {} /\ file_sender' = "none"
        /\ incoming' = <<>> /\ outgoing' = 0
        /\ ~unhandled' /\ ipc' = "none" /\ socket' = "none" /\ runs' = runs
    BY <2>1 DEF Gone, New
  <2>3. ui' # "connected"
    BY <2>1 DEF Gone
  <2>4. incoming' \in Seq(Kinds) /\ Len(incoming') <= MaxFrames
    BY <2>2
  <2> QED
    BY <2>2, <2>3, <2>4
<1>9. CASE Stop
  BY <1>9 DEF Stop, tableVars, queueVars, uiVars
<1>10. CASE SetUpFails
  BY <1>10 DEF SetUpFails, tableVars, queueVars, uiVars
<1> QED
  BY <1>1, <1>2, <1>3, <1>4, <1>5, <1>6, <1>7, <1>8, <1>9, <1>10 DEF Main

\* A thread that takes a turn was running and is so still, or has ended.
LEMMA RoundOfThread ==
    ASSUME LifecycleInv, NEW t \in Threads, NEW state \in {"running", "blocked"},
           thread[t] \in {"running", "blocked"},
           thread' = [thread EXCEPT ![t] = state] \/ Round(t, state),
           UNCHANGED main
    PROVE  /\ thread' \in [Threads -> {"new", "running", "blocked", "ended"}]
           /\ main' \in {"off", "socket"}
                <=> \A u \in Threads : thread'[u] = "new"
           /\ main' = "detached" => \A u \in Threads : thread'[u] = "ended"
  BY DEF LifecycleInv, LifecycleTypeOK, Round

\* What the threads do.
LEMMA ThreadStep ==
    ASSUME LifecycleInv,
           \/ Receive \/ Arrival \/ Dispatch \/ SendFrame \/ RunTasks
           \/ \E t \in Threads : EndThread(t)
    PROVE  LifecycleInv'
<1> USE LifecycleAssumption DEF LifecycleInv, NoneUnhandled
<1>0. {"receiver", "sender", "scheduler", "dispatcher"} \subseteq Threads
  BY DEF Threads
<1>1. CASE Receive
  BY <1>0, <1>1, RoundOfThread
  DEF Receive, LifecycleTypeOK, Registered, SetUp, tableVars, queueVars, uiVars
<1>2. CASE Arrival
  <2>1. PICK kind \in Kinds : FrameArrives(kind)
    BY <1>2 DEF Arrival
  <2>2. incoming' \in Seq(Kinds) /\ Len(incoming') <= MaxFrames
    BY <2>1 DEF FrameArrives, Queued, LifecycleTypeOK
  <2> QED
    BY <1>0, <2>1, <2>2, RoundOfThread
    DEF FrameArrives, LifecycleTypeOK, Registered, SetUp, tableVars, uiVars
<1>3. CASE Dispatch
  <2>1. /\ incoming' \in Seq(Kinds) /\ Len(incoming') <= MaxFrames
        /\ Head(incoming) \in Kinds
    BY <1>3 DEF Dispatch, LifecycleTypeOK
  <2>2. outgoing' \in 0 .. MaxFrames
    BY <1>3 DEF Dispatch, Enqueued, LifecycleTypeOK
  <2>3. main # "detached"
    BY <1>0, <1>3 DEF Dispatch, LifecycleTypeOK
  <2>4. Expected(Head(incoming)) => Head(incoming) \in handlers
    BY <2>1, <2>3 DEF Expected, Registered, SetUp, Kinds, AnswerKinds
  <2>5. ~unhandled'
    BY <1>3, <2>4 DEF Dispatch
  <2> QED
    BY <1>0, <1>3, <2>1, <2>2, <2>5, RoundOfThread
    DEF Dispatch, LifecycleTypeOK, Registered, SetUp, tableVars, uiVars
<1>4. CASE SendFrame
  <2>1. outgoing' \in 0 .. MaxFrames
    BY <1>4 DEF SendFrame, LifecycleTypeOK
  <2> QED
    BY <1>0, <1>4, <2>1, RoundOfThread
    DEF SendFrame, LifecycleTypeOK, Registered, SetUp, tableVars, uiVars
<1>5. CASE RunTasks
  <2>1. outgoing' \in 0 .. MaxFrames
    BY <1>5 DEF RunTasks, Enqueued, LifecycleTypeOK
  <2> QED
    BY <1>0, <1>5, <2>1, RoundOfThread
    DEF RunTasks, LifecycleTypeOK, Registered, SetUp, tableVars, uiVars
<1>6. CASE \E t \in Threads : EndThread(t)
  BY <1>6, RoundOfThread
  DEF EndThread, LifecycleTypeOK, Registered, SetUp, tableVars, queueVars, uiVars
<1> QED
  BY <1>1, <1>2, <1>3, <1>4, <1>5, <1>6

\* What the IPC thread and the user interface do.
LEMMA UiStep ==
    ASSUME LifecycleInv,
           Listen \/ UiConnect \/ UiRestart \/ MakeFileSender \/ SendMeta
    PROVE  LifecycleInv'
<1> USE LifecycleAssumption
        DEF LifecycleInv, LifecycleTypeOK, Registered, SetUp, NoneUnhandled
<1>1. CASE Listen \/ UiConnect \/ UiRestart
  BY <1>1 DEF Listen, UiConnect, UiRestart, procVars, tableVars, queueVars
<1>2. CASE MakeFileSender
  <2>1. "ACK" \in Kinds /\ "FILE_FIN" \in Kinds
    BY DEF Kinds, AnswerKinds
  <2> QED
    BY <1>2, <2>1
    DEF MakeFileSender, EnterHandler, procVars, queueVars, uiVars
<1>3. CASE SendMeta
  <2>1. outgoing' \in 0 .. MaxFrames
    BY <1>3 DEF SendMeta, Enqueued
  <2> QED
    BY <1>3, <2>1 DEF SendMeta, Made, procVars, uiVars
<1> QED
  BY <1>1, <1>2, <1>3

\* The inductive invariant: neither the type invariant nor NoneUnhandled is
\* inductive without the stages of the registration.
THEOREM LifecycleInvariance == LifecycleSpec => []LifecycleInv
<1>1. LifecycleInv /\ UNCHANGED lifecycleVars => LifecycleInv'
  BY DEF LifecycleInv, LifecycleTypeOK, Registered, SetUp, NoneUnhandled,
         lifecycleVars, procVars, tableVars, queueVars, uiVars
<1>2. LifecycleInv /\ [LifecycleNext]_lifecycleVars => LifecycleInv'
  BY <1>1, MainStep, ThreadStep, UiStep DEF LifecycleNext
<1> QED
  BY LifecycleInitial, <1>2, PTL DEF LifecycleSpec

\* The states of the program, its threads and its queues, through any number
\* of starts, stops and kills.
THEOREM LifecycleTypeCorrect == LifecycleSpec => []LifecycleTypeOK
  BY LifecycleInvariance, PTL DEF LifecycleInv

\* Once the server is set up, the dispatcher finds a handler for every frame
\* up to the last one it takes (run_forever, ThreadManager.stop, detach), but
\* for answers to a node that has sent no file in this run; one that has finds
\* a handler for those as well (FileSender.__init__ before _send_meta).
THEOREM EveryFrameHandled == LifecycleSpec => []NoneUnhandled
  BY LifecycleInvariance, PTL DEF LifecycleInv
=============================================================================
