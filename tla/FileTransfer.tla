---------------------------- MODULE FileTransfer ----------------------------
(***************************************************************************)
(* One file sent from one node to another over raw Ethernet frames.        *)
(*                                                                         *)
(* Sending node: the thread that calls FileSender.send_file, the           *)
(* file_sender thread that runs ThreadManager._pump every 20 ms, and the   *)
(* dispatcher that runs _on_ack and _on_fin.  They share one               *)
(* FileSendCtxSchema.  Receiving node: its dispatcher runs _on_meta and    *)
(* _on_data of FileReceiver.  A wire in each direction stands for the      *)
(* outgoing queue, the network and the incoming queue: it keeps the order  *)
(* and may drop frames (a frame with a wrong CRC is dropped as well).      *)
(*                                                                         *)
(* Time is not a variable: a timer may fire in any state, unless Prompt    *)
(* says that answers come back before that timer.  Timers of chunks fire   *)
(* oldest first.                                                           *)
(***************************************************************************)
EXTENDS Integers, Sequences, FiniteSets, SequencesExt

CONSTANTS
    Total,          \* total_chunks, 0 for an empty file
    Window,         \* window_size (16 in the code)
    MaxRetries,     \* max_retries of a chunk (10 in the code)
    MaxMetaSends,   \* METAs that fit in the 30 s deadline (about 20)
    MaxLoss,        \* bound: frames the network drops
    Faults,         \* faults of the machines that may happen, once each
    Prompt          \* timers longer than any round trip

Timers == {"meta", "deadline", "data"}
AllFaults == {"modify", "delete", "restart", "disk"}

ASSUME ConstantsAssumption ==
    /\ Total \in Nat
    /\ Window \in Nat \ {0}
    /\ MaxRetries \in Nat
    /\ MaxMetaSends \in Nat \ {0}
    /\ MaxLoss \in Nat
    /\ Faults \subseteq AllFaults
    /\ Prompt \subseteq Timers

VARIABLES
    \* --- sending node: FileSendCtxSchema and the threads using it ---
    send_pc,        \* where send_file is
    pump_pc,        \* where _pump is in its treatment of the context
    registered,     \* the context is in _ctx_by_id
    meta_acked, finished, next_to_send, last_acked, acked,
    inflight,       \* unacknowledged chunk -> number of retransmissions
    older,          \* <<i, j>> when i was last transmitted before j
    meta_sends,     \* METAs queued so far
    \* --- receiving node: FileRcvCtxSchema and the files ---
    rcv_pc,         \* "finishing" between the last _send_ack and _send_fin
    rcv_open,       \* the context is in ctx_by_id
    received, next_needed, rcv_finished,
    part,           \* what each chunk of the .part file holds
    dest,           \* what is at dest_path
    \* --- environment ---
    to_rcv, to_snd, \* the two wires
    losses,         \* frames dropped so far
    src,            \* the file on the sending node's disk
    faults,         \* faults that may still happen
    \* --- history, read by no action ---
    verdicts,       \* the ways the sender has declared the end
    held,           \* chunks that ever reached an open receiver context
    assembled       \* some receiver context held all the chunks

sendVars == <<registered, meta_acked, finished, next_to_send, last_acked,
              acked, inflight, older, meta_sends>>
rcvVars == <<rcv_pc, rcv_open, received, next_needed, rcv_finished>>
diskVars == <<part, dest>>
envVars == <<losses, src, faults>>
historyVars == <<held, assembled>>

vars == <<send_pc, pump_pc, sendVars, rcvVars, diskVars, to_rcv, to_snd,
          envVars, verdicts, historyVars>>

Chunks == 0 .. Total - 1

\* Frames to the receiver and frames to the sender.
Content == {"good", "bad"}
Status == {"ok", "error"}
FinFrame(status) == [type |-> "FILE_FIN", status |-> status]
MetaFrame == [type |-> "FILE_META"]
AckFrame(next) == [type |-> "ACK", next_needed |-> next]

FinFrames == [type : {"FILE_FIN"}, status : Status]
DataFrames == [type : {"FILE_DATA"}, idx : Chunks, content : Content]
ToReceiver == {MetaFrame} \union DataFrames \union FinFrames
ToSender == [type : {"ACK"}, next_needed : 0 .. Total] \union FinFrames

\* get_data_chunk reads the file again each time it is called.
DataChunk(i) ==
    [type |-> "FILE_DATA", idx |-> i,
     content |-> IF src = "original" THEN "good" ELSE "bad"]

\* Nothing is under way between the two nodes.
Quiet == to_rcv = <<>> /\ to_snd = <<>> /\ rcv_pc = "idle"

Init ==
    /\ send_pc = "idle" /\ pump_pc = "top"
    /\ registered = FALSE /\ meta_acked = FALSE /\ finished = FALSE
    /\ next_to_send = 0 /\ last_acked = -1 /\ acked = {}
    /\ inflight = [i \in {} |-> 0] /\ older = {} /\ meta_sends = 0
    /\ rcv_pc = "idle" /\ rcv_open = FALSE /\ received = {}
    /\ next_needed = 0 /\ rcv_finished = FALSE
    /\ part = [i \in Chunks |-> "hole"] /\ dest = "absent"
    /\ to_rcv = <<>> /\ to_snd = <<>>
    /\ losses = 0 /\ src = "original" /\ faults = Faults
    /\ verdicts = {} /\ held = {} /\ assembled = FALSE

-----------------------------------------------------------------------------
(***************************************************************************)
(* FileSender.send_file                                                    *)
(***************************************************************************)

\* The context is published before META is queued: the pump may see it first.
SendFileRegister ==
    /\ send_pc = "idle"
    /\ src # "deleted"
    /\ send_pc' = "opened"
    /\ registered' = TRUE
    /\ UNCHANGED <<pump_pc, meta_acked, finished, next_to_send, last_acked,
                   acked, inflight, older, meta_sends, rcvVars, diskVars,
                   to_rcv, to_snd, envVars, verdicts, historyVars>>

SendFileMeta ==
    /\ send_pc = "opened"
    /\ send_pc' = "wait"
    /\ to_rcv' = Append(to_rcv, MetaFrame)
    /\ meta_sends' = meta_sends + 1
    /\ UNCHANGED <<pump_pc, registered, meta_acked, finished, next_to_send,
                   last_acked, acked, inflight, older, rcvVars, diskVars,
                   to_snd, envVars, verdicts, historyVars>>

\* Mutant: only a transfer that has ended stops the METAs.
AnsweredIgnored == finished
Answered == meta_acked \/ finished

\* The loop condition, read without the lock.
SendFileCheck ==
    /\ send_pc = "wait"
    /\ send_pc' = IF Answered THEN "returned" ELSE "slept"
    /\ UNCHANGED <<pump_pc, sendVars, rcvVars, diskVars, to_rcv, to_snd,
                   envVars, verdicts, historyVars>>

\* After its sleep the loop does not look at meta_acked again.  A timer in
\* Prompt is assumed to find every answer to what was sent: they come at least
\* one round of the loop (0.02 s, against 1.5 s) before it.
TimerMayFire(timer) ==
    timer \in Prompt => Quiet /\ ~meta_acked /\ ~finished

SendFileWake(resend, giveUp) ==
    /\ send_pc = "slept"
    /\ resend => meta_sends < MaxMetaSends /\ TimerMayFire("meta")
    /\ giveUp => meta_sends = MaxMetaSends /\ TimerMayFire("deadline")
    /\ send_pc' = IF giveUp THEN "returned" ELSE "wait"
    /\ meta_sends' = IF resend THEN meta_sends + 1 ELSE meta_sends
    /\ finished' = (finished \/ giveUp)
    /\ to_rcv' = to_rcv \o (IF resend THEN <<MetaFrame>> ELSE <<>>)
                        \o (IF giveUp THEN <<FinFrame("error")>> ELSE <<>>)
    /\ verdicts' = IF giveUp THEN verdicts \union {"meta_timeout"} ELSE verdicts
    /\ UNCHANGED <<pump_pc, registered, meta_acked, next_to_send, last_acked,
                   acked, inflight, older, rcvVars, diskVars, to_snd, envVars,
                   historyVars>>

-----------------------------------------------------------------------------
(***************************************************************************)
(* The sending node's dispatcher: FileSender._on_ack and _on_fin           *)
(***************************************************************************)
Listening == registered /\ ~finished

\* Transmission order among the chunks in dom once those in marked have just
\* been sent again, in ascending order.
OlderAfter(marked, dom) ==
    {p \in dom \X dom :
        IF p[2] \in marked THEN p[1] \notin marked \/ p[1] < p[2]
                           ELSE p[1] \notin marked /\ p \in older}

\* Mutant: next_needed taken as acknowledged too.
CoveredInclusive(next) == {i \in DOMAIN inflight : i <= next}

\* Chunks an acknowledgement covers.
Covered(next) == {i \in DOMAIN inflight : i < next}

OnAck ==
    /\ to_snd # <<>>
    /\ Head(to_snd).type = "ACK"
    /\ to_snd' = Tail(to_snd)
    /\ LET next == Head(to_snd).next_needed
           left == DOMAIN inflight \ Covered(next)
       IN  IF Listening
           THEN /\ meta_acked' = (meta_acked \/ next = 0)
                /\ acked' = acked \union Covered(next)
                /\ inflight' = [i \in left |-> inflight[i]]
                /\ older' = OlderAfter({}, left)
                /\ last_acked' = IF next - 1 > last_acked THEN next - 1
                                                          ELSE last_acked
           ELSE UNCHANGED <<meta_acked, acked, inflight, older, last_acked>>
    /\ UNCHANGED <<send_pc, pump_pc, registered, finished, next_to_send,
                   meta_sends, rcvVars, diskVars, to_rcv, envVars, verdicts,
                   historyVars>>

\* Unlike _on_ack, _on_fin does not look at finished.
OnFin ==
    /\ to_snd # <<>>
    /\ Head(to_snd).type = "FILE_FIN"
    /\ to_snd' = Tail(to_snd)
    /\ finished' = (finished \/ registered)
    /\ verdicts' = IF registered
                   THEN verdicts \union
                        {IF Head(to_snd).status = "ok" THEN "fin_ok"
                                                       ELSE "fin_error"}
                   ELSE verdicts
    /\ UNCHANGED <<send_pc, pump_pc, registered, meta_acked, next_to_send,
                   last_acked, acked, inflight, older, meta_sends, rcvVars,
                   diskVars, to_rcv, envVars, historyVars>>

-----------------------------------------------------------------------------
(***************************************************************************)
(* The file_sender thread: ThreadManager._pump on this context             *)
(***************************************************************************)

PumpTop ==
    /\ pump_pc = "top"
    /\ registered
    /\ registered' = ~finished
    /\ pump_pc' = IF finished THEN "top" ELSE "window"
    /\ UNCHANGED <<send_pc, meta_acked, finished, next_to_send, last_acked,
                   acked, inflight, older, meta_sends, rcvVars, diskVars,
                   to_rcv, to_snd, envVars, verdicts, historyVars>>

\* Mutant: data goes out without waiting for the answer to META.
MayTransmitAtOnce == registered
MayTransmit == meta_acked

PumpBeforeMetaAcked ==
    /\ pump_pc = "window"
    /\ ~MayTransmit
    /\ pump_pc' = "complete"
    /\ UNCHANGED <<send_pc, sendVars, rcvVars, diskVars, to_rcv, to_snd,
                   envVars, verdicts, historyVars>>

\* Sets of inflight chunks whose timers can have run out together.
MayExpire(expired) ==
    /\ \A j \in expired : \A i \in DOMAIN inflight :
            <<i, j>> \in older => i \in expired
    /\ expired # {} /\ "data" \in Prompt => Quiet

\* Mutant: gives a chunk one retransmission less.
ExhaustedEarly(expired) == {i \in expired : inflight[i] + 1 >= MaxRetries}

Exhausted(expired) == {i \in expired : inflight[i] >= MaxRetries}
Resent(expired) == {i \in expired : \A j \in Exhausted(expired) : i < j}

\* The ways to list a set of chunks in ascending order: exactly one.
Ascending(S) == {order \in [1 .. Cardinality(S) -> S] :
                    \A a, b \in 1 .. Cardinality(S) : a < b => order[a] < order[b]}

\* The refill loop stops after n chunks: window full or no chunk left.
FillsWindow(n) ==
    /\ n > 0 => Cardinality(DOMAIN inflight) + n <= Window
    /\ \/ n = Total - next_to_send
       \/ Cardinality(DOMAIN inflight) + n >= Window

\* Mutant: records one chunk more than was sent.
RefilledInclusive(n) == next_to_send .. next_to_send + n
Refilled(n) == next_to_send .. next_to_send + n - 1

\* The chunks in order are retransmitted, up to the first exhausted one, which
\* ends the transfer; then n new chunks go out.  Retransmission does not look
\* at finished.  Reading a deleted file raises in a thread that catches
\* nothing: the thread is gone.
WindowStep(expired, order, n) ==
    LET timeout == Exhausted(expired) # {}
        sent == Resent(expired) \union Refilled(n)
        dom == DOMAIN inflight \union Refilled(n)
    IN  /\ IF timeout \/ finished THEN n = 0 ELSE FillsWindow(n)
        /\ IF src = "deleted" /\ sent # {}
           THEN /\ pump_pc' = "dead"
                /\ UNCHANGED <<finished, verdicts, inflight, older,
                               next_to_send, to_rcv>>
           ELSE /\ pump_pc' = "complete"
                /\ finished' = (finished \/ timeout)
                /\ verdicts' = IF timeout THEN verdicts \union {"timeout"}
                                          ELSE verdicts
                /\ inflight' = [i \in dom |->
                        IF i \in Resent(expired) THEN inflight[i] + 1
                        ELSE IF i \in DOMAIN inflight THEN inflight[i]
                        ELSE 0]
                /\ older' = OlderAfter(sent, dom)
                /\ next_to_send' = next_to_send + n
                /\ to_rcv' = to_rcv
                      \o [k \in 1 .. Len(order) |-> DataChunk(order[k])]
                      \o (IF timeout THEN <<FinFrame("error")>> ELSE <<>>)
                      \o [k \in 1 .. n |-> DataChunk(next_to_send + k - 1)]

\* Both loops of _pump under the lock.
PumpWindow(expired) ==
    /\ pump_pc = "window"
    /\ MayTransmit
    /\ MayExpire(expired)
    /\ \E order \in Ascending(Resent(expired)), n \in 0 .. Total - next_to_send :
            WindowStep(expired, order, n)
    /\ UNCHANGED <<send_pc, registered, meta_acked, last_acked, acked,
                   meta_sends, rcvVars, diskVars, to_snd, envVars, historyVars>>

\* Mutants: complete one chunk early, and never for a file of Total chunks.
CompletedEarly == last_acked + 2 >= Total /\ ~finished
CompletedLate == last_acked + 1 > Total /\ ~finished

\* The completion test, read without the lock, for any value of meta_acked.
Completed == last_acked + 1 >= Total /\ ~finished

PumpComplete ==
    /\ pump_pc = "complete"
    /\ IF Completed
       THEN /\ pump_pc' = "fin"
            /\ to_rcv' = Append(to_rcv, FinFrame("ok"))
            /\ verdicts' = verdicts \union {"complete"}
       ELSE /\ pump_pc' = "top"
            /\ UNCHANGED <<to_rcv, verdicts>>
    /\ UNCHANGED <<send_pc, sendVars, rcvVars, diskVars, to_snd, envVars,
                   historyVars>>

PumpSetFinished ==
    /\ pump_pc = "fin"
    /\ pump_pc' = "top"
    /\ finished' = TRUE
    /\ UNCHANGED <<send_pc, registered, meta_acked, next_to_send, last_acked,
                   acked, inflight, older, meta_sends, rcvVars, diskVars,
                   to_rcv, to_snd, envVars, verdicts, historyVars>>

-----------------------------------------------------------------------------
(***************************************************************************)
(* The receiving node's dispatcher: FileReceiver._on_meta and _on_data     *)
(***************************************************************************)
Arrives(type) ==
    /\ rcv_pc = "idle"
    /\ to_rcv # <<>>
    /\ Head(to_rcv).type = type
    /\ to_rcv' = Tail(to_rcv)

\* Mutant: a META that leaves the .part file as it is.
EmptyPartKept == part

EmptyPart == [i \in Chunks |-> "hole"]

\* Any META truncates the .part file and replaces the context by a new one.
RcvMeta ==
    /\ Arrives("FILE_META")
    /\ part' = EmptyPart
    /\ rcv_open' = (Total > 0)
    /\ received' = {} /\ next_needed' = 0 /\ rcv_finished' = FALSE
    /\ dest' = IF Total = 0 THEN "intact" ELSE dest
    /\ to_snd' = Append(to_snd, IF Total = 0 THEN FinFrame("ok")
                                             ELSE AckFrame(0))
    /\ UNCHANGED <<send_pc, pump_pc, sendVars, rcv_pc, envVars, verdicts,
                   historyVars>>

\* The disk fails, in makedirs, in open or, for an empty file, in os.replace:
\* the exception ends the handler, which has sent and entered nothing.
RcvMetaFails ==
    /\ "disk" \in faults
    /\ Arrives("FILE_META")
    /\ faults' = faults \ {"disk"}
    /\ UNCHANGED <<send_pc, pump_pc, sendVars, rcvVars, diskVars, to_snd,
                   losses, src, verdicts, historyVars>>

\* Mutant: next_needed counts the chunks received.
FirstMissingCount(from, got, to) == to = Cardinality(got)

\* next_needed moves to the first chunk at or after it that is missing.
FirstMissing(from, got, to) ==
    /\ to >= from
    /\ from .. to - 1 \subseteq got
    /\ to \notin got

RcvData ==
    /\ Arrives("FILE_DATA")
    /\ rcv_open
    /\ LET frame == Head(to_rcv)
           got == received \union {frame.idx}
           last == got = Chunks /\ ~rcv_finished
       IN  \E next \in 0 .. Total :
             /\ FirstMissing(next_needed, got, next)
             /\ part' = [part EXCEPT ![frame.idx] = frame.content]
             /\ received' = got
             /\ next_needed' = next
             /\ to_snd' = Append(to_snd, AckFrame(next))
             /\ rcv_finished' = (rcv_finished \/ last)
             /\ rcv_pc' = IF last THEN "finishing" ELSE "idle"
             /\ held' = held \union {frame.idx}
             /\ assembled' = (assembled \/ got = Chunks)
    /\ UNCHANGED <<send_pc, pump_pc, sendVars, rcv_open, dest, envVars,
                   verdicts>>

\* The disk fails in open or write of the .part file, which stays as it is:
\* the exception ends the handler without an answer.
RcvDataFails ==
    /\ "disk" \in faults
    /\ Arrives("FILE_DATA")
    /\ rcv_open
    /\ faults' = faults \ {"disk"}
    /\ UNCHANGED <<send_pc, pump_pc, sendVars, rcvVars, diskVars, to_snd,
                   losses, src, verdicts, historyVars>>

\* A chunk without a context is dropped without an answer.
RcvDataUnknown ==
    /\ Arrives("FILE_DATA")
    /\ ~rcv_open
    /\ UNCHANGED <<send_pc, pump_pc, sendVars, rcvVars, diskVars, to_snd,
                   envVars, verdicts, historyVars>>

\* What moving the .part file into place would store, and the hash test.
Assembly == IF \A i \in Chunks : part[i] = "good" THEN "intact" ELSE "corrupt"

\* Mutant: the hash is not compared.
HashIgnored == Assembly \in {"intact", "corrupt"}
HashMatches == Assembly = "intact"

\* The end of _on_data, after the last acknowledgement has been queued.
RcvFinish ==
    /\ rcv_pc = "finishing"
    /\ rcv_pc' = "idle"
    /\ IF HashMatches
       THEN /\ dest' = Assembly
            /\ part' = EmptyPart
            /\ to_snd' = Append(to_snd, FinFrame("ok"))
       ELSE /\ to_snd' = Append(to_snd, FinFrame("error"))
            /\ UNCHANGED diskVars
    /\ rcv_open' = FALSE
    /\ received' = {} /\ next_needed' = 0 /\ rcv_finished' = FALSE
    /\ UNCHANGED <<send_pc, pump_pc, sendVars, to_rcv, envVars, verdicts,
                   historyVars>>

\* Hashing or os.replace raises: the context stays, marked finished.
RcvFinishFails ==
    /\ "disk" \in faults
    /\ rcv_pc = "finishing"
    /\ rcv_pc' = "idle"
    /\ faults' = faults \ {"disk"}
    /\ UNCHANGED <<send_pc, pump_pc, sendVars, rcv_open, received,
                   next_needed, rcv_finished, diskVars, to_rcv, to_snd,
                   losses, src, verdicts, historyVars>>

\* The receiver has no handler that knows the transfer a FIN is about.
RcvFin ==
    /\ Arrives("FILE_FIN")
    /\ UNCHANGED <<send_pc, pump_pc, sendVars, rcvVars, diskVars, to_snd,
                   envVars, verdicts, historyVars>>

-----------------------------------------------------------------------------
(***************************************************************************)
(* Network and machines                                                    *)
(***************************************************************************)
LoseToReceiver ==
    /\ losses < MaxLoss
    /\ losses' = losses + 1
    /\ \E k \in 1 .. Len(to_rcv) : to_rcv' = RemoveAt(to_rcv, k)
    /\ UNCHANGED <<send_pc, pump_pc, sendVars, rcvVars, diskVars, to_snd, src,
                   faults, verdicts, historyVars>>

LoseToSender ==
    /\ losses < MaxLoss
    /\ losses' = losses + 1
    /\ \E k \in 1 .. Len(to_snd) : to_snd' = RemoveAt(to_snd, k)
    /\ UNCHANGED <<send_pc, pump_pc, sendVars, rcvVars, diskVars, to_rcv, src,
                   faults, verdicts, historyVars>>

\* The user changes or deletes the file while it is being sent.
SourceChanges(fault, content) ==
    /\ fault \in faults
    /\ send_pc # "idle"
    /\ src = "original"
    /\ src' = content
    /\ faults' = faults \ {fault}
    /\ UNCHANGED <<send_pc, pump_pc, sendVars, rcvVars, diskVars, to_rcv,
                   to_snd, losses, verdicts, historyVars>>

\* The receiving program restarts: contexts and queues are lost, files stay.
RestartReceiver ==
    /\ "restart" \in faults
    /\ faults' = faults \ {"restart"}
    /\ rcv_pc' = "idle" /\ rcv_open' = FALSE /\ received' = {}
    /\ next_needed' = 0 /\ rcv_finished' = FALSE
    /\ to_rcv' = <<>>
    /\ \E k \in 0 .. Len(to_snd) : to_snd' = SubSeq(to_snd, 1, k)
    /\ UNCHANGED <<send_pc, pump_pc, sendVars, diskVars, losses, src, verdicts,
                   historyVars>>

-----------------------------------------------------------------------------
SendFile == \/ SendFileRegister \/ SendFileMeta \/ SendFileCheck
            \/ \E resend, giveUp \in BOOLEAN : SendFileWake(resend, giveUp)

SenderDispatcher == OnAck \/ OnFin

Pump == \/ PumpTop \/ PumpBeforeMetaAcked \/ PumpComplete \/ PumpSetFinished
        \/ \E expired \in SUBSET DOMAIN inflight : PumpWindow(expired)

Receiver == \/ RcvMeta \/ RcvMetaFails
            \/ RcvData \/ RcvDataFails \/ RcvDataUnknown
            \/ RcvFinish \/ RcvFinishFails \/ RcvFin

Environment == \/ LoseToReceiver \/ LoseToSender \/ RestartReceiver
               \/ SourceChanges("modify", "modified")
               \/ SourceChanges("delete", "deleted")

Next == SendFile \/ SenderDispatcher \/ Pump \/ Receiver \/ Environment

Spec == Init /\ [][Next]_vars

\* Threads keep running and frames that are not dropped get through; a timer
\* that stays due fires.
Fairness ==
    /\ WF_vars(SendFile)
    /\ SF_vars(SendFileWake(TRUE, FALSE))
    /\ SF_vars(SendFileWake(FALSE, TRUE))
    /\ WF_vars(SenderDispatcher)
    /\ WF_vars(Receiver)
    /\ WF_vars(Pump)
    /\ SF_vars(\E expired \in SUBSET DOMAIN inflight :
                    expired # {} /\ PumpWindow(expired))

FairSpec == Spec /\ Fairness

-----------------------------------------------------------------------------
(***************************************************************************)
(* Properties                                                              *)
(***************************************************************************)

\* Every variable of the two contexts, the files and the wires has its type.
TypeOK ==
    /\ send_pc \in {"idle", "opened", "wait", "slept", "returned"}
    /\ pump_pc \in {"top", "window", "complete", "fin", "dead"}
    /\ registered \in BOOLEAN /\ meta_acked \in BOOLEAN /\ finished \in BOOLEAN
    /\ next_to_send \in 0 .. Total
    /\ last_acked \in -1 .. Total - 1
    /\ acked \subseteq Chunks
    /\ DOMAIN inflight \subseteq Chunks
    /\ \A i \in DOMAIN inflight : inflight[i] \in 0 .. MaxRetries
    /\ older \subseteq Chunks \X Chunks
    /\ meta_sends \in Nat
    /\ rcv_pc \in {"idle", "finishing"}
    /\ rcv_open \in BOOLEAN /\ rcv_finished \in BOOLEAN
    /\ received \subseteq Chunks
    /\ next_needed \in 0 .. Total
    /\ part \in [Chunks -> {"hole"} \union Content]
    /\ dest \in {"absent", "intact", "corrupt"}
    /\ to_rcv \in Seq(ToReceiver) /\ to_snd \in Seq(ToSender)
    /\ losses \in 0 .. MaxLoss
    /\ src \in {"original", "modified", "deleted"}
    /\ faults \subseteq AllFaults
    /\ verdicts \subseteq {"complete", "timeout", "meta_timeout", "fin_ok",
                           "fin_error"}
    /\ held \subseteq Chunks /\ assembled \in BOOLEAN

\* The sender forgets no chunk: what was sent is either acknowledged or in
\* flight, never both, and the window is respected (_on_ack, _refill_window).
WindowExact ==
    /\ acked = 0 .. last_acked
    /\ DOMAIN inflight = last_acked + 1 .. next_to_send - 1
    /\ next_to_send - (last_acked + 1) <= Window

\* A chunk the sender counts as acknowledged did reach the receiver, through
\* lost frames, repeated METAs and a restart (_on_ack, _on_data).
AckSound == 0 .. last_acked \subseteq held

\* The receiver's bookkeeping tells the truth about the .part file, also after
\* a META that arrives in the middle of the data (_on_meta, _on_data).
ContextMatchesPart ==
    rcv_open => /\ received = {i \in Chunks : part[i] # "hole"}
                /\ 0 .. next_needed - 1 \subseteq received
                /\ next_needed \notin received

\* A file that changes on the sender's disk, a restart or a failing disk never
\* put a wrong file at the destination (hash test of _on_data).
DestNeverCorrupt == dest # "corrupt"

\* When the receiver's FIN told the sender ok, the file is at its destination
\* (order of os.replace and _send_fin in _on_data and _on_meta).
OkFinMeansStored == "fin_ok" \in verdicts => dest = "intact"

\* Both: what lies at the destination is the file, and a sender that was told
\* so by the receiver can rely on it.
DestinationSound == DestNeverCorrupt /\ OkFinMeansStored

\* A META on its way that will find data, in the context or on the wire.
Late(b) ==
    /\ to_rcv[b].type = "FILE_META"
    /\ \/ received # {}
       \/ \E a \in 1 .. b - 1 : to_rcv[a].type = "FILE_DATA"

\* The answer that comes between send_file's look at meta_acked and its next
\* META lets data out before that META, which then replaces the context of a
\* running transfer.  It happens once at most: send_file looks again before
\* any other META (send_file, _on_meta).
OneLateMeta ==
    \A b \in 1 .. Len(to_rcv) : Late(b) =>
        /\ send_pc \in {"wait", "returned"} /\ meta_acked
        /\ \A c \in 1 .. Len(to_rcv) : Late(c) => c = b

\* The transfer implements what a transfer promises.
Delivery == INSTANCE FileDelivery
    WITH confirmed <- last_acked + 1,
         stored <- (dest = "intact"),
         claimed <- ("complete" \in verdicts)

ImplementsDelivery == Delivery!Spec

\* Every transfer comes to an end at the sender, and its context leaves the
\* registry, whatever is lost or fails (retry limit, META deadline, completion
\* test).
SenderFinishes == send_pc = "opened" ~> finished /\ ~registered

MachineFailed == faults # Faults

\* With answers faster than the timers and fewer losses than retries, the file
\* arrives, unless a machine fails (_retransfer_expired, META retry of
\* send_file).
Delivered == send_pc = "opened" ~> dest = "intact" \/ MachineFailed

\* One lost frame, whichever it is, does not keep the sender from learning
\* that the transfer succeeded.
SuccessReported ==
    send_pc = "opened" ~> \/ verdicts \intersect {"complete", "fin_ok"} # {}
                          \/ losses > 1 \/ MachineFailed

\* A transfer the sender declares complete ends with the file stored, unless a
\* machine fails: the last acknowledgement is queued before the hash test and
\* os.replace.
ClaimedIsStored ==
    "complete" \in verdicts ~> dest = "intact" \/ MachineFailed
=============================================================================
