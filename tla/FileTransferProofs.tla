------------------------- MODULE FileTransferProofs -------------------------
(***************************************************************************)
(* Theorems about FileTransfer, for every number of chunks, window, retry  *)
(* limit, number of lost frames and set of faults.                         *)
(***************************************************************************)
EXTENDS FileTransfer, FiniteSetTheorems, SequenceTheorems, TLAPS

-----------------------------------------------------------------------------
(***************************************************************************)
(* Wires: what the operations on sequences keep                            *)
(***************************************************************************)

\* The head and the tail of a wire carry only what the wire carried.
LEMMA HeadTailSeq ==
    ASSUME NEW S, NEW s \in Seq(S), s # <<>>
    PROVE  Head(s) \in S /\ Tail(s) \in Seq(S)
  OBVIOUS

\* A frame queued behind others.
LEMMA AppendSeq ==
    ASSUME NEW S, NEW s \in Seq(S), NEW e \in S
    PROVE  Append(s, e) \in Seq(S)
  OBVIOUS

\* Several frames queued behind others.
LEMMA ConcatSeq ==
    ASSUME NEW S, NEW s \in Seq(S), NEW t \in Seq(S)
    PROVE  s \o t \in Seq(S)
  OBVIOUS

\* A prefix of a wire, what is left of a queue when its owner restarts.
LEMMA PrefixSeq ==
    ASSUME NEW S, NEW s \in Seq(S), NEW k \in 0 .. Len(s)
    PROVE  SubSeq(s, 1, k) \in Seq(S)
  OBVIOUS

\* A wire that lost one frame.
LEMMA RemoveAtSeq ==
    ASSUME NEW S, NEW s \in Seq(S), NEW k \in 1 .. Len(s)
    PROVE  RemoveAt(s, k) \in Seq(S)
<1>1. SubSeq(s, 1, k - 1) \in Seq(S) /\ SubSeq(s, k + 1, Len(s)) \in Seq(S)
  OBVIOUS
<1> QED  BY <1>1, ConcatSeq DEF RemoveAt

\* A wire of frames of one kind is a wire of any larger kind.
LEMMA SeqMono ==
    ASSUME NEW S, NEW T, S \subseteq T, NEW s \in Seq(S)
    PROVE  s \in Seq(T)
<1>1. s \in [1 .. Len(s) -> T] /\ Len(s) \in Nat
  OBVIOUS
<1> QED  BY <1>1

-----------------------------------------------------------------------------
(***************************************************************************)
(* Types                                                                   *)
(***************************************************************************)

\* The frames the program builds are frames of the wires.
LEMMA FrameTypes ==
    /\ MetaFrame \in ToReceiver
    /\ \A i \in Chunks : DataChunk(i) \in ToReceiver
    /\ \A status \in Status : FinFrame(status) \in ToReceiver \intersect ToSender
    /\ \A n \in 0 .. Total : AckFrame(n) \in ToSender
  BY DEF ToReceiver, ToSender, MetaFrame, DataChunk, FinFrame, AckFrame,
         DataFrames, FinFrames, Content, Status, Chunks

\* What a frame taken from a wire holds, by its type.
LEMMA FrameFields ==
    /\ \A f \in ToReceiver : f.type = "FILE_DATA" =>
            f.idx \in Chunks /\ f.content \in Content
    /\ \A f \in ToSender : f.type = "ACK" => f.next_needed \in 0 .. Total
  BY DEF ToReceiver, ToSender, MetaFrame, DataFrames, FinFrames

\* The initial state has the types.
LEMMA InitTypeOK == Init => TypeOK
<1> SUFFICES ASSUME Init PROVE TypeOK
  OBVIOUS
<1>1. DOMAIN inflight = {}
  BY DEF Init
<1>2. part \in [Chunks -> {"hole"} \union Content]
  BY DEF Init
<1>3. to_rcv \in Seq(ToReceiver) /\ to_snd \in Seq(ToSender)
  BY DEF Init
<1>4. /\ next_to_send \in 0 .. Total /\ next_needed \in 0 .. Total
      /\ last_acked \in -1 .. Total - 1 /\ losses \in 0 .. MaxLoss
  BY ConstantsAssumption DEF Init
<1>5. faults \subseteq AllFaults
  BY ConstantsAssumption DEF Init
<1> QED
  BY <1>1, <1>2, <1>3, <1>4, <1>5 DEF Init, TypeOK

\* Steps of send_file keep the types.
LEMMA SendFileTypeOK == TypeOK /\ SendFile => TypeOK'
<1> SUFFICES ASSUME TypeOK, SendFile PROVE TypeOK'
  OBVIOUS
<1> USE DEF rcvVars, diskVars, envVars, historyVars, sendVars
<1>1. CASE SendFileRegister
  BY <1>1 DEF SendFileRegister, TypeOK
<1>2. CASE SendFileMeta
  <2>1. to_rcv' \in Seq(ToReceiver)
    BY <1>2, FrameTypes, AppendSeq DEF SendFileMeta, TypeOK
  <2> QED
    BY <1>2, <2>1 DEF SendFileMeta, TypeOK
<1>3. CASE SendFileCheck
  BY <1>3 DEF SendFileCheck, TypeOK
<1>4. ASSUME NEW resend \in BOOLEAN, NEW giveUp \in BOOLEAN,
             SendFileWake(resend, giveUp)
      PROVE  TypeOK'
  <2> DEFINE metas == IF resend THEN <<MetaFrame>> ELSE <<>>
             fins == IF giveUp THEN <<FinFrame("error")>> ELSE <<>>
  <2>1. metas \in Seq(ToReceiver) /\ fins \in Seq(ToReceiver)
    BY FrameTypes DEF Status
  <2>2. to_rcv \o metas \in Seq(ToReceiver)
    BY <2>1, ConcatSeq DEF TypeOK
  <2>3. to_rcv' = (to_rcv \o metas) \o fins
    BY <1>4 DEF SendFileWake
  <2>4. to_rcv' \in Seq(ToReceiver)
    BY <2>1, <2>2, <2>3, ConcatSeq
  <2> QED
    BY <1>4, <2>4 DEF SendFileWake, TypeOK
<1> QED
  BY <1>1, <1>2, <1>3, <1>4 DEF SendFile

\* Steps of the sender's dispatcher keep the types.
LEMMA SenderDispatcherTypeOK == TypeOK /\ SenderDispatcher => TypeOK'
<1> SUFFICES ASSUME TypeOK, SenderDispatcher PROVE TypeOK'
  OBVIOUS
<1> USE DEF rcvVars, diskVars, envVars, historyVars, sendVars
<1>1. to_snd # <<>> => Head(to_snd) \in ToSender /\ Tail(to_snd) \in Seq(ToSender)
  BY HeadTailSeq DEF TypeOK
<1>2. CASE OnAck
  <2> DEFINE next == Head(to_snd).next_needed
             left == DOMAIN inflight \ Covered(next)
  <2>1. next \in 0 .. Total
    BY <1>1, <1>2, FrameFields DEF OnAck
  <2>2. Covered(next) \subseteq DOMAIN inflight /\ left \subseteq DOMAIN inflight
    BY DEF Covered
  <2>3. OlderAfter({}, left) \subseteq Chunks \X Chunks
    BY <2>2 DEF OlderAfter, TypeOK
  <2>4. CASE Listening
    <3>1. /\ acked' = acked \union Covered(next)
          /\ inflight' = [i \in left |-> inflight[i]]
          /\ older' = OlderAfter({}, left)
          /\ meta_acked' \in BOOLEAN
      BY <1>2, <2>4 DEF OnAck, TypeOK
    <3>2. last_acked' \in -1 .. Total - 1
      <4>1. last_acked' = IF next - 1 > last_acked THEN next - 1 ELSE last_acked
        BY <1>2, <2>4 DEF OnAck
      <4>2. last_acked \in -1 .. Total - 1
        BY DEF TypeOK
      <4> HIDE DEF next
      <4> QED
        BY <2>1, <4>1, <4>2, ConstantsAssumption
    <3>3. acked' \subseteq Chunks /\ older' \subseteq Chunks \X Chunks
      BY <2>2, <2>3, <3>1 DEF TypeOK
    <3>4. DOMAIN inflight' \subseteq Chunks
          /\ \A i \in DOMAIN inflight' : inflight'[i] \in 0 .. MaxRetries
      BY <2>2, <3>1 DEF TypeOK
    <3> HIDE DEF next, left
    <3> QED
      BY <1>1, <1>2, <3>1, <3>2, <3>3, <3>4 DEF OnAck, TypeOK
  <2>5. CASE ~Listening
    BY <1>1, <1>2, <2>5 DEF OnAck, TypeOK
  <2> QED
    BY <2>4, <2>5
<1>3. CASE OnFin
  BY <1>1, <1>3 DEF OnFin, TypeOK
<1> QED
  BY <1>2, <1>3 DEF SenderDispatcher

\* Frames of data chunks queued in one go are frames of the wire.
LEMMA DataChunksSeq ==
    ASSUME NEW n \in Nat, NEW order \in [1 .. n -> Chunks]
    PROVE  [k \in 1 .. n |-> DataChunk(order[k])] \in Seq(ToReceiver)
  BY FrameTypes

\* A set of chunks is finite, and an ascending list of it is a sequence of it.
LEMMA AscendingSeq ==
    ASSUME NEW S \in SUBSET Chunks, NEW order \in Ascending(S)
    PROVE  /\ Cardinality(S) \in Nat
           /\ order \in [1 .. Len(order) -> S]
           /\ Len(order) = Cardinality(S)
<1>1. IsFiniteSet(Chunks)
  BY ConstantsAssumption, FS_Interval DEF Chunks
<1>2. IsFiniteSet(S)
  BY <1>1, FS_Subset
<1>3. Cardinality(S) \in Nat
  BY <1>2, FS_CardinalityType
<1>4. order \in [1 .. Cardinality(S) -> S]
  BY DEF Ascending
<1>5. Len(order) = Cardinality(S)
  BY <1>3, <1>4
<1> QED
  BY <1>3, <1>4, <1>5

\* What PumpWindow queues, data first, then the FIN of a timeout, then the
\* refilled chunks, are frames of the wire.
LEMMA PumpWindowFrames ==
    ASSUME TypeOK, NEW S \in SUBSET Chunks, NEW order \in Ascending(S),
           NEW timeout \in BOOLEAN, NEW n \in 0 .. Total - next_to_send
    PROVE  to_rcv \o [k \in 1 .. Len(order) |-> DataChunk(order[k])]
              \o (IF timeout THEN <<FinFrame("error")>> ELSE <<>>)
              \o [k \in 1 .. n |-> DataChunk(next_to_send + k - 1)]
           \in Seq(ToReceiver)
<1>1. [k \in 1 .. Len(order) |-> DataChunk(order[k])] \in Seq(ToReceiver)
  <2>1. Len(order) \in Nat /\ order \in [1 .. Len(order) -> Chunks]
    BY AscendingSeq
  <2> QED
    BY <2>1, DataChunksSeq
<1>2. (IF timeout THEN <<FinFrame("error")>> ELSE <<>>) \in Seq(ToReceiver)
  BY FrameTypes DEF Status
<1>3. [k \in 1 .. n |-> DataChunk(next_to_send + k - 1)] \in Seq(ToReceiver)
  <2>1. \A k \in 1 .. n : next_to_send + k - 1 \in Chunks
    BY ConstantsAssumption DEF TypeOK, Chunks
  <2>2. n \in Nat
    BY ConstantsAssumption DEF TypeOK
  <2>3. [k \in 1 .. n |-> DataChunk(next_to_send + k - 1)]
            \in [1 .. n -> ToReceiver]
    BY <2>1, FrameTypes
  <2> QED
    BY <2>2, <2>3
<1>4. to_rcv \in Seq(ToReceiver)
  BY DEF TypeOK
<1> QED
  BY <1>1, <1>2, <1>3, <1>4, ConcatSeq

\* Steps of the pump keep the types.
LEMMA PumpTypeOK == TypeOK /\ Pump => TypeOK'
<1> SUFFICES ASSUME TypeOK, Pump PROVE TypeOK'
  OBVIOUS
<1> USE DEF rcvVars, diskVars, envVars, historyVars, sendVars
<1>1. CASE PumpTop
  BY <1>1 DEF PumpTop, TypeOK
<1>2. CASE PumpBeforeMetaAcked
  BY <1>2 DEF PumpBeforeMetaAcked, TypeOK
<1>3. CASE PumpComplete
  <2>1. Append(to_rcv, FinFrame("ok")) \in Seq(ToReceiver)
    BY FrameTypes, AppendSeq DEF TypeOK, Status
  <2>2. UNCHANGED <<send_pc, sendVars, rcvVars, diskVars, to_snd, envVars,
                    historyVars>>
    BY <1>3 DEF PumpComplete
  <2>3. /\ pump_pc' \in {"fin", "top"}
        /\ to_rcv' \in {to_rcv, Append(to_rcv, FinFrame("ok"))}
        /\ verdicts' \in {verdicts, verdicts \union {"complete"}}
    BY <1>3 DEF PumpComplete
  <2>4. verdicts' \subseteq {"complete", "timeout", "meta_timeout", "fin_ok",
                              "fin_error"}
    BY <2>3 DEF TypeOK
  <2>5. to_rcv' \in Seq(ToReceiver)
    BY <2>1, <2>3 DEF TypeOK
  <2> QED
    BY <2>2, <2>3, <2>4, <2>5 DEF TypeOK
<1>4. CASE PumpSetFinished
  BY <1>4 DEF PumpSetFinished, TypeOK
<1>5. ASSUME NEW expired \in SUBSET DOMAIN inflight, PumpWindow(expired)
      PROVE  TypeOK'
  <2>1. Resent(expired) \in SUBSET Chunks
    BY DEF Resent, TypeOK
  <2>2. PICK order \in Ascending(Resent(expired)),
             n \in 0 .. Total - next_to_send : WindowStep(expired, order, n)
    BY <1>5 DEF PumpWindow
  <2> DEFINE timeout == Exhausted(expired) # {}
             sent == Resent(expired) \union Refilled(n)
             dom == DOMAIN inflight \union Refilled(n)
  <2>0. UNCHANGED <<send_pc, registered, meta_acked, last_acked, acked,
                    meta_sends, rcvVars, diskVars, to_snd, envVars, historyVars>>
    BY <1>5 DEF PumpWindow
  <2>3. CASE src = "deleted" /\ sent # {}
    <3>1. /\ pump_pc' = "dead"
          /\ UNCHANGED <<finished, verdicts, inflight, older, next_to_send, to_rcv>>
      BY <2>2, <2>3 DEF WindowStep
    <3> QED
      BY <2>0, <3>1 DEF TypeOK
  <2>4. CASE ~(src = "deleted" /\ sent # {})
    <3>0. /\ pump_pc' = "complete"
          /\ finished' = (finished \/ timeout)
          /\ verdicts' = IF timeout THEN verdicts \union {"timeout"} ELSE verdicts
          /\ inflight' = [i \in dom |->
                  IF i \in Resent(expired) THEN inflight[i] + 1
                  ELSE IF i \in DOMAIN inflight THEN inflight[i] ELSE 0]
          /\ older' = OlderAfter(sent, dom)
          /\ next_to_send' = next_to_send + n
          /\ to_rcv' = to_rcv
                \o [k \in 1 .. Len(order) |-> DataChunk(order[k])]
                \o (IF timeout THEN <<FinFrame("error")>> ELSE <<>>)
                \o [k \in 1 .. n |-> DataChunk(next_to_send + k - 1)]
      BY <2>2, <2>4 DEF WindowStep
    <3> HIDE DEF timeout, sent
    <3>1. to_rcv' \in Seq(ToReceiver)
      <4>1. timeout \in BOOLEAN
        BY DEF timeout
      <4> QED
        BY <2>1, <3>0, <4>1, PumpWindowFrames
    <3>2. Refilled(n) \subseteq Chunks
      BY ConstantsAssumption DEF Refilled, TypeOK, Chunks
    <3>3. dom \subseteq Chunks /\ DOMAIN inflight' = dom
      BY <3>0, <3>2 DEF TypeOK
    <3>4. older' \subseteq Chunks \X Chunks
      BY <3>0, <3>3 DEF OlderAfter
    <3>5. next_to_send' \in 0 .. Total
      BY <3>0, ConstantsAssumption DEF TypeOK
    <3>6. \A i \in dom : inflight'[i] \in 0 .. MaxRetries
      <4>1. \A i \in Resent(expired) :
                i \in DOMAIN inflight /\ ~(inflight[i] >= MaxRetries)
        BY DEF Resent, Exhausted, TypeOK, Chunks
      <4>2. \A i \in DOMAIN inflight : inflight[i] \in 0 .. MaxRetries
        BY DEF TypeOK
      <4>3. \A i \in dom : inflight'[i] =
                IF i \in Resent(expired) THEN inflight[i] + 1
                ELSE IF i \in DOMAIN inflight THEN inflight[i] ELSE 0
        BY <3>0
      <4> HIDE DEF dom
      <4> QED
        BY <4>1, <4>2, <4>3, ConstantsAssumption
    <3>7. finished' \in BOOLEAN
      BY <3>0 DEF TypeOK, timeout
    <3>8. verdicts' \subseteq {"complete", "timeout", "meta_timeout",
                               "fin_ok", "fin_error"}
      BY <3>0 DEF TypeOK
    <3> HIDE DEF dom
    <3> QED
      BY <2>0, <3>0, <3>1, <3>3, <3>4, <3>5, <3>6, <3>7, <3>8 DEF TypeOK
  <2> QED
    BY <2>3, <2>4
<1> QED
  BY <1>1, <1>2, <1>3, <1>4, <1>5 DEF Pump

\* What a receiver's handler takes from its wire.
LEMMA ArrivesFrame ==
    ASSUME TypeOK, NEW type, Arrives(type)
    PROVE  /\ Head(to_rcv) \in ToReceiver /\ Head(to_rcv).type = type
           /\ to_rcv' = Tail(to_rcv) /\ to_rcv' \in Seq(ToReceiver)
  BY HeadTailSeq DEF Arrives, TypeOK

\* Steps of the receiver keep the types.
LEMMA ReceiverTypeOK == TypeOK /\ Receiver => TypeOK'
<1> SUFFICES ASSUME TypeOK, Receiver PROVE TypeOK'
  OBVIOUS
<1> USE DEF rcvVars, diskVars, envVars, historyVars, sendVars
<1>1. CASE RcvMeta
  <2>1. to_rcv' \in Seq(ToReceiver)
    BY <1>1, ArrivesFrame DEF RcvMeta
  <2>2. to_snd' \in Seq(ToSender)
    <3>1. (IF Total = 0 THEN FinFrame("ok") ELSE AckFrame(0)) \in ToSender
      BY FrameTypes, ConstantsAssumption DEF Status
    <3> QED
      BY <1>1, <3>1, AppendSeq DEF RcvMeta, TypeOK
  <2>3. part' \in [Chunks -> {"hole"} \union Content]
    BY <1>1 DEF RcvMeta, EmptyPart
  <2>4. next_needed' \in 0 .. Total
    BY <1>1, ConstantsAssumption DEF RcvMeta
  <2>5. dest' \in {"absent", "intact", "corrupt"}
    BY <1>1 DEF RcvMeta, TypeOK
  <2>7. rcv_open' \in BOOLEAN
    BY <1>1, ConstantsAssumption DEF RcvMeta
  <2>8. received' \subseteq Chunks /\ rcv_finished' \in BOOLEAN
    BY <1>1 DEF RcvMeta
  <2>6. UNCHANGED <<send_pc, pump_pc, sendVars, rcv_pc, envVars, verdicts,
                    historyVars>>
    BY <1>1 DEF RcvMeta
  <2> QED
    BY <2>1, <2>2, <2>3, <2>4, <2>5, <2>6, <2>7, <2>8 DEF TypeOK
<1>2. CASE RcvMetaFails
  <2>1. to_rcv' \in Seq(ToReceiver)
    BY <1>2, ArrivesFrame DEF RcvMetaFails
  <2> QED
    BY <1>2, <2>1 DEF RcvMetaFails, TypeOK
<1>3. CASE RcvData
  <2> DEFINE frame == Head(to_rcv)
             got == received \union {frame.idx}
  <2>1. to_rcv' \in Seq(ToReceiver)
    BY <1>3, ArrivesFrame DEF RcvData
  <2>2. frame.idx \in Chunks /\ frame.content \in Content
    BY <1>3, ArrivesFrame, FrameFields DEF RcvData
  <2>3. PICK next \in 0 .. Total :
          /\ part' = [part EXCEPT ![frame.idx] = frame.content]
          /\ received' = got
          /\ next_needed' = next
          /\ to_snd' = Append(to_snd, AckFrame(next))
    BY <1>3 DEF RcvData
  <2>4. /\ held' = held \union {frame.idx}
        /\ assembled' \in BOOLEAN /\ rcv_finished' \in BOOLEAN
        /\ rcv_pc' \in {"idle", "finishing"}
        /\ UNCHANGED <<send_pc, pump_pc, sendVars, rcv_open, dest, envVars,
                       verdicts>>
    BY <1>3 DEF RcvData, TypeOK
  <2>5. to_snd' \in Seq(ToSender)
    BY <2>3, FrameTypes, AppendSeq DEF TypeOK
  <2>6. part' \in [Chunks -> {"hole"} \union Content]
    BY <2>2, <2>3 DEF TypeOK
  <2>7. received' \subseteq Chunks /\ held' \subseteq Chunks
    BY <2>2, <2>3, <2>4 DEF TypeOK
  <2> QED
    BY <2>1, <2>3, <2>4, <2>5, <2>6, <2>7 DEF TypeOK
<1>4. CASE RcvDataUnknown
  <2>1. to_rcv' \in Seq(ToReceiver)
    BY <1>4, ArrivesFrame DEF RcvDataUnknown
  <2> QED
    BY <1>4, <2>1 DEF RcvDataUnknown, TypeOK
<1>5. CASE RcvFinish
  <2>1. to_snd' \in Seq(ToSender)
    <3>1. \A status \in Status : Append(to_snd, FinFrame(status)) \in Seq(ToSender)
      BY FrameTypes, AppendSeq DEF TypeOK
    <3> QED
      BY <1>5, <3>1 DEF RcvFinish, Status
  <2>2. part' \in [Chunks -> {"hole"} \union Content]
    BY <1>5 DEF RcvFinish, EmptyPart, TypeOK
  <2>3. dest' \in {"absent", "intact", "corrupt"}
    BY <1>5 DEF RcvFinish, Assembly, TypeOK
  <2>4. next_needed' \in 0 .. Total
    BY <1>5, ConstantsAssumption DEF RcvFinish
  <2>5. /\ rcv_pc' = "idle" /\ rcv_open' = FALSE /\ received' = {}
        /\ rcv_finished' = FALSE
        /\ UNCHANGED <<send_pc, pump_pc, sendVars, to_rcv, envVars, verdicts,
                       historyVars>>
    BY <1>5 DEF RcvFinish
  <2> QED
    BY ZenonT(60), <2>1, <2>2, <2>3, <2>4, <2>5 DEF TypeOK
<1>6. CASE RcvFinishFails
  BY <1>6 DEF RcvFinishFails, TypeOK
<1>7. CASE RcvFin
  <2>1. to_rcv' \in Seq(ToReceiver)
    BY <1>7, ArrivesFrame DEF RcvFin
  <2> QED
    BY <1>7, <2>1 DEF RcvFin, TypeOK
<1>8. CASE RcvDataFails
  <2>1. to_rcv' \in Seq(ToReceiver)
    BY <1>8, ArrivesFrame DEF RcvDataFails
  <2> QED
    BY <1>8, <2>1 DEF RcvDataFails, TypeOK
<1> QED
  BY <1>1, <1>2, <1>3, <1>4, <1>5, <1>6, <1>7, <1>8 DEF Receiver

\* Steps of the network and of the machines keep the types.
LEMMA EnvironmentTypeOK == TypeOK /\ Environment => TypeOK'
<1> SUFFICES ASSUME TypeOK, Environment PROVE TypeOK'
  OBVIOUS
<1> USE DEF rcvVars, diskVars, envVars, historyVars, sendVars
<1>1. CASE LoseToReceiver
  <2>1. to_rcv' \in Seq(ToReceiver)
    BY <1>1, RemoveAtSeq DEF LoseToReceiver, TypeOK
  <2>2. losses' \in 0 .. MaxLoss
    BY <1>1, ConstantsAssumption DEF LoseToReceiver, TypeOK
  <2> QED
    BY <1>1, <2>1, <2>2 DEF LoseToReceiver, TypeOK
<1>2. CASE LoseToSender
  <2>1. to_snd' \in Seq(ToSender)
    BY <1>2, RemoveAtSeq DEF LoseToSender, TypeOK
  <2>2. losses' \in 0 .. MaxLoss
    BY <1>2, ConstantsAssumption DEF LoseToSender, TypeOK
  <2> QED
    BY <1>2, <2>1, <2>2 DEF LoseToSender, TypeOK
<1>3. CASE RestartReceiver
  <2>1. to_snd' \in Seq(ToSender)
    BY <1>3, PrefixSeq DEF RestartReceiver, TypeOK
  <2>2. next_needed' \in 0 .. Total
    BY <1>3, ConstantsAssumption DEF RestartReceiver
  <2>3. /\ rcv_pc' = "idle" /\ rcv_open' \in BOOLEAN
        /\ rcv_finished' \in BOOLEAN /\ received' \subseteq Chunks
    BY <1>3 DEF RestartReceiver
  <2>5. faults' \subseteq AllFaults
    BY <1>3 DEF RestartReceiver, TypeOK
  <2>6. to_rcv' \in Seq(ToReceiver)
    BY <1>3 DEF RestartReceiver
  <2>4. UNCHANGED <<send_pc, pump_pc, sendVars, diskVars, losses, src,
                    verdicts, historyVars>>
    BY <1>3 DEF RestartReceiver
  <2> QED
    BY <2>1, <2>2, <2>3, <2>4, <2>5, <2>6 DEF TypeOK
<1>4. CASE SourceChanges("modify", "modified")
  BY <1>4 DEF SourceChanges, TypeOK
<1>5. CASE SourceChanges("delete", "deleted")
  BY <1>5 DEF SourceChanges, TypeOK
<1> QED
  BY <1>1, <1>2, <1>3, <1>4, <1>5 DEF Environment

\* Every reachable state of a transfer has the types.
THEOREM TypeCorrect == Spec => []TypeOK
<1>1. TypeOK /\ [Next]_vars => TypeOK'
  <2> SUFFICES ASSUME TypeOK, [Next]_vars PROVE TypeOK'
    OBVIOUS
  <2>1. CASE Next
    BY <2>1, SendFileTypeOK, SenderDispatcherTypeOK, PumpTypeOK,
       ReceiverTypeOK, EnvironmentTypeOK DEF Next
  <2>2. CASE UNCHANGED vars
    BY <2>2 DEF vars, TypeOK, sendVars, rcvVars, diskVars, envVars, historyVars
  <2> QED
    BY <2>1, <2>2
<1> QED
  BY InitTypeOK, <1>1, PTL DEF Spec

-----------------------------------------------------------------------------
(***************************************************************************)
(* The inductive invariant.  What the sender concludes is true because     *)
(* what is on the wires is true: an acknowledgement under way never covers *)
(* a chunk that was not sent or did not arrive, and an ok under way means  *)
(* that the file is in place.  The facts a frame carries are never undone: *)
(* that is what lets frames be late, lost or left over from a context that *)
(* a second META has replaced.                                             *)
(***************************************************************************)

\* Frames to the sender whose content is true now.
TrueAnswers ==
    {f \in ToSender :
        /\ f.type = "ACK" =>
              /\ f.next_needed <= next_to_send
              /\ 0 .. f.next_needed - 1 \subseteq held
              /\ f.next_needed = Total /\ Total > 0 => assembled
        /\ f.type = "FILE_FIN" /\ f.status = "ok" => dest = "intact"}

\* Frames to the receiver that the sender has really sent.
SentFrames ==
    {f \in ToReceiver : f.type = "FILE_DATA" => f.idx < next_to_send}

WiresSound == to_snd \in Seq(TrueAnswers) /\ to_rcv \in Seq(SentFrames)

ReceiverSound ==
    /\ received \subseteq held
    /\ received \subseteq 0 .. next_to_send - 1
    /\ 0 .. next_needed - 1 \subseteq received
    /\ rcv_pc = "finishing" => assembled
    /\ assembled => held = Chunks

SenderSound ==
    /\ WindowExact
    /\ last_acked < next_to_send
    /\ AckSound
    /\ last_acked + 1 = Total /\ Total > 0 => assembled

VerdictsSound ==
    /\ OkFinMeansStored
    /\ "complete" \in verdicts => last_acked + 1 = Total

FilesSound == DestNeverCorrupt /\ ContextMatchesPart

SInv == WiresSound /\ ReceiverSound /\ SenderSound /\ VerdictsSound /\ FilesSound

IInv == TypeOK /\ SInv

\* A true frame stays true: chunks stay sent and held, the file stays stored.
LEMMA TruthStays ==
    ASSUME TypeOK, TypeOK', next_to_send' >= next_to_send, held \subseteq held',
           assembled => assembled', dest = "intact" => dest' = "intact"
    PROVE  TrueAnswers \subseteq TrueAnswers' /\ SentFrames \subseteq SentFrames'
<1>1. ASSUME NEW f \in TrueAnswers PROVE f \in TrueAnswers'
  BY <1>1, FrameFields, ConstantsAssumption DEF TrueAnswers, TypeOK, ToSender
<1>2. ASSUME NEW f \in SentFrames PROVE f \in SentFrames'
  BY SMTT(60), <1>2, FrameFields DEF SentFrames, TypeOK, ToReceiver, Chunks
<1> QED
  BY <1>1, <1>2

\* The initial state satisfies the invariant.
LEMMA InitSInv == Init => SInv
<1> SUFFICES ASSUME Init PROVE SInv
  OBVIOUS
<1>1. WiresSound
  BY DEF Init, WiresSound
<1>2. ReceiverSound
  BY DEF Init, ReceiverSound
<1>3. SenderSound
  <2>1. DOMAIN inflight = {} /\ acked = {} /\ last_acked = -1 /\ next_to_send = 0
    BY DEF Init
  <2> QED
    BY <2>1, ConstantsAssumption DEF SenderSound, WindowExact, AckSound
<1>4. VerdictsSound
  BY DEF Init, VerdictsSound, OkFinMeansStored
<1>5. FilesSound
  BY DEF Init, FilesSound, DestNeverCorrupt, ContextMatchesPart
<1> QED
  BY <1>1, <1>2, <1>3, <1>4, <1>5 DEF SInv

\* META and FIN frames count as sent.
LEMMA ControlFramesSent ==
    /\ MetaFrame \in SentFrames
    /\ \A status \in Status : FinFrame(status) \in SentFrames
  BY FrameTypes DEF SentFrames, MetaFrame, FinFrame

\* Steps of send_file keep the invariant: they only queue METAs and FINs.
LEMMA SendFileSInv == TypeOK /\ TypeOK' /\ SInv /\ SendFile => SInv'
<1> SUFFICES ASSUME TypeOK, TypeOK', SInv, SendFile PROVE SInv'
  OBVIOUS
<1>1. /\ UNCHANGED <<next_to_send, last_acked, acked, inflight, rcvVars,
                     diskVars, to_snd, historyVars>>
      /\ verdicts' \subseteq verdicts \union {"meta_timeout"}
  BY DEF SendFile, SendFileRegister, SendFileMeta, SendFileCheck, SendFileWake,
         sendVars
<1> USE DEF rcvVars, diskVars, historyVars
<1>2. TrueAnswers' = TrueAnswers /\ SentFrames' = SentFrames
  BY <1>1 DEF TrueAnswers, SentFrames
<1>3. to_rcv' \in Seq(SentFrames)
  <2>0. to_rcv \in Seq(SentFrames)
    BY DEF SInv, WiresSound
  <2>1. CASE SendFileRegister \/ SendFileCheck
    BY <2>0, <2>1 DEF SendFileRegister, SendFileCheck
  <2>2. CASE SendFileMeta
    BY <2>0, <2>2, ControlFramesSent, AppendSeq DEF SendFileMeta
  <2>3. ASSUME NEW resend \in BOOLEAN, NEW giveUp \in BOOLEAN,
               SendFileWake(resend, giveUp)
        PROVE  to_rcv' \in Seq(SentFrames)
    <3> DEFINE metas == IF resend THEN <<MetaFrame>> ELSE <<>>
               fins == IF giveUp THEN <<FinFrame("error")>> ELSE <<>>
    <3>1. metas \in Seq(SentFrames) /\ fins \in Seq(SentFrames)
      BY ControlFramesSent DEF Status
    <3>2. to_rcv \o metas \in Seq(SentFrames)
      BY <2>0, <3>1, ConcatSeq
    <3>3. to_rcv' = (to_rcv \o metas) \o fins
      BY <2>3 DEF SendFileWake
    <3> QED
      BY <3>1, <3>2, <3>3, ConcatSeq
  <2> QED
    BY <2>1, <2>2, <2>3 DEF SendFile
<1>4. WiresSound'
  BY <1>1, <1>2, <1>3 DEF SInv, WiresSound
<1>5. ReceiverSound' /\ SenderSound' /\ FilesSound'
  BY <1>1 DEF SInv, ReceiverSound, SenderSound, FilesSound, WindowExact,
              AckSound, DestNeverCorrupt, ContextMatchesPart
<1>6. VerdictsSound'
  BY <1>1 DEF SInv, VerdictsSound, OkFinMeansStored
<1> QED
  BY <1>4, <1>5, <1>6 DEF SInv

\* Steps of the sender's dispatcher keep the invariant: an acknowledgement
\* moves exactly the chunks it covers from inflight to acked.
LEMMA SenderDispatcherSInv ==
    TypeOK /\ TypeOK' /\ SInv /\ SenderDispatcher => SInv'
<1> SUFFICES ASSUME TypeOK, TypeOK', SInv, SenderDispatcher PROVE SInv'
  OBVIOUS
<1> USE DEF rcvVars, diskVars, historyVars
<1>1. to_snd # <<>> /\ to_snd' = Tail(to_snd)
  BY DEF SenderDispatcher, OnAck, OnFin
<1>2. Head(to_snd) \in TrueAnswers /\ to_snd' \in Seq(TrueAnswers)
  BY <1>1, HeadTailSeq DEF SInv, WiresSound
<1>3. UNCHANGED <<next_to_send, rcvVars, diskVars, to_rcv, historyVars>>
  BY DEF SenderDispatcher, OnAck, OnFin
<1>4. WiresSound'
  <2>1. TrueAnswers' = TrueAnswers /\ SentFrames' = SentFrames
    BY <1>3 DEF TrueAnswers, SentFrames
  <2> QED
    BY <1>2, <1>3, <2>1 DEF SInv, WiresSound
<1>5. ReceiverSound' /\ FilesSound'
  BY <1>3 DEF SInv, ReceiverSound, FilesSound, DestNeverCorrupt,
              ContextMatchesPart
<1>6. CASE OnAck /\ Listening
  <2> DEFINE next == Head(to_snd).next_needed
             left == DOMAIN inflight \ Covered(next)
  <2>1. /\ acked' = acked \union Covered(next)
        /\ inflight' = [i \in left |-> inflight[i]]
        /\ last_acked' = IF next - 1 > last_acked THEN next - 1 ELSE last_acked
        /\ verdicts' = verdicts
    BY <1>6 DEF OnAck
  <2>2. /\ next \in 0 .. Total /\ next <= next_to_send
        /\ 0 .. next - 1 \subseteq held
        /\ next = Total /\ Total > 0 => assembled
    BY <1>2, <1>6, FrameFields DEF OnAck, TrueAnswers
  <2>3. Covered(next) = {i \in DOMAIN inflight : i < next}
    BY DEF Covered
  <2>4. DOMAIN inflight' = left
    BY <2>1
  <2>5. /\ next_to_send \in 0 .. Total /\ last_acked \in -1 .. Total - 1
        /\ last_acked < next_to_send
        /\ acked = 0 .. last_acked
        /\ DOMAIN inflight = last_acked + 1 .. next_to_send - 1
        /\ next_to_send - (last_acked + 1) <= Window
        /\ 0 .. last_acked \subseteq held
        /\ last_acked + 1 = Total /\ Total > 0 => assembled
    BY DEF TypeOK, SInv, SenderSound, WindowExact, AckSound
  <2> HIDE DEF next
  <2>6. acked' = 0 .. last_acked'
    BY <2>1, <2>2, <2>3, <2>5, ConstantsAssumption
  <2>7. DOMAIN inflight' = last_acked' + 1 .. next_to_send - 1
    BY <2>1, <2>2, <2>3, <2>4, <2>5, ConstantsAssumption
  <2>8. /\ next_to_send - (last_acked' + 1) <= Window
        /\ last_acked' < next_to_send
        /\ last_acked' + 1 = Total /\ Total > 0 => assembled
    BY <2>1, <2>2, <2>5, ConstantsAssumption
  <2>9. 0 .. last_acked' \subseteq held
    BY <2>1, <2>2, <2>5
  <2>10. SenderSound'
    BY <1>3, <2>6, <2>7, <2>8, <2>9 DEF SenderSound, WindowExact, AckSound
  <2>11. VerdictsSound'
    <3>1. last_acked + 1 = Total => last_acked' + 1 = Total
      BY <2>1, <2>2, <2>5, ConstantsAssumption
    <3> QED
      BY <1>3, <2>1, <3>1 DEF SInv, VerdictsSound, OkFinMeansStored
  <2> QED
    BY <1>4, <1>5, <2>10, <2>11 DEF SInv
<1>7. CASE OnAck /\ ~Listening
  <2>1. UNCHANGED <<acked, inflight, last_acked, verdicts>>
    BY <1>7 DEF OnAck
  <2>2. SenderSound' /\ VerdictsSound'
    BY <1>3, <2>1 DEF SInv, SenderSound, WindowExact, AckSound, VerdictsSound,
                      OkFinMeansStored
  <2> QED
    BY <1>4, <1>5, <2>2 DEF SInv
<1>8. CASE OnFin
  <2>1. UNCHANGED <<acked, inflight, last_acked>>
    BY <1>8 DEF OnFin
  <2>2. SenderSound'
    BY <1>3, <2>1 DEF SInv, SenderSound, WindowExact, AckSound
  <2>3. Head(to_snd).status = "ok" => dest = "intact"
    BY <1>2, <1>8 DEF OnFin, TrueAnswers
  <2>4. /\ "fin_ok" \in verdicts' =>
                "fin_ok" \in verdicts \/ Head(to_snd).status = "ok"
        /\ "complete" \in verdicts' => "complete" \in verdicts
    BY <1>8 DEF OnFin
  <2>5. VerdictsSound'
    BY <1>3, <2>1, <2>3, <2>4 DEF SInv, VerdictsSound, OkFinMeansStored
  <2> QED
    BY <1>4, <1>5, <2>2, <2>5 DEF SInv
<1> QED
  BY <1>6, <1>7, <1>8 DEF SenderDispatcher

\* Data chunks queued in one go, all of them below next_to_send, are sent.
LEMMA DataChunksSent ==
    ASSUME NEW n \in Nat, NEW order \in [1 .. n -> Chunks], NEW bound \in Int,
           \A k \in 1 .. n : order[k] < bound
    PROVE  [k \in 1 .. n |-> DataChunk(order[k])]
              \in Seq({f \in ToReceiver : f.type = "FILE_DATA" => f.idx < bound})
<1> DEFINE S == {f \in ToReceiver : f.type = "FILE_DATA" => f.idx < bound}
<1>1. \A k \in 1 .. n : DataChunk(order[k]) \in S
  BY FrameTypes DEF DataChunk
<1> HIDE DEF S
<1>2. [k \in 1 .. n |-> DataChunk(order[k])] \in [1 .. n -> S]
  BY <1>1
<1>3. [k \in 1 .. n |-> DataChunk(order[k])] \in Seq(S)
  BY <1>2
<1> QED
  BY <1>3 DEF S

\* One round of the pump's loops: the refilled chunks extend inflight at its
\* end, within the window, and every chunk queued is one that counts as sent.
LEMMA PumpWindowSInv ==
    ASSUME TypeOK, TypeOK', SInv, NEW expired \in SUBSET DOMAIN inflight,
           PumpWindow(expired)
    PROVE  SInv'
<1> USE DEF rcvVars, diskVars, historyVars
<1>1. PICK order \in Ascending(Resent(expired)),
           n \in 0 .. Total - next_to_send : WindowStep(expired, order, n)
  BY DEF PumpWindow
<1> DEFINE timeout == Exhausted(expired) # {}
           sent == Resent(expired) \union Refilled(n)
           dom == DOMAIN inflight \union Refilled(n)
<1>2. UNCHANGED <<last_acked, acked, rcvVars, diskVars, to_snd, historyVars>>
  BY DEF PumpWindow
<1>3. /\ next_to_send \in 0 .. Total /\ last_acked \in -1 .. Total - 1
      /\ DOMAIN inflight \subseteq Chunks
      /\ last_acked < next_to_send
      /\ acked = 0 .. last_acked
      /\ DOMAIN inflight = last_acked + 1 .. next_to_send - 1
      /\ next_to_send - (last_acked + 1) <= Window
  BY DEF TypeOK, SInv, SenderSound, WindowExact
<1>4. CASE src = "deleted" /\ sent # {}
  <2>1. UNCHANGED <<verdicts, inflight, next_to_send, to_rcv>>
    BY <1>1, <1>4 DEF WindowStep
  <2>2. TrueAnswers' = TrueAnswers /\ SentFrames' = SentFrames
    BY <1>2, <2>1 DEF TrueAnswers, SentFrames
  <2> QED
    BY <1>2, <2>1, <2>2
    DEF SInv, WiresSound, ReceiverSound, SenderSound, VerdictsSound,
        FilesSound, WindowExact, AckSound, OkFinMeansStored, DestNeverCorrupt,
        ContextMatchesPart
<1>5. CASE ~(src = "deleted" /\ sent # {})
  <2>1. /\ verdicts' \subseteq verdicts \union {"timeout"}
        /\ DOMAIN inflight' = dom
        /\ next_to_send' = next_to_send + n
        /\ to_rcv' = to_rcv
              \o [k \in 1 .. Len(order) |-> DataChunk(order[k])]
              \o (IF timeout THEN <<FinFrame("error")>> ELSE <<>>)
              \o [k \in 1 .. n |-> DataChunk(next_to_send + k - 1)]
    BY <1>1, <1>5 DEF WindowStep
  <2>2. n = 0 \/ Cardinality(DOMAIN inflight) + n <= Window
    BY <1>1 DEF WindowStep, FillsWindow
  <2>3. Cardinality(DOMAIN inflight) = next_to_send - (last_acked + 1)
    BY <1>3, FS_Interval, ConstantsAssumption
  <2>4. DOMAIN inflight' = last_acked' + 1 .. next_to_send' - 1
    <3>1. Refilled(n) = next_to_send .. next_to_send + n - 1
      BY DEF Refilled
    <3>2. last_acked' = last_acked
      BY <1>2
    <3> QED
      BY <1>3, <2>1, <3>1, <3>2, ConstantsAssumption
  <2> HIDE DEF timeout, sent, dom
  <2>5. SenderSound'
    <3>1. /\ next_to_send' - (last_acked' + 1) <= Window
          /\ last_acked' < next_to_send'
      BY <1>2, <1>3, <2>1, <2>2, <2>3, ConstantsAssumption
    <3> QED
      BY <1>2, <2>4, <3>1 DEF SInv, SenderSound, WindowExact, AckSound
  <2>6. TrueAnswers \subseteq TrueAnswers' /\ SentFrames \subseteq SentFrames'
    BY <1>2, <1>3, <2>1, TruthStays
  <2>7. to_snd' \in Seq(TrueAnswers')
    BY <1>2, <2>6, SeqMono DEF SInv, WiresSound
  <2>8. to_rcv' \in Seq(SentFrames')
    <3>1. to_rcv \in Seq(SentFrames')
      BY <2>6, SeqMono DEF SInv, WiresSound
    <3>2. /\ Resent(expired) \subseteq DOMAIN inflight
          /\ Resent(expired) \in SUBSET Chunks
      BY <1>3 DEF Resent
    <3>3. Len(order) \in Nat /\ order \in [1 .. Len(order) -> Resent(expired)]
      BY <3>2, AscendingSeq
    <3>4. \A k \in 1 .. Len(order) :
              order[k] \in Chunks /\ order[k] < next_to_send'
      BY SMTT(60), <1>3, <2>1, <3>2, <3>3
    <3>5. [k \in 1 .. Len(order) |-> DataChunk(order[k])] \in Seq(SentFrames')
      <4>1. order \in [1 .. Len(order) -> Chunks] /\ next_to_send' \in Int
        BY <1>3, <2>1, <3>2, <3>3
      <4> QED
        BY <3>3, <3>4, <4>1, DataChunksSent DEF SentFrames
    <3>6. [k \in 1 .. n |-> DataChunk(next_to_send + k - 1)] \in Seq(SentFrames')
      <4> DEFINE fresh == [k \in 1 .. n |-> next_to_send + k - 1]
      <4>1. n \in Nat /\ next_to_send' \in Int
        BY <1>3, <2>1, ConstantsAssumption
      <4>2. fresh \in [1 .. n -> Chunks]
        BY <1>3, ConstantsAssumption DEF Chunks
      <4>3. \A k \in 1 .. n : fresh[k] < next_to_send'
        BY <1>3, <2>1, <4>1
      <4>4. [k \in 1 .. n |-> DataChunk(fresh[k])] =
            [k \in 1 .. n |-> DataChunk(next_to_send + k - 1)]
        OBVIOUS
      <4> HIDE DEF fresh
      <4>5. [k \in 1 .. n |-> DataChunk(fresh[k])] \in Seq(SentFrames')
        BY <4>1, <4>2, <4>3, DataChunksSent DEF SentFrames
      <4> QED
        BY <4>4, <4>5
    <3>7. (IF timeout THEN <<FinFrame("error")>> ELSE <<>>) \in Seq(SentFrames')
      <4>1. FinFrame("error") \in SentFrames'
        BY <2>6, ControlFramesSent DEF Status
      <4> QED
        BY <4>1
    <3> QED
      BY <2>1, <3>1, <3>5, <3>6, <3>7, ConcatSeq
  <2>9. ReceiverSound'
    BY <1>2, <1>3, <2>1 DEF SInv, ReceiverSound
  <2>10. VerdictsSound' /\ FilesSound'
    BY <1>2, <2>1 DEF SInv, VerdictsSound, OkFinMeansStored, FilesSound,
                      DestNeverCorrupt, ContextMatchesPart
  <2> QED
    BY <2>5, <2>7, <2>8, <2>9, <2>10 DEF SInv, WiresSound
<1> QED
  BY <1>4, <1>5

\* Steps of the pump keep the invariant.
LEMMA PumpSInv == TypeOK /\ TypeOK' /\ SInv /\ Pump => SInv'
<1> SUFFICES ASSUME TypeOK, TypeOK', SInv, Pump PROVE SInv'
  OBVIOUS
<1> USE DEF rcvVars, diskVars, historyVars, sendVars
<1>1. CASE PumpTop \/ PumpBeforeMetaAcked \/ PumpSetFinished
  <2>1. UNCHANGED <<next_to_send, last_acked, acked, inflight, rcvVars,
                    diskVars, to_rcv, to_snd, historyVars, verdicts>>
    BY <1>1 DEF PumpTop, PumpBeforeMetaAcked, PumpSetFinished
  <2>2. TrueAnswers' = TrueAnswers /\ SentFrames' = SentFrames
    BY <2>1 DEF TrueAnswers, SentFrames
  <2> QED
    BY <2>1, <2>2
    DEF SInv, WiresSound, ReceiverSound, SenderSound, VerdictsSound,
        FilesSound, WindowExact, AckSound, OkFinMeansStored, DestNeverCorrupt,
        ContextMatchesPart
<1>2. CASE PumpComplete
  <2>1. UNCHANGED <<next_to_send, last_acked, acked, inflight, rcvVars,
                    diskVars, to_snd, historyVars>>
    BY <1>2 DEF PumpComplete
  <2>2. TrueAnswers' = TrueAnswers /\ SentFrames' = SentFrames
    BY <2>1 DEF TrueAnswers, SentFrames
  <2>3. to_rcv' \in Seq(SentFrames)
    <3>1. Append(to_rcv, FinFrame("ok")) \in Seq(SentFrames)
      BY ControlFramesSent, AppendSeq DEF SInv, WiresSound, Status
    <3> QED
      BY <1>2, <3>1 DEF PumpComplete, SInv, WiresSound
  <2>4. VerdictsSound'
    <3>1. "complete" \in verdicts' => "complete" \in verdicts \/ Completed
      BY <1>2 DEF PumpComplete
    <3>2. "fin_ok" \in verdicts' => "fin_ok" \in verdicts
      BY <1>2 DEF PumpComplete
    <3>3. Completed => last_acked + 1 = Total
      BY ConstantsAssumption DEF Completed, TypeOK
    <3> QED
      BY <2>1, <3>1, <3>2, <3>3 DEF SInv, VerdictsSound, OkFinMeansStored
  <2> QED
    BY <2>1, <2>2, <2>3, <2>4
    DEF SInv, WiresSound, ReceiverSound, SenderSound, FilesSound, WindowExact,
        AckSound, DestNeverCorrupt, ContextMatchesPart
<1>3. ASSUME NEW expired \in SUBSET DOMAIN inflight, PumpWindow(expired)
      PROVE  SInv'
  BY <1>3, PumpWindowSInv
<1> QED
  BY <1>1, <1>2, <1>3 DEF Pump

\* A handler of the receiver that leaves the sender's context alone keeps what
\* the invariant says of the sender.
LEMMA SenderUntouched ==
    ASSUME TypeOK, SInv, UNCHANGED <<sendVars, verdicts>>, held \subseteq held',
           assembled => assembled', dest = "intact" => dest' = "intact"
    PROVE  SenderSound' /\ VerdictsSound'
<1>1. SenderSound'
  BY DEF SInv, SenderSound, WindowExact, AckSound, sendVars
<1>2. VerdictsSound'
  BY DEF SInv, VerdictsSound, OkFinMeansStored, sendVars
<1> QED
  BY <1>1, <1>2

\* Frames taken from the wire leave frames that the sender sent.
LEMMA ArrivesSent ==
    ASSUME TypeOK, SInv, NEW type, Arrives(type)
    PROVE  Head(to_rcv) \in SentFrames /\ to_rcv' \in Seq(SentFrames)
  BY HeadTailSeq DEF Arrives, SInv, WiresSound

\* A META starts a context with nothing received, whatever came before it.
LEMMA RcvMetaSInv == TypeOK /\ TypeOK' /\ SInv /\ RcvMeta => SInv'
<1> SUFFICES ASSUME TypeOK, TypeOK', SInv, RcvMeta PROVE SInv'
  OBVIOUS
<1> USE DEF historyVars
<1>1. /\ part' = EmptyPart /\ received' = {} /\ next_needed' = 0
      /\ dest' = IF Total = 0 THEN "intact" ELSE dest
      /\ to_snd' = Append(to_snd, IF Total = 0 THEN FinFrame("ok")
                                               ELSE AckFrame(0))
      /\ UNCHANGED <<sendVars, rcv_pc, verdicts, historyVars>>
  BY DEF RcvMeta
<1>2. next_to_send' = next_to_send /\ dest = "intact" => dest' = "intact"
  BY <1>1 DEF sendVars
<1>3. SenderSound' /\ VerdictsSound'
  BY <1>1, <1>2, SenderUntouched
<1>4. TrueAnswers \subseteq TrueAnswers' /\ SentFrames \subseteq SentFrames'
  <2>1. next_to_send' = next_to_send /\ next_to_send \in Int
    BY <1>1 DEF TypeOK, sendVars
  <2> QED
    BY <1>1, <2>1, TruthStays
<1>5. to_snd' \in Seq(TrueAnswers')
  <2>1. CASE Total = 0
    <3>1. FinFrame("ok") \in TrueAnswers'
      BY <1>1, <2>1, FrameTypes DEF TrueAnswers, FinFrame, Status
    <3> QED
      BY <1>1, <1>4, <2>1, <3>1, SeqMono, AppendSeq DEF SInv, WiresSound
  <2>2. CASE Total # 0
    <3>1. AckFrame(0) \in TrueAnswers'
      <4>1. AckFrame(0).type = "ACK" /\ AckFrame(0).next_needed = 0
        BY DEF AckFrame
      <4>2. AckFrame(0) \in ToSender /\ next_to_send' \in 0 .. Total
        BY FrameTypes, ConstantsAssumption DEF TypeOK
      <4> QED
        BY <2>2, <4>1, <4>2, ConstantsAssumption DEF TrueAnswers
    <3> QED
      BY <1>1, <1>4, <2>2, <3>1, SeqMono, AppendSeq DEF SInv, WiresSound
  <2> QED
    BY <2>1, <2>2
<1>6. to_rcv' \in Seq(SentFrames')
  BY <1>4, ArrivesSent, SeqMono DEF RcvMeta
<1>7. ReceiverSound'
  BY <1>1 DEF SInv, ReceiverSound
<1>8. FilesSound'
  <2>1. DestNeverCorrupt'
    BY <1>1 DEF SInv, FilesSound, DestNeverCorrupt
  <2>2. {i \in Chunks : part'[i] # "hole"} = {}
    BY <1>1 DEF EmptyPart
  <2>3. ContextMatchesPart'
    BY <1>1, <2>2 DEF ContextMatchesPart
  <2> QED
    BY <2>1, <2>3 DEF FilesSound
<1> QED
  BY <1>3, <1>5, <1>6, <1>7, <1>8 DEF SInv, WiresSound

\* A chunk extends what the receiver holds; the acknowledgement it causes
\* covers only chunks that are there.
LEMMA RcvDataSInv == TypeOK /\ TypeOK' /\ SInv /\ RcvData => SInv'
<1> SUFFICES ASSUME TypeOK, TypeOK', SInv, RcvData PROVE SInv'
  OBVIOUS
<1> DEFINE frame == Head(to_rcv)
           got == received \union {frame.idx}
<1>1. PICK next \in 0 .. Total :
        /\ FirstMissing(next_needed, got, next)
        /\ part' = [part EXCEPT ![frame.idx] = frame.content]
        /\ received' = got
        /\ next_needed' = next
        /\ to_snd' = Append(to_snd, AckFrame(next))
        /\ rcv_pc' = IF got = Chunks /\ ~rcv_finished THEN "finishing" ELSE "idle"
        /\ held' = held \union {frame.idx}
        /\ assembled' = (assembled \/ got = Chunks)
  BY DEF RcvData
<1>2. UNCHANGED <<sendVars, rcv_open, dest, verdicts>> /\ rcv_open
  BY DEF RcvData
<1>3. next_to_send' = next_to_send /\ next_to_send \in 0 .. Total
  BY <1>2 DEF TypeOK, sendVars
<1>4. /\ frame \in SentFrames /\ frame.type = "FILE_DATA"
      /\ to_rcv' \in Seq(SentFrames)
  BY ArrivesSent, ArrivesFrame DEF RcvData
<1>5. /\ frame.idx \in Chunks /\ frame.content \in Content
      /\ frame.idx < next_to_send
  BY <1>4, FrameFields DEF SentFrames
<1>6. /\ received \subseteq held /\ received \subseteq 0 .. next_to_send - 1
      /\ 0 .. next_needed - 1 \subseteq received
      /\ assembled => held = Chunks
      /\ received \subseteq Chunks /\ held \subseteq Chunks
      /\ next_needed \in 0 .. Total
  BY DEF TypeOK, SInv, ReceiverSound
<1>7. /\ got \subseteq 0 .. next_to_send - 1 /\ got \subseteq held'
      /\ got \subseteq Chunks
  <2>1. frame.idx \in 0 .. next_to_send - 1
    BY <1>3, <1>5 DEF Chunks
  <2> HIDE DEF frame
  <2> QED
    BY <1>1, <1>5, <1>6, <2>1
<1>8. next >= next_needed /\ next_needed .. next - 1 \subseteq got /\ next \notin got
  BY <1>1 DEF FirstMissing
<1> HIDE DEF got, frame
<1>9. 0 .. next - 1 \subseteq got
  <2>1. received \subseteq got
    BY DEF got
  <2> QED
    BY <1>6, <1>8, <2>1
<1>10. next <= next_to_send
  <2>1. CASE next = 0
    BY <1>3, <2>1
  <2>2. CASE next # 0
    <3>1. next - 1 \in 0 .. next - 1
      BY <2>2, ConstantsAssumption
    <3>2. next - 1 \in 0 .. next_to_send - 1
      BY <1>7, <1>9, <3>1
    <3> QED
      BY <1>3, <3>2, ConstantsAssumption
  <2> QED
    BY <2>1, <2>2
<1>11. next = Total => assembled'
  <2>1. next = Total => Chunks \subseteq got
    BY <1>9 DEF Chunks
  <2> QED
    BY <1>1, <1>7, <2>1
<1>12. TrueAnswers \subseteq TrueAnswers' /\ SentFrames \subseteq SentFrames'
  <2>1. next_to_send' >= next_to_send
    BY <1>3
  <2>2. held \subseteq held' /\ (assembled => assembled') /\ dest' = dest
    BY <1>1, <1>2
  <2> QED
    BY <2>1, <2>2, TruthStays
<1>13. AckFrame(next) \in TrueAnswers'
  <2>1. AckFrame(next).type = "ACK" /\ AckFrame(next).next_needed = next
    BY DEF AckFrame
  <2>2. AckFrame(next) \in ToSender
    BY FrameTypes
  <2>3. 0 .. next - 1 \subseteq held'
    BY <1>7, <1>9
  <2> QED
    BY <1>3, <1>10, <1>11, <2>1, <2>2, <2>3 DEF TrueAnswers
<1>14. WiresSound'
  BY <1>1, <1>4, <1>12, <1>13, SeqMono, AppendSeq DEF SInv, WiresSound
<1>15. ReceiverSound'
  <2>1. rcv_pc' = "finishing" => assembled'
    BY <1>1
  <2>2. assembled' => held' = Chunks
    BY <1>1, <1>5, <1>6, <1>7
  <2> QED
    BY <1>1, <1>3, <1>7, <1>9, <2>1, <2>2 DEF ReceiverSound
<1>16. SenderSound' /\ VerdictsSound'
  BY <1>1, <1>2, SenderUntouched
<1>17. FilesSound'
  <2>1. received = {i \in Chunks : part[i] # "hole"} /\ dest # "corrupt"
    BY <1>2 DEF SInv, FilesSound, ContextMatchesPart, DestNeverCorrupt
  <2>2. got = {i \in Chunks : part'[i] # "hole"}
    BY <1>1, <1>5, <2>1 DEF got, TypeOK, Content
  <2> QED
    BY <1>1, <1>2, <1>8, <1>9, <2>1, <2>2
    DEF FilesSound, ContextMatchesPart, DestNeverCorrupt
<1> QED
  BY <1>14, <1>15, <1>16, <1>17 DEF SInv

\* The other handlers of the receiver; the file in place is an intact one and
\* the ok follows it.
LEMMA ReceiverSInv == TypeOK /\ TypeOK' /\ SInv /\ Receiver => SInv'
<1> SUFFICES ASSUME TypeOK, TypeOK', SInv, Receiver PROVE SInv'
  OBVIOUS
<1> USE DEF historyVars
<1>1. CASE RcvMeta
  BY <1>1, RcvMetaSInv
<1>2. CASE RcvData
  BY <1>2, RcvDataSInv
<1>3. CASE RcvMetaFails \/ RcvDataFails \/ RcvDataUnknown \/ RcvFin
  <2>1. UNCHANGED <<sendVars, rcvVars, diskVars, to_snd, verdicts, historyVars>>
    BY <1>3 DEF RcvMetaFails, RcvDataFails, RcvDataUnknown, RcvFin
  <2>2. to_rcv' \in Seq(SentFrames)
    BY <1>3, ArrivesSent DEF RcvMetaFails, RcvDataFails, RcvDataUnknown, RcvFin
  <2>3. TrueAnswers' = TrueAnswers /\ SentFrames' = SentFrames
    BY <2>1 DEF TrueAnswers, SentFrames, sendVars, diskVars
  <2>4. SenderSound' /\ VerdictsSound'
    BY <2>1, SenderUntouched DEF diskVars
  <2> QED
    BY <2>1, <2>2, <2>3, <2>4
    DEF SInv, WiresSound, ReceiverSound, FilesSound, DestNeverCorrupt,
        ContextMatchesPart, sendVars, rcvVars, diskVars
<1>4. CASE RcvFinishFails
  <2>1. /\ UNCHANGED <<sendVars, rcv_open, received, next_needed, diskVars,
                       to_rcv, to_snd, verdicts, historyVars>>
        /\ rcv_pc' = "idle"
    BY <1>4 DEF RcvFinishFails
  <2>2. TrueAnswers' = TrueAnswers /\ SentFrames' = SentFrames
    BY <2>1 DEF TrueAnswers, SentFrames, sendVars, diskVars
  <2>3. SenderSound' /\ VerdictsSound'
    BY <2>1, SenderUntouched DEF diskVars
  <2> QED
    BY <2>1, <2>2, <2>3
    DEF SInv, WiresSound, ReceiverSound, FilesSound, DestNeverCorrupt,
        ContextMatchesPart, sendVars, diskVars
<1>5. CASE RcvFinish
  <2>1. /\ rcv_pc' = "idle" /\ rcv_open' = FALSE /\ received' = {}
        /\ next_needed' = 0
        /\ UNCHANGED <<sendVars, to_rcv, verdicts, historyVars>>
    BY <1>5 DEF RcvFinish
  <2>2. \/ dest' = "intact" /\ to_snd' = Append(to_snd, FinFrame("ok"))
        \/ dest' = dest /\ to_snd' = Append(to_snd, FinFrame("error"))
    BY <1>5 DEF RcvFinish, HashMatches, diskVars
  <2>3. dest = "intact" => dest' = "intact"
    BY <2>2
  <2>4. SenderSound' /\ VerdictsSound'
    BY <2>1, <2>3, SenderUntouched
  <2>5. TrueAnswers \subseteq TrueAnswers' /\ SentFrames \subseteq SentFrames'
    <3>1. next_to_send' = next_to_send /\ next_to_send \in Int
      BY <2>1 DEF TypeOK, sendVars
    <3>2. next_to_send' >= next_to_send
      BY <3>1
    <3> QED
      BY <2>1, <2>3, <3>2, TruthStays
  <2>6. to_snd \in Seq(TrueAnswers') /\ to_rcv' \in Seq(SentFrames')
    BY <2>1, <2>5, SeqMono DEF SInv, WiresSound
  <2>7. /\ dest' = "intact" => FinFrame("ok") \in TrueAnswers'
        /\ FinFrame("error") \in TrueAnswers'
    BY FrameTypes DEF TrueAnswers, FinFrame, Status
  <2>8. to_snd' \in Seq(TrueAnswers')
    BY <2>2, <2>6, <2>7, AppendSeq
  <2>9. ReceiverSound'
    BY <2>1 DEF SInv, ReceiverSound, sendVars
  <2>10. FilesSound'
    BY <2>1, <2>2 DEF SInv, FilesSound, DestNeverCorrupt, ContextMatchesPart
  <2> QED
    BY <2>4, <2>6, <2>8, <2>9, <2>10 DEF SInv, WiresSound
<1> QED
  BY <1>1, <1>2, <1>3, <1>4, <1>5 DEF Receiver

\* Losing frames, a changing file and a restart keep the invariant: what is
\* left of a wire of true frames is a wire of true frames.
LEMMA EnvironmentSInv == TypeOK /\ TypeOK' /\ SInv /\ Environment => SInv'
<1> SUFFICES ASSUME TypeOK, TypeOK', SInv, Environment PROVE SInv'
  OBVIOUS
<1> USE DEF historyVars
<1>1. UNCHANGED <<sendVars, diskVars, verdicts, historyVars>>
  BY DEF Environment, LoseToReceiver, LoseToSender, RestartReceiver,
         SourceChanges
<1>2. TrueAnswers' = TrueAnswers /\ SentFrames' = SentFrames
  BY <1>1 DEF TrueAnswers, SentFrames, sendVars, diskVars
<1>3. SenderSound' /\ VerdictsSound'
  BY <1>1, SenderUntouched DEF diskVars
<1>4. to_rcv' \in Seq(SentFrames)
  <2>1. CASE LoseToReceiver
    BY <2>1, RemoveAtSeq DEF LoseToReceiver, SInv, WiresSound
  <2>2. CASE RestartReceiver
    BY <2>2 DEF RestartReceiver
  <2>3. CASE to_rcv' = to_rcv
    BY <2>3 DEF SInv, WiresSound
  <2> QED
    BY <2>1, <2>2, <2>3 DEF Environment, LoseToSender, SourceChanges
<1>5. to_snd' \in Seq(TrueAnswers)
  <2>1. CASE LoseToSender
    BY <2>1, RemoveAtSeq DEF LoseToSender, SInv, WiresSound
  <2>2. CASE RestartReceiver
    BY <2>2, PrefixSeq DEF RestartReceiver, SInv, WiresSound
  <2>3. CASE to_snd' = to_snd
    BY <2>3 DEF SInv, WiresSound
  <2> QED
    BY <2>1, <2>2, <2>3 DEF Environment, LoseToReceiver, SourceChanges
<1>6. ReceiverSound' /\ FilesSound'
  <2>1. CASE RestartReceiver
    <3>1. /\ received' = {} /\ next_needed' = 0 /\ rcv_pc' = "idle"
          /\ rcv_open' = FALSE
      BY <2>1 DEF RestartReceiver
    <3>2. ReceiverSound'
      BY <1>1, <3>1 DEF SInv, ReceiverSound, sendVars
    <3>3. FilesSound'
      BY <1>1, <3>1 DEF SInv, FilesSound, DestNeverCorrupt, ContextMatchesPart,
                        diskVars
    <3> QED
      BY <3>2, <3>3
  <2>2. CASE UNCHANGED rcvVars
    BY <1>1, <2>2 DEF SInv, ReceiverSound, FilesSound, DestNeverCorrupt,
                      ContextMatchesPart, sendVars, rcvVars, diskVars
  <2> QED
    BY <2>1, <2>2 DEF Environment, LoseToReceiver, LoseToSender, SourceChanges
<1> QED
  BY <1>2, <1>3, <1>4, <1>5, <1>6 DEF SInv, WiresSound

-----------------------------------------------------------------------------
(***************************************************************************)
(* Theorems                                                                *)
(***************************************************************************)

\* The invariant is kept by every step.
LEMMA NextIInv == IInv /\ [Next]_vars => IInv'
<1> SUFFICES ASSUME IInv, [Next]_vars PROVE IInv'
  OBVIOUS
<1>1. CASE Next
  <2>1. TypeOK'
    BY <1>1, SendFileTypeOK, SenderDispatcherTypeOK, PumpTypeOK,
       ReceiverTypeOK, EnvironmentTypeOK DEF IInv, Next
  <2>2. SInv'
    BY <1>1, <2>1, SendFileSInv, SenderDispatcherSInv, PumpSInv, ReceiverSInv,
       EnvironmentSInv DEF IInv, Next
  <2> QED
    BY <2>1, <2>2 DEF IInv
<1>2. CASE UNCHANGED vars
  <2> USE DEF vars, sendVars, rcvVars, diskVars, envVars, historyVars
  <2>1. TypeOK'
    BY <1>2 DEF IInv, TypeOK
  <2>2. TrueAnswers' = TrueAnswers /\ SentFrames' = SentFrames
    BY <1>2 DEF TrueAnswers, SentFrames
  <2>3. WiresSound' /\ ReceiverSound'
    BY <1>2, <2>2 DEF IInv, SInv, WiresSound, ReceiverSound
  <2>4. SenderSound' /\ VerdictsSound'
    BY <1>2 DEF IInv, SInv, SenderSound, VerdictsSound, WindowExact, AckSound,
                OkFinMeansStored
  <2>5. FilesSound'
    BY <1>2 DEF IInv, SInv, FilesSound, DestNeverCorrupt, ContextMatchesPart
  <2> QED
    BY <2>1, <2>3, <2>4, <2>5 DEF IInv, SInv
<1> QED
  BY <1>1, <1>2

\* Every reachable state satisfies the inductive invariant.
THEOREM Invariance == Spec => []IInv
<1>1. Init => IInv
  BY InitTypeOK, InitSInv DEF IInv
<1> QED
  BY <1>1, NextIInv, PTL DEF Spec

\* The sender never forgets a chunk and never exceeds its window.
THEOREM WindowExactness == Spec => []WindowExact
<1>1. IInv => WindowExact
  BY DEF IInv, SInv, SenderSound
<1> QED
  BY <1>1, Invariance, PTL

\* What the sender takes as acknowledged has reached the receiver.
THEOREM AcknowledgedIsHeld == Spec => []AckSound
<1>1. IInv => AckSound
  BY DEF IInv, SInv, SenderSound
<1> QED
  BY <1>1, Invariance, PTL

\* The receiver's bookkeeping agrees with its .part file.
THEOREM ContextAgrees == Spec => []ContextMatchesPart
<1>1. IInv => ContextMatchesPart
  BY DEF IInv, SInv, FilesSound
<1> QED
  BY <1>1, Invariance, PTL

\* No wrong file is ever put in place (hash test of _on_data), and an ok from
\* the receiver means that the file is there (os.replace comes before
\* _send_fin).
THEOREM FileIntegrity == Spec => []DestinationSound
<1>1. IInv => DestinationSound
  BY DEF IInv, SInv, FilesSound, VerdictsSound, DestinationSound
<1> QED
  BY <1>1, Invariance, PTL

-----------------------------------------------------------------------------
(***************************************************************************)
(* Implementation of FileDelivery                                          *)
(***************************************************************************)

\* A step that touches none of the mapped state is a stuttering step.
LEMMA StutteringStep ==
    ASSUME UNCHANGED <<held, last_acked, assembled, dest>>,
           "complete" \in verdicts' <=> "complete" \in verdicts
    PROVE  UNCHANGED Delivery!vars
<1>1. ("complete" \in verdicts)' = ("complete" \in verdicts)
  OBVIOUS
<1>2. (dest = "intact")' = (dest = "intact") /\ (last_acked + 1)' = last_acked + 1
  OBVIOUS
<1> QED
  BY <1>1, <1>2 DEF Delivery!vars

\* Every step of a transfer is a step of FileDelivery or changes nothing there.
LEMMA DeliveryStep == IInv /\ Next => [Delivery!Next]_(Delivery!vars)
<1> SUFFICES ASSUME IInv, Next PROVE Delivery!Next \/ UNCHANGED Delivery!vars
  OBVIOUS
<1> USE DEF sendVars, rcvVars, diskVars, envVars, historyVars
<1>1. CASE SendFile
  <2>1. UNCHANGED <<held, last_acked, assembled, dest>>
    BY <1>1 DEF SendFile, SendFileRegister, SendFileMeta, SendFileCheck,
                SendFileWake
  <2>2. "complete" \in verdicts' <=> "complete" \in verdicts
    BY <1>1 DEF SendFile, SendFileRegister, SendFileMeta, SendFileCheck,
                SendFileWake
  <2> QED
    BY <2>1, <2>2, StutteringStep
<1>2. CASE OnAck
  <2>1. UNCHANGED <<held, assembled, dest, verdicts>>
    BY <1>2 DEF OnAck
  <2> DEFINE next == Head(to_snd).next_needed
  <2>2. CASE last_acked' = last_acked
    BY <2>1, <2>2, StutteringStep
  <2>3. CASE last_acked' # last_acked
    <3>1. next - 1 > last_acked /\ last_acked' = next - 1
      BY <1>2, <2>3 DEF OnAck
    <3>2. Head(to_snd) \in TrueAnswers
      BY <1>2, HeadTailSeq DEF OnAck, IInv, SInv, WiresSound
    <3>3. /\ next \in 0 .. Total /\ 0 .. next - 1 \subseteq held
          /\ next = Total /\ Total > 0 => assembled
      BY <1>2, <3>2, FrameFields DEF OnAck, TrueAnswers
    <3>4. last_acked \in -1 .. Total - 1
      BY DEF IInv, TypeOK
    <3> HIDE DEF next
    <3>5. next \in 1 .. Total /\ next > last_acked + 1 /\ last_acked' + 1 = next
      BY <3>1, <3>3, <3>4, ConstantsAssumption
    <3>6. next = Total => assembled
      BY <3>3, <3>5, ConstantsAssumption
    <3>7. ("complete" \in verdicts)' = ("complete" \in verdicts)
          /\ (dest = "intact")' = (dest = "intact")
          /\ (last_acked + 1)' = next
      BY <2>1, <3>5
    <3>8. Delivery!Confirm(next)
      BY <2>1, <3>3, <3>5, <3>6, <3>7 DEF Delivery!Confirm
    <3> QED
      BY <3>5, <3>8 DEF Delivery!Next
  <2> QED
    BY <2>2, <2>3
<1>3. CASE OnFin
  <2>1. /\ UNCHANGED <<held, last_acked, assembled, dest>>
        /\ "complete" \in verdicts' <=> "complete" \in verdicts
    BY <1>3 DEF OnFin
  <2> QED
    BY <2>1, StutteringStep
<1>4. CASE PumpTop \/ PumpBeforeMetaAcked \/ PumpSetFinished
  BY <1>4, StutteringStep DEF PumpTop, PumpBeforeMetaAcked, PumpSetFinished
<1>5. CASE PumpComplete
  <2>1. UNCHANGED <<held, last_acked, assembled, dest>>
    BY <1>5 DEF PumpComplete
  <2>2. CASE Completed
    <3>1. last_acked + 1 = Total
      BY <2>2, ConstantsAssumption DEF Completed, IInv, TypeOK
    <3>2. ("complete" \in verdicts)' = TRUE
      BY <1>5, <2>2 DEF PumpComplete
    <3>3. (dest = "intact")' = (dest = "intact")
          /\ (last_acked + 1)' = last_acked + 1
      BY <2>1
    <3>4. Delivery!Claim
      BY <2>1, <3>1, <3>2, <3>3 DEF Delivery!Claim
    <3> QED
      BY <3>4 DEF Delivery!Next
  <2>3. CASE ~Completed
    <3>1. verdicts' = verdicts
      BY <1>5, <2>3 DEF PumpComplete
    <3> QED
      BY <2>1, <3>1, StutteringStep
  <2> QED
    BY <2>2, <2>3
<1>6. ASSUME NEW expired \in SUBSET DOMAIN inflight, PumpWindow(expired)
      PROVE  UNCHANGED Delivery!vars
  <2>1. UNCHANGED <<held, last_acked, assembled, dest>>
    BY <1>6 DEF PumpWindow
  <2>2. "complete" \in verdicts' <=> "complete" \in verdicts
    BY <1>6 DEF PumpWindow, WindowStep
  <2> QED
    BY <2>1, <2>2, StutteringStep
<1>7. CASE RcvMeta \/ RcvFinish
  <2>1. UNCHANGED <<held, last_acked, assembled, verdicts>>
    BY <1>7 DEF RcvMeta, RcvFinish
  <2>2. CASE dest' = dest
    BY <2>1, <2>2, StutteringStep
  <2>3. CASE dest' # dest
    <3>1. dest' = "intact" /\ (Total > 0 => assembled)
      BY <1>7, <2>3, ConstantsAssumption
      DEF RcvMeta, RcvFinish, HashMatches, IInv, SInv, ReceiverSound
    <3>2. ("complete" \in verdicts)' = ("complete" \in verdicts)
          /\ (dest = "intact")' = TRUE
          /\ (last_acked + 1)' = last_acked + 1
      BY <2>1, <3>1
    <3>3. Delivery!Store
      BY <2>1, <3>1, <3>2 DEF Delivery!Store
    <3> QED
      BY <3>3 DEF Delivery!Next
  <2> QED
    BY <2>2, <2>3
<1>8. CASE RcvData
  <2> DEFINE i == Head(to_rcv).idx
  <2>1. /\ UNCHANGED <<last_acked, dest, verdicts>>
        /\ held' = held \union {i} /\ assembled' \in {assembled, TRUE}
    BY <1>8 DEF RcvData, IInv, TypeOK
  <2>2. i \in Chunks
    BY <1>8, ArrivesFrame, FrameFields DEF RcvData, IInv
  <2>3. assembled' => held' = Chunks
    <3>1. /\ assembled' = (assembled \/ received \union {i} = Chunks)
      BY <1>8 DEF RcvData
    <3>2. /\ received \subseteq held /\ held \subseteq Chunks
          /\ assembled => held = Chunks
      BY DEF IInv, SInv, ReceiverSound, TypeOK
    <3> QED
      BY <2>1, <2>2, <3>1, <3>2
  <2>4. ("complete" \in verdicts)' = ("complete" \in verdicts)
        /\ (dest = "intact")' = (dest = "intact")
        /\ (last_acked + 1)' = last_acked + 1
    BY <2>1
  <2> HIDE DEF i
  <2>5. Delivery!Chunks = Chunks
    BY DEF Delivery!Chunks, Chunks
  <2>6. Delivery!Reach(i)
    BY <2>1, <2>3, <2>4, <2>5 DEF Delivery!Reach
  <2> QED
    BY <2>2, <2>5, <2>6 DEF Delivery!Next
<1>9. CASE RcvMetaFails \/ RcvDataFails \/ RcvDataUnknown \/ RcvFin \/ RcvFinishFails
  BY <1>9, StutteringStep DEF RcvMetaFails, RcvDataFails, RcvDataUnknown, RcvFin,
                              RcvFinishFails
<1>10. CASE Environment
  BY <1>10, StutteringStep DEF Environment, LoseToReceiver, LoseToSender,
                               RestartReceiver, SourceChanges
<1> QED
  BY <1>1, <1>2, <1>3, <1>4, <1>5, <1>6, <1>7, <1>8, <1>9, <1>10
  DEF Next, SenderDispatcher, Pump, Receiver

\* A transfer delivers what FileDelivery promises: nothing is confirmed,
\* stored or claimed before the chunks it needs have arrived.
THEOREM Refinement == Spec => ImplementsDelivery
<1>1. Init => Delivery!Init
  <2> SUFFICES ASSUME Init PROVE Delivery!Init
    OBVIOUS
  <2>1. /\ held = {} /\ last_acked = -1 /\ assembled = FALSE
        /\ dest = "absent" /\ verdicts = {}
    BY DEF Init
  <2>2. last_acked + 1 = 0 /\ (dest = "intact") = FALSE
        /\ ("complete" \in verdicts) = FALSE
    BY <2>1
  <2> QED
    BY <2>1, <2>2 DEF Delivery!Init
<1>2. IInv /\ [Next]_vars => [Delivery!Next]_(Delivery!vars)
  <2>1. CASE Next
    BY <2>1, DeliveryStep
  <2>2. CASE UNCHANGED vars
    BY <2>2, StutteringStep DEF vars, sendVars, diskVars, historyVars
  <2> QED
    BY <2>1, <2>2
<1> QED
  BY <1>1, <1>2, Invariance, PTL DEF Spec, ImplementsDelivery, Delivery!Spec
-----------------------------------------------------------------------------
(***************************************************************************)
(* META behind data                                                        *)
(***************************************************************************)
NoData == {f \in ToReceiver : f.type # "FILE_DATA"}
NoMeta == {f \in ToReceiver : f.type # "FILE_META"}

\* Late as a predicate on any wire and any chunks received.
Behind(w, got, b) ==
    /\ w[b].type = "FILE_META"
    /\ got # {} \/ \E a \in 1 .. b - 1 : w[a].type = "FILE_DATA"

NoneLate(w, got) == \A b \in 1 .. Len(w) : ~Behind(w, got, b)
OneLate(w, got) ==
    \A b, c \in 1 .. Len(w) : Behind(w, got, b) /\ Behind(w, got, c) => b = c

\* Before send_file has queued a META, only a FIN can be under way (the pump
\* completes an empty file that it finds first).
Unstarted ==
    send_pc \in {"idle", "opened"} =>
        /\ ~meta_acked /\ rcv_pc = "idle" /\ to_snd = <<>>
        /\ to_rcv \in Seq(FinFrames)

\* Data is sent only after META was answered, and a META can be behind data
\* only when send_file has no look at meta_acked behind it any more.
OrderInv ==
    /\ OneLate(to_rcv, received)
    /\ send_pc \in {"idle", "opened", "slept"} => NoneLate(to_rcv, received)
    /\ meta_acked \/ (to_rcv \in Seq(NoData) /\ received = {})
    /\ Unstarted

\* A wire with one frame less.
LEMMA OrderThinned ==
    ASSUME NEW w \in Seq(ToReceiver), NEW got, NEW k \in 1 .. Len(w)
    PROVE  /\ OneLate(w, got) => OneLate(RemoveAt(w, k), got)
           /\ NoneLate(w, got) => NoneLate(RemoveAt(w, k), got)
<1>1. /\ Len(RemoveAt(w, k)) = Len(w) - 1
      /\ \A i \in 1 .. Len(w) - 1 :
            RemoveAt(w, k)[i] = IF i < k THEN w[i] ELSE w[i + 1]
  <2> DEFINE left == SubSeq(w, 1, k - 1)
             right == SubSeq(w, k + 1, Len(w))
  <2>1. /\ left \in Seq(ToReceiver) /\ Len(left) = k - 1
        /\ \A i \in 1 .. k - 1 : left[i] = w[i]
    OBVIOUS
  <2>2. /\ right \in Seq(ToReceiver) /\ Len(right) = Len(w) - k
        /\ \A i \in 1 .. Len(w) - k : right[i] = w[k + i]
    OBVIOUS
  <2> HIDE DEF left, right
  <2>3. /\ Len(left \o right) = Len(left) + Len(right)
        /\ \A i \in 1 .. Len(left) + Len(right) : (left \o right)[i] =
                IF i <= Len(left) THEN left[i] ELSE right[i - Len(left)]
    BY <2>1, <2>2, ConcatProperties
  <2>4. /\ Len(left \o right) = Len(w) - 1
        /\ \A i \in 1 .. Len(w) - 1 :
                (left \o right)[i] = IF i < k THEN w[i] ELSE w[i + 1]
    BY SMTT(30), <2>1, <2>2, <2>3
  <2> QED
    BY <2>4 DEF RemoveAt, left, right
<1>2. Len(w) \in Nat
  OBVIOUS
<1> DEFINE n == Len(w) - 1
           v == RemoveAt(w, k)
           place == [i \in 1 .. n |-> IF i < k THEN i ELSE i + 1]
<1>3. /\ n \in Nat /\ Len(v) = n
      /\ \A i \in 1 .. n : place[i] \in 1 .. Len(w) /\ v[i] = w[place[i]]
  BY <1>1, <1>2
<1>4. \A i, j \in 1 .. n : /\ j < i => place[j] < place[i]
                           /\ place[i] = place[j] => i = j
  BY <1>2
<1> HIDE DEF n, v, place
<1>5. ASSUME NEW b \in 1 .. n, Behind(v, got, b)
      PROVE  Behind(w, got, place[b])
  <2>1. CASE got # {}
    BY <1>3, <1>5, <2>1 DEF Behind
  <2>2. ASSUME NEW a \in 1 .. b - 1, v[a].type = "FILE_DATA"
        PROVE  Behind(w, got, place[b])
    <3>1. a \in 1 .. n /\ a < b
      BY <1>3
    <3>2. place[a] \in 1 .. place[b] - 1
      BY <1>3, <1>4, <3>1
    <3> QED
      BY <1>3, <1>5, <2>2, <3>1, <3>2 DEF Behind
  <2> QED
    BY <1>5, <2>1, <2>2 DEF Behind
<1>6. /\ OneLate(w, got) => OneLate(v, got)
      /\ NoneLate(w, got) => NoneLate(v, got)
  BY <1>3, <1>4, <1>5 DEF OneLate, NoneLate
<1> QED
  BY <1>6 DEF v

\* The wire whose first frame was taken; chunks are received from data only.
LEMMA OrderTaken ==
    ASSUME NEW w \in Seq(ToReceiver), w # <<>>, NEW got, NEW left,
           left = {} \/ got # {} \/ Head(w).type = "FILE_DATA"
    PROVE  /\ OneLate(w, got) => OneLate(Tail(w), left)
           /\ NoneLate(w, got) => NoneLate(Tail(w), left)
<1> DEFINE v == Tail(w)
           n == Len(w) - 1
           place == [i \in 1 .. n |-> i + 1]
<1>1. /\ n \in Nat /\ Len(v) = n /\ Len(w) = n + 1
      /\ \A i \in 1 .. n : v[i] = w[i + 1]
      /\ left = {} \/ got # {} \/ w[1].type = "FILE_DATA"
  OBVIOUS
<1> HIDE DEF v, n
<1>2. \A i \in 1 .. n : place[i] = i + 1 /\ place[i] \in 1 .. Len(w)
  BY <1>1
<1> HIDE DEF place
<1>3. ASSUME NEW b \in 1 .. n, Behind(v, left, b)
      PROVE  Behind(w, got, place[b])
  <2>1. w[b + 1].type = "FILE_META"
    BY <1>1, <1>3 DEF Behind
  <2>2. CASE got # {}
    BY <1>2, <2>1, <2>2 DEF Behind
  <2>3. CASE w[1].type = "FILE_DATA"
    <3>1. 1 \in 1 .. (b + 1) - 1
      BY <1>1
    <3> QED
      BY <1>2, <2>1, <2>3, <3>1 DEF Behind
  <2>4. ASSUME NEW a \in 1 .. b - 1, v[a].type = "FILE_DATA"
        PROVE  Behind(w, got, place[b])
    <3>1. a \in 1 .. n /\ a + 1 \in 1 .. (b + 1) - 1
      BY <1>1
    <3> QED
      BY <1>1, <1>2, <2>1, <2>4, <3>1 DEF Behind
  <2> QED
    BY <1>1, <1>3, <2>2, <2>3, <2>4 DEF Behind
<1>4. /\ OneLate(w, got) => OneLate(v, left)
      /\ NoneLate(w, got) => NoneLate(v, left)
  <2>1. \A b, c \in 1 .. n : place[b] = place[c] => b = c
    BY <1>1, <1>2
  <2> QED
    BY <1>1, <1>2, <1>3, <2>1 DEF OneLate, NoneLate
<1> QED
  BY <1>4 DEF v

\* Frames other than META can be queued behind any.
LEMMA OrderQueued ==
    ASSUME NEW w \in Seq(ToReceiver), NEW t \in Seq(NoMeta), NEW got
    PROVE  /\ OneLate(w, got) => OneLate(w \o t, got)
           /\ NoneLate(w, got) => NoneLate(w \o t, got)
<1> DEFINE v == w \o t
           n == Len(w)
           place == [i \in 1 .. n + Len(t) |-> i]
<1>1. /\ n \in Nat /\ Len(t) \in Nat /\ Len(v) = n + Len(t)
      /\ \A i \in 1 .. n : v[i] = w[i]
      /\ \A i \in n + 1 .. n + Len(t) : v[i] = t[i - n]
  BY DEF NoMeta
<1>2. \A i \in 1 .. Len(t) : t[i].type # "FILE_META"
  BY DEF NoMeta
<1>3. \A i \in 1 .. Len(v) : place[i] = i
  BY <1>1
<1> HIDE DEF v, n, place
<1>4. ASSUME NEW b \in 1 .. Len(v), Behind(v, got, b)
      PROVE  b \in 1 .. n /\ Behind(w, got, b)
  <2>1. b \in 1 .. n
    <3>1. b \notin n + 1 .. n + Len(t)
      BY <1>1, <1>2, <1>4 DEF Behind
    <3> QED
      BY <1>1, <3>1
  <2>2. \A a \in 1 .. b - 1 : a \in 1 .. n
    BY <1>1, <2>1
  <2> QED
    BY <1>1, <1>4, <2>1, <2>2 DEF Behind
<1>5. /\ OneLate(w, got) => OneLate(v, got)
      /\ NoneLate(w, got) => NoneLate(v, got)
  BY <1>3, <1>4 DEF OneLate, NoneLate, n
<1> QED
  BY <1>5 DEF v

\* A context that was emptied makes no META late.
LEMMA OrderForgotten ==
    ASSUME NEW w, NEW got
    PROVE  /\ OneLate(w, got) => OneLate(w, {})
           /\ NoneLate(w, got) => NoneLate(w, {})
  BY DEF OneLate, NoneLate, Behind

\* One META more makes one late at most.
LEMMA OrderMeta ==
    ASSUME NEW w \in Seq(ToReceiver), NEW got, NoneLate(w, got)
    PROVE  OneLate(Append(w, MetaFrame), got)
<1> DEFINE v == Append(w, MetaFrame)
           n == Len(w)
<1>1. /\ n \in Nat /\ Len(v) = n + 1
      /\ \A i \in 1 .. n : v[i] = w[i]
  BY FrameTypes, AppendProperties
<1> HIDE DEF v, n
<1>2. ASSUME NEW b \in 1 .. n + 1, Behind(v, got, b)
      PROVE  b = n + 1
  <2>1. ASSUME b \in 1 .. n PROVE Behind(w, got, b)
    <3>1. \A a \in 1 .. b - 1 : a \in 1 .. n
      BY <1>1, <2>1
    <3> QED
      BY <1>1, <1>2, <2>1, <3>1 DEF Behind
  <2>2. b \notin 1 .. n
    BY <2>1 DEF NoneLate, n
  <2> QED
    BY <1>1, <2>2
<1>3. OneLate(v, got)
  BY <1>1, <1>2 DEF OneLate
<1> QED
  BY <1>3 DEF v

\* A wire without data, and no chunk received.
LEMMA OrderWithoutData ==
    ASSUME NEW w \in Seq(NoData)
    PROVE  NoneLate(w, {}) /\ OneLate(w, {})
<1>1. /\ Len(w) \in Nat
      /\ \A i \in 1 .. Len(w) : w[i].type # "FILE_DATA"
  BY DEF NoData
<1>2. \A b \in 1 .. Len(w) : \A a \in 1 .. b - 1 : a \in 1 .. Len(w)
  BY <1>1
<1> QED
  BY <1>1, <1>2 DEF NoneLate, OneLate, Behind

\* Which frames are neither data nor META.
LEMMA OrderFrames ==
    /\ MetaFrame \in NoData
    /\ \A i \in Chunks : DataChunk(i) \in NoMeta
    /\ \A status \in Status : FinFrame(status) \in FinFrames
    /\ FinFrames \subseteq NoData \intersect NoMeta
    /\ NoData \subseteq ToReceiver /\ NoMeta \subseteq ToReceiver
  BY FrameTypes
  DEF NoData, NoMeta, MetaFrame, DataChunk, FinFrame, FinFrames, ToReceiver

\* Steps of send_file: it falls asleep only when no answer has come, so that a
\* META queued after the sleep is the first that can be late.
LEMMA SendFileOrder ==
    ASSUME TypeOK, OrderInv, SendFile
    PROVE  OrderInv'
<1>1. CASE SendFileRegister
  BY <1>1 DEF SendFileRegister, OrderInv, Unstarted, sendVars, rcvVars
<1>2. CASE SendFileCheck
  <2>1. /\ UNCHANGED <<to_rcv, to_snd, received, meta_acked, rcv_pc>>
        /\ send_pc' \in {"returned", "slept"}
        /\ send_pc' = "slept" => ~meta_acked
    BY <1>2 DEF SendFileCheck, Answered, sendVars, rcvVars
  <2>2. send_pc' = "slept" => NoneLate(to_rcv, received)
    BY <2>1, OrderWithoutData DEF OrderInv
  <2> QED
    BY <2>1, <2>2 DEF OrderInv, Unstarted
<1>3. CASE SendFileMeta
  <2>1. /\ to_rcv' = Append(to_rcv, MetaFrame) /\ send_pc' = "wait"
        /\ UNCHANGED <<received, meta_acked>> /\ ~meta_acked
        /\ NoneLate(to_rcv, received)
    BY <1>3 DEF SendFileMeta, OrderInv, Unstarted, rcvVars
  <2>2. to_rcv' \in Seq(NoData) /\ received = {}
    BY <2>1, OrderFrames, AppendSeq DEF OrderInv
  <2>3. OneLate(to_rcv', received')
    BY <2>1, OrderMeta DEF TypeOK
  <2> QED
    BY <2>1, <2>2, <2>3 DEF OrderInv, Unstarted
<1>4. ASSUME NEW resend \in BOOLEAN, NEW giveUp \in BOOLEAN,
             SendFileWake(resend, giveUp)
      PROVE  OrderInv'
  <2> DEFINE meta == IF resend THEN <<MetaFrame>> ELSE <<>>
             fin == IF giveUp THEN <<FinFrame("error")>> ELSE <<>>
             mid == to_rcv \o meta
  <2>1. /\ to_rcv' = (to_rcv \o meta) \o fin
        /\ send_pc' \in {"wait", "returned"}
        /\ UNCHANGED <<meta_acked, received>>
        /\ NoneLate(to_rcv, received) /\ to_rcv \in Seq(ToReceiver)
    BY <1>4 DEF SendFileWake, OrderInv, rcvVars, TypeOK
  <2>2. fin \in Seq(NoData) /\ fin \in Seq(NoMeta) /\ meta \in Seq(NoData)
    BY OrderFrames DEF Status
  <2>3. mid \in Seq(ToReceiver) /\ OneLate(mid, received)
    <3>1. CASE resend
      <4>1. mid = Append(to_rcv, MetaFrame)
        BY <2>1, <3>1, FrameTypes, AppendIsConcat
      <4> QED
        BY <2>1, <4>1, FrameTypes, AppendSeq, OrderMeta
    <3>2. CASE ~resend
      <4>1. mid = to_rcv
        BY <2>1, <3>2
      <4> QED
        BY <2>1, <4>1 DEF OrderInv
    <3> QED
      BY <3>1, <3>2
  <2> HIDE DEF meta, fin
  <2>4. OneLate(to_rcv', received')
    <3> HIDE DEF mid
    <3>1. to_rcv' = mid \o fin
      BY <2>1 DEF mid
    <3> QED
      BY <2>1, <2>2, <2>3, <3>1, OrderQueued
  <2>5. meta_acked' \/ (to_rcv' \in Seq(NoData) /\ received' = {})
    BY <2>1, <2>2, ConcatSeq DEF OrderInv
  <2> QED
    BY <2>1, <2>4, <2>5 DEF OrderInv, Unstarted
<1> QED
  BY <1>1, <1>2, <1>3, <1>4 DEF SendFile

\* Steps of the sender's dispatcher: nothing comes from the receiver before
\* the first META is queued.
LEMMA DispatcherOrder ==
    ASSUME TypeOK, OrderInv, SenderDispatcher
    PROVE  OrderInv'
<1>1. /\ to_snd # <<>> /\ UNCHANGED <<send_pc, to_rcv, received>>
      /\ meta_acked => meta_acked'
  <2>1. CASE OnAck
    BY <2>1 DEF OnAck, rcvVars
  <2>2. CASE OnFin
    BY <2>2 DEF OnFin, rcvVars
  <2> QED
    BY <2>1, <2>2 DEF SenderDispatcher
<1>2. send_pc \notin {"idle", "opened"}
  BY <1>1 DEF OrderInv, Unstarted
<1> QED
  BY <1>1, <1>2 DEF OrderInv, Unstarted

\* Steps of the pump: it queues no META, and data only after the answer.
LEMMA PumpOrder ==
    ASSUME TypeOK, OrderInv, Pump
    PROVE  OrderInv'
<1>1. CASE PumpTop \/ PumpBeforeMetaAcked \/ PumpSetFinished
  BY <1>1 DEF PumpTop, PumpBeforeMetaAcked, PumpSetFinished, OrderInv,
              Unstarted, sendVars, rcvVars
<1>2. CASE PumpComplete
  <2>1. /\ UNCHANGED <<send_pc, meta_acked, rcv_pc, to_snd, received>>
        /\ \/ to_rcv' = to_rcv
           \/ to_rcv' = to_rcv \o <<FinFrame("ok")>>
    <3>1. Append(to_rcv, FinFrame("ok")) = to_rcv \o <<FinFrame("ok")>>
      BY FrameTypes, AppendIsConcat DEF TypeOK, Status
    <3> QED
      BY <1>2, <3>1 DEF PumpComplete, sendVars, rcvVars
  <2>2. /\ <<FinFrame("ok")>> \in Seq(FinFrames)
        /\ <<FinFrame("ok")>> \in Seq(NoData)
        /\ <<FinFrame("ok")>> \in Seq(NoMeta)
    BY OrderFrames DEF Status
  <2>3. CASE to_rcv' = to_rcv
    BY <2>1, <2>3 DEF OrderInv, Unstarted
  <2>4. CASE to_rcv' = to_rcv \o <<FinFrame("ok")>>
    <3>1. /\ OneLate(to_rcv', received')
          /\ send_pc' \in {"idle", "opened", "slept"}
                => NoneLate(to_rcv', received')
      BY <2>1, <2>2, <2>4, OrderQueued DEF OrderInv, TypeOK
    <3>2. meta_acked' \/ (to_rcv' \in Seq(NoData) /\ received' = {})
      BY <2>1, <2>2, <2>4, ConcatSeq DEF OrderInv
    <3>3. Unstarted'
      BY <2>1, <2>2, <2>4, ConcatSeq DEF OrderInv, Unstarted
    <3> QED
      BY <3>1, <3>2, <3>3 DEF OrderInv
  <2> QED
    BY <2>1, <2>3, <2>4
<1>3. ASSUME NEW expired \in SUBSET DOMAIN inflight, PumpWindow(expired)
      PROVE  OrderInv'
  <2>1. /\ meta_acked /\ meta_acked' /\ UNCHANGED <<send_pc, received>>
    BY <1>3 DEF PumpWindow, MayTransmit, rcvVars
  <2>2. send_pc \notin {"idle", "opened"}
    BY <2>1 DEF OrderInv, Unstarted
  <2> DEFINE Late1(w) ==
        /\ OneLate(w, received)
        /\ send_pc = "slept" => NoneLate(w, received)
  <2>3. Late1(to_rcv')
    <3>1. PICK order \in Ascending(Resent(expired)),
               n \in 0 .. Total - next_to_send : WindowStep(expired, order, n)
      BY <1>3 DEF PumpWindow
    <3> DEFINE again == [k \in 1 .. Len(order) |-> DataChunk(order[k])]
               fin == IF Exhausted(expired) # {} THEN <<FinFrame("error")>>
                                                 ELSE <<>>
               new == [k \in 1 .. n |-> DataChunk(next_to_send + k - 1)]
    <3>2. again \in Seq(NoMeta)
      <4>1. Resent(expired) \in SUBSET Chunks
        BY DEF Resent, TypeOK
      <4>2. Len(order) \in Nat /\ order \in [1 .. Len(order) -> Chunks]
        BY <4>1, AscendingSeq
      <4>3. again \in [1 .. Len(order) -> NoMeta]
        BY <4>2, OrderFrames
      <4> QED
        BY <4>2, <4>3
    <3>3. fin \in Seq(NoMeta)
      BY OrderFrames DEF Status
    <3>4. new \in Seq(NoMeta)
      <4>1. n \in Nat /\ \A k \in 1 .. n : next_to_send + k - 1 \in Chunks
        BY ConstantsAssumption DEF TypeOK, Chunks
      <4>2. new \in [1 .. n -> NoMeta]
        BY <4>1, OrderFrames
      <4> QED
        BY <4>1, <4>2
    <3>5. to_rcv' \in {to_rcv, ((to_rcv \o again) \o fin) \o new}
      BY <3>1 DEF WindowStep
    <3> HIDE DEF again, fin, new
    <3>6. to_rcv \o again \in Seq(ToReceiver) /\ Late1(to_rcv \o again)
      BY <3>2, OrderFrames, OrderQueued, SeqMono, ConcatSeq DEF OrderInv, TypeOK
    <3>7. /\ (to_rcv \o again) \o fin \in Seq(ToReceiver)
          /\ Late1((to_rcv \o again) \o fin)
      BY <3>3, <3>6, OrderFrames, OrderQueued, SeqMono, ConcatSeq
    <3>8. Late1(((to_rcv \o again) \o fin) \o new)
      BY <3>4, <3>7, OrderQueued
    <3> QED
      BY <3>5, <3>8 DEF OrderInv
  <2> QED
    BY <2>1, <2>2, <2>3 DEF OrderInv, Unstarted
<1> QED
  BY <1>1, <1>2, <1>3 DEF Pump

\* Steps of the receiver: it takes the first frame, which is a FIN as long as
\* no META was queued.
LEMMA ReceiverOrder ==
    ASSUME TypeOK, OrderInv, Receiver
    PROVE  OrderInv'
<1>1. UNCHANGED <<send_pc, meta_acked>>
  BY DEF Receiver, RcvMeta, RcvMetaFails, RcvData, RcvDataFails,
         RcvDataUnknown, RcvFinish, RcvFinishFails, RcvFin, sendVars
<1>2. CASE RcvFinish \/ RcvFinishFails
  <2>1. /\ rcv_pc = "finishing" /\ to_rcv' = to_rcv
        /\ received' \in {received, {}}
    BY <1>2 DEF RcvFinish, RcvFinishFails
  <2>2. /\ OneLate(to_rcv, received')
        /\ send_pc \in {"idle", "opened", "slept"}
                => NoneLate(to_rcv, received')
    BY <2>1, OrderForgotten DEF OrderInv
  <2> QED
    BY <1>1, <2>1, <2>2 DEF OrderInv, Unstarted
<1>3. CASE \E type \in {"FILE_META", "FILE_DATA", "FILE_FIN"} : Arrives(type)
  <2>1. to_rcv # <<>> /\ to_rcv' = Tail(to_rcv)
    BY <1>3 DEF Arrives
  <2>5. received' \in {received, {}} \/ Head(to_rcv).type = "FILE_DATA"
    BY <1>2, <1>3
    DEF Receiver, Arrives, RcvMeta, RcvMetaFails, RcvData, RcvDataFails,
        RcvDataUnknown, RcvFinish, RcvFinishFails, RcvFin, rcvVars
  <2>2. /\ OneLate(to_rcv', received')
        /\ send_pc' \in {"idle", "opened", "slept"}
                => NoneLate(to_rcv', received')
    <3>1. /\ OneLate(to_rcv, received) => OneLate(Tail(to_rcv), received')
          /\ NoneLate(to_rcv, received) => NoneLate(Tail(to_rcv), received')
      BY <2>1, <2>5, OrderTaken DEF TypeOK
    <3> QED
      BY <1>1, <2>1, <3>1 DEF OrderInv
  <2>3. meta_acked' \/ (to_rcv' \in Seq(NoData) /\ received' = {})
    <3>1. SUFFICES ASSUME to_rcv \in Seq(NoData), received = {}
                   PROVE  to_rcv' \in Seq(NoData) /\ received' = {}
      BY <1>1 DEF OrderInv
    <3>2. Head(to_rcv) \in NoData /\ to_rcv' \in Seq(NoData)
      BY <2>1, <3>1, HeadTailSeq
    <3> QED
      BY <2>5, <3>1, <3>2 DEF NoData
  <2>4. Unstarted'
    <3>1. SUFFICES ASSUME send_pc \in {"idle", "opened"} PROVE Unstarted'
      BY <1>1 DEF Unstarted
    <3>2. to_rcv \in Seq(FinFrames)
      BY <3>1 DEF OrderInv, Unstarted
    <3>3. Head(to_rcv).type = "FILE_FIN" /\ to_rcv' \in Seq(FinFrames)
      <4>1. Head(to_rcv) \in FinFrames /\ to_rcv' \in Seq(FinFrames)
        BY <2>1, <3>2, HeadTailSeq
      <4> QED
        BY <4>1 DEF FinFrames
    <3>4. RcvFin
      BY <3>1, <3>3
      DEF Receiver, RcvMeta, RcvMetaFails, RcvData, RcvDataFails,
          RcvDataUnknown, RcvFinish, RcvFinishFails, Arrives, OrderInv,
          Unstarted
    <3> QED
      BY <1>1, <3>1, <3>3, <3>4 DEF RcvFin, rcvVars, OrderInv, Unstarted
  <2> QED
    BY <2>2, <2>3, <2>4 DEF OrderInv
<1> QED
  BY <1>2, <1>3
  DEF Receiver, RcvMeta, RcvMetaFails, RcvData, RcvDataFails, RcvDataUnknown,
      RcvFin

\* Losses and restarts leave the frames that are left in their order.
LEMMA EnvironmentOrder ==
    ASSUME TypeOK, OrderInv, Environment
    PROVE  OrderInv'
<1>1. /\ UNCHANGED <<send_pc, meta_acked>>
      /\ rcv_pc' \in {rcv_pc, "idle"} /\ received' \in {received, {}}
  BY DEF Environment, LoseToReceiver, LoseToSender, RestartReceiver,
         SourceChanges, sendVars, rcvVars
<1>2. \/ to_rcv' = to_rcv
      \/ to_rcv' = <<>>
      \/ \E k \in 1 .. Len(to_rcv) : to_rcv' = RemoveAt(to_rcv, k)
  BY DEF Environment, LoseToReceiver, LoseToSender, RestartReceiver,
         SourceChanges
<1>3. to_snd = <<>> => to_snd' = <<>>
  BY DEF Environment, LoseToReceiver, LoseToSender, RestartReceiver,
         SourceChanges
<1>4. /\ OneLate(to_rcv, received) => OneLate(to_rcv', received)
      /\ NoneLate(to_rcv, received) => NoneLate(to_rcv', received)
      /\ to_rcv \in Seq(NoData) => to_rcv' \in Seq(NoData)
      /\ to_rcv \in Seq(FinFrames) => to_rcv' \in Seq(FinFrames)
  <2>1. CASE to_rcv' = to_rcv
    BY <2>1
  <2>2. CASE to_rcv' = <<>>
    <3>1. Len(<<>>) = 0 /\ \A S : <<>> \in Seq(S)
      OBVIOUS
    <3> QED
      BY <2>2, <3>1 DEF OneLate, NoneLate
  <2>3. ASSUME NEW k \in 1 .. Len(to_rcv), to_rcv' = RemoveAt(to_rcv, k)
        PROVE  /\ OneLate(to_rcv, received) => OneLate(to_rcv', received)
               /\ NoneLate(to_rcv, received) => NoneLate(to_rcv', received)
               /\ to_rcv \in Seq(NoData) => to_rcv' \in Seq(NoData)
               /\ to_rcv \in Seq(FinFrames) => to_rcv' \in Seq(FinFrames)
    BY <2>3, OrderThinned, RemoveAtSeq DEF OrderInv, TypeOK
  <2> QED
    BY <1>2, <2>1, <2>2, <2>3
<1>5. /\ OneLate(to_rcv, received) => OneLate(to_rcv', received')
      /\ NoneLate(to_rcv, received) => NoneLate(to_rcv', received')
  BY <1>1, <1>4, OrderForgotten
<1> QED
  BY <1>1, <1>3, <1>4, <1>5 DEF OrderInv, Unstarted

\* Whatever is lost, delayed or restarted, a transfer that runs has its context
\* replaced by one late META at most: none other can be queued once it is
\* (send_file, _pump).  It takes three facts no single step shows: data is
\* under way only after META was answered, send_file falls asleep only before
\* that, and nothing but a FIN is sent before the first META.
THEOREM LateMetaIsLast == Spec => []OneLateMeta
<1>1. Init => OrderInv
  <2>1. Len(<<>>) = 0 /\ \A S : <<>> \in Seq(S)
    OBVIOUS
  <2> QED
    BY <2>1 DEF Init, OrderInv, Unstarted, OneLate, NoneLate
<1>2. TypeOK /\ OrderInv /\ [Next]_vars => OrderInv'
  <2> SUFFICES ASSUME TypeOK, OrderInv, [Next]_vars PROVE OrderInv'
    OBVIOUS
  <2>1. CASE UNCHANGED vars
    BY <2>1 DEF vars, sendVars, rcvVars, OrderInv, Unstarted
  <2> QED
    BY <2>1, SendFileOrder, DispatcherOrder, PumpOrder, ReceiverOrder,
       EnvironmentOrder DEF Next
<1>3. TypeOK /\ OrderInv => OneLateMeta
  <2> SUFFICES ASSUME TypeOK, OrderInv, NEW b \in 1 .. Len(to_rcv), Late(b)
               PROVE  /\ send_pc \in {"wait", "returned"} /\ meta_acked
                      /\ \A c \in 1 .. Len(to_rcv) : Late(c) => c = b
    BY DEF OneLateMeta
  <2>1. \A c \in 1 .. Len(to_rcv) : Late(c) <=> Behind(to_rcv, received, c)
    BY DEF Late, Behind
  <2>2. ~NoneLate(to_rcv, received)
    BY <2>1 DEF NoneLate
  <2>3. meta_acked
    BY <2>2, OrderWithoutData DEF OrderInv
  <2> QED
    BY <2>1, <2>2, <2>3 DEF OrderInv, OneLate, TypeOK
<1> QED
  BY <1>1, <1>2, <1>3, TypeCorrect, PTL DEF Spec
=============================================================================
