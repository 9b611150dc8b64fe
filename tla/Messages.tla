------------------------------ MODULE Messages ------------------------------
(***************************************************************************)
(* Text from the user interface of node Me to those of its peers.  On its  *)
(* way it passes through ChatService (which shows it at once), the UDS     *)
(* connection, AppServer._on_cmd, Messaging, the outgoing queue and the    *)
(* sender thread; then through the peer's receiver and dispatcher threads, *)
(* its IPC loop, the connection and the reader of its user interface.      *)
(* Each stage is a queue with one worker.  Aliases, which are not sealed,  *)
(* use the same queues.                                                    *)
(***************************************************************************)
EXTENDS Frames, FiniteSets, SequencesExt

CONSTANTS
    Me,             \* the node that sends
    Key,            \* the pre-shared key each node was started with
    Texts,          \* bound: what the user may write first, second, ...
    Alias,          \* the alias of Me, as a payload
    Mtu,            \* payload bytes the raw socket takes
    Askers,         \* bound: the peers that ask Me for its alias, once each
    Viewers,        \* bound: the nodes whose user interface is started
    MaxLost,        \* bound: user interfaces that lose their connection
    MaxFaults       \* bound: frames lost or corrupted on the wire

ALL == "__ALL__"
Wrap == 65536       \* where Messaging._seq starts again
Peers == Macs \ {Me}

ASSUME MessagesAssumption ==
    /\ IsFiniteSet(Macs) /\ Me \in Macs /\ ALL \notin Macs
    /\ DOMAIN Key = Macs
    /\ Texts \in Seq(SUBSET Seq(ClearBytes)) /\ Alias \in Seq(ClearBytes)
    /\ Mtu \in Nat /\ Askers \subseteq Peers /\ Viewers \subseteq Macs
    /\ MaxLost \in Nat /\ MaxFaults \in Nat

VARIABLES
    \* --- node Me ---
    ui,             \* each node's user interface: "down", "open" (connected),
                    \* "up" (its writer registered by the server) or "lost"
    said,           \* history: the texts shown as sent, over all threads
    cmds,           \* commands on the UDS connection
    out,            \* _outgoing_queue
    sequence,       \* Messaging._seq
    answered,       \* peers that were sent a discovery reply
    handed,         \* history: the texts given to Messaging for each peer
    \* --- the network ---
    wire,           \* raw frames under way to each node
    faults,
    \* --- the receiving nodes ---
    incoming,       \* _incoming_queue
    scheduled,      \* broadcasts of chat events scheduled on the IPC loop
    stream,         \* events written to the UDS connection
    events,         \* _evq, the events the user interface has read
    shown,          \* messages_by_mac, received messages: node -> thread
    heard,          \* aliases heard: node -> set of payloads
    missed          \* history: events that no user interface read

senderVars == <<said, cmds, out, sequence, answered, handed>>
uiVars == <<scheduled, stream, events, shown, missed>>
receiverVars == <<incoming, heard, uiVars>>
vars == <<ui, senderVars, wire, faults, receiverVars>>

Init ==
    /\ ui = [m \in Macs |-> "down"]
    /\ said = <<>> /\ cmds = <<>>
    /\ out = <<>> /\ sequence = 0 /\ answered = {}
    /\ handed = [p \in Peers |-> <<>>]
    /\ wire = [m \in Macs |-> <<>>] /\ faults = 0
    /\ incoming = [m \in Macs |-> <<>>] /\ scheduled = [m \in Macs |-> <<>>]
    /\ stream = [m \in Macs |-> <<>>] /\ events = [m \in Macs |-> <<>>]
    /\ shown = [m \in Macs |-> [src \in Macs |-> <<>>]]
    /\ heard = [m \in Macs |-> {}] /\ missed = [m \in Macs |-> 0]

-----------------------------------------------------------------------------
(***************************************************************************)
(* The user interfaces connect, and may lose the connection for good       *)
(***************************************************************************)
Connect(m) ==
    /\ ui[m] = "down"
    /\ ui' = [ui EXCEPT ![m] = "open"]
    /\ UNCHANGED <<senderVars, wire, faults, receiverVars>>

\* The server runs the handler of the connection, which registers its writer.
HandleClient(m) ==
    /\ ui[m] = "open"
    /\ ui' = [ui EXCEPT ![m] = "up"]
    /\ UNCHANGED <<senderVars, wire, faults, receiverVars>>

\* Mutant: with the streams the queue of events read is thrown away.
DisconnectAndClear(m) ==
    /\ ui[m] \in {"open", "up"}
    /\ Cardinality({n \in Macs : ui[n] = "lost"}) < MaxLost
    /\ ui' = [ui EXCEPT ![m] = "lost"]
    /\ missed' = [missed EXCEPT ![m] = @ + Len(stream[m])]
    /\ stream' = [stream EXCEPT ![m] = <<>>]
    /\ events' = [events EXCEPT ![m] = <<>>]
    /\ UNCHANGED <<senderVars, wire, faults, incoming, heard, scheduled, shown>>

\* EOF or an error: the reader loop closes the streams and is not restarted.
\* What it has not read is gone.
Disconnect(m) ==
    /\ ui[m] \in {"open", "up"}
    /\ Cardinality({n \in Macs : ui[n] = "lost"}) < MaxLost
    /\ ui' = [ui EXCEPT ![m] = "lost"]
    /\ missed' = [missed EXCEPT ![m] = @ + Len(stream[m])]
    /\ stream' = [stream EXCEPT ![m] = <<>>]
    /\ UNCHANGED <<senderVars, wire, faults, incoming, heard, scheduled,
                   events, shown>>

\* Answering a command on a closed connection fails, which ends the handler
\* with the rest of the commands unread.
EndHandler ==
    /\ ui[Me] = "lost" /\ cmds # <<>>
    /\ cmds' = <<>>
    /\ UNCHANGED <<ui, said, out, sequence, answered, handed, wire, faults,
                   receiverVars>>

-----------------------------------------------------------------------------
(***************************************************************************)
(* Node Me                                                                 *)
(***************************************************************************)
\* send_text and send_text_all: the echo comes first, and send_cmd drops the
\* command without a word when there is no connection.
SendText(to) ==
    /\ ui[Me] # "down" /\ Len(said) < Len(Texts)
    /\ \E text \in Texts[Len(said) + 1] :
        LET cmd == [to |-> to, text |-> text]
        IN  /\ said' = Append(said, cmd)
            /\ cmds' = IF ui[Me] = "lost" THEN cmds ELSE Append(cmds, cmd)
    /\ UNCHANGED <<ui, out, sequence, answered, handed, wire,
                   faults, receiverVars>>

\* Any set of peers may have been heard of in the last minute.
Targets(cmd) == IF cmd.to = ALL THEN SUBSET Peers ELSE {{cmd.to}}

\* One frame per target, numbered in the order of the targets.
OnCmd ==
    /\ ui[Me] # "open" /\ cmds # <<>>
    /\ cmds' = Tail(cmds)
    /\ \E targets \in Targets(Head(cmds)) :
       \E order \in Bijection(1 .. Cardinality(targets), targets) :
            /\ out' = out \o [i \in DOMAIN order |->
                        Frame(Me, order[i], "APP_MESSAGE",
                              (sequence + i) % Wrap, Head(cmds).text)]
            /\ sequence' = (sequence + Cardinality(targets)) % Wrap
            /\ handed' = [p \in Peers |->
                            IF p \in targets
                            THEN Append(handed[p], Head(cmds).text)
                            ELSE handed[p]]
    /\ UNCHANGED <<ui, said, answered, wire, faults,
                   receiverVars>>

\* A peer has asked for the alias.
Hello(p) ==
    /\ p \notin answered
    /\ answered' = answered \union {p}
    /\ out' = Append(out, Frame(Me, p, "DISCOVER_REPLY", 0, Alias))
    /\ UNCHANGED <<ui, said, cmds, sequence, handed, wire,
                   faults, receiverVars>>

\* The sender thread.  The number of the frame stands for the random nonce.
\* The socket refuses a frame that is too long; the exception is logged and
\* the frame is gone.
Transmit ==
    /\ out # <<>>
    /\ out' = Tail(out)
    /\ LET frame == ProtectOutgoing(Head(out), Key[Me], Head(out).sequence)
       IN  wire' = IF Len(frame.payload) <= Mtu
                   THEN [wire EXCEPT ![frame.dst] =
                            Append(@, CreateEthernetFrame(frame))]
                   ELSE wire
    /\ UNCHANGED <<ui, said, cmds, sequence, answered, handed, faults,
                   receiverVars>>

-----------------------------------------------------------------------------
(***************************************************************************)
(* The network                                                             *)
(***************************************************************************)
Lose(m) ==
    /\ faults < MaxFaults /\ wire[m] # <<>>
    /\ faults' = faults + 1
    /\ wire' = [wire EXCEPT ![m] = Tail(@)]
    /\ UNCHANGED <<ui, senderVars, receiverVars>>

-----------------------------------------------------------------------------
(***************************************************************************)
(* The receiving nodes                                                     *)
(***************************************************************************)
\* The receiver thread queues what passes both checks and drops the rest.
Passed(m, raw) ==
    UNION {AcceptIncoming(frame, Key[m]) : frame \in DecodeEthernetFrame(raw)}

Receive(m) ==
    /\ wire[m] # <<>>
    /\ wire' = [wire EXCEPT ![m] = Tail(@)]
    /\ incoming' = [incoming EXCEPT
                        ![m] = @ \o SetToSeq(Passed(m, Head(wire[m])))]
    /\ UNCHANGED <<ui, senderVars, faults, heard, uiVars>>

\* The frame was damaged on its way, which may have led it to another node.
ReceiveDamaged(m) ==
    /\ faults < MaxFaults /\ wire[m] # <<>>
    /\ faults' = faults + 1
    /\ wire' = [wire EXCEPT ![m] = Tail(@)]
    /\ \E raw \in Corruptions(Head(wire[m])) :
            incoming' = [incoming EXCEPT
                            ![raw.dst] = @ \o SetToSeq(Passed(raw.dst, raw))]
    /\ UNCHANGED <<ui, senderVars, heard, uiVars>>

\* _on_app_message emits a chat event: _emit_event only schedules its
\* broadcast on the IPC loop.
DispatchMessage(m) ==
    /\ incoming[m] # <<>>
    /\ Head(incoming[m]).type = "APP_MESSAGE"
    /\ incoming' = [incoming EXCEPT ![m] = Tail(@)]
    /\ LET frame == Head(incoming[m])
       IN  scheduled' = [scheduled EXCEPT ![m] =
                Append(@, [src |-> frame.src, text |-> frame.payload])]
    /\ UNCHANGED <<ui, senderVars, wire, faults, heard, stream, events,
                   shown, missed>>

DispatchAlias(m) ==
    /\ incoming[m] # <<>>
    /\ Head(incoming[m]).type = "DISCOVER_REPLY"
    /\ incoming' = [incoming EXCEPT ![m] = Tail(@)]
    /\ heard' = [heard EXCEPT ![m] = @ \union {Head(incoming[m]).payload}]
    /\ UNCHANGED <<ui, senderVars, wire, faults, uiVars>>

\* The IPC loop writes the event to the clients registered by then.
Broadcast(m) ==
    /\ scheduled[m] # <<>>
    /\ scheduled' = [scheduled EXCEPT ![m] = Tail(@)]
    /\ \/ /\ ui[m] = "up"
          /\ stream' = [stream EXCEPT ![m] = Append(@, Head(scheduled[m]))]
          /\ UNCHANGED missed
       \/ /\ ui[m] # "up"
          /\ missed' = [missed EXCEPT ![m] = @ + 1]
          /\ UNCHANGED stream
    /\ UNCHANGED <<ui, senderVars, wire, faults, incoming, heard, events,
                   shown>>

\* The reader loop puts a line into _evq.
ReadEvent(m) ==
    /\ ui[m] = "up" /\ stream[m] # <<>>
    /\ stream' = [stream EXCEPT ![m] = Tail(@)]
    /\ events' = [events EXCEPT ![m] = Append(@, Head(stream[m]))]
    /\ UNCHANGED <<ui, senderVars, wire, faults, incoming, heard, scheduled,
                   shown, missed>>

\* _evq outlives the connection.
OnChat(m) ==
    /\ events[m] # <<>>
    /\ events' = [events EXCEPT ![m] = Tail(@)]
    /\ shown' = [shown EXCEPT ![m][Head(events[m]).src] =
                    Append(@, Head(events[m]).text)]
    /\ UNCHANGED <<ui, senderVars, wire, faults, incoming, heard, scheduled,
                   stream, missed>>

-----------------------------------------------------------------------------
\* The loops and threads at work.
Worker ==
    \/ OnCmd \/ Transmit
    \/ \E m \in Macs : \/ HandleClient(m)
                       \/ Receive(m) \/ DispatchMessage(m) \/ DispatchAlias(m)
                       \/ Broadcast(m) \/ ReadEvent(m) \/ OnChat(m)

Next ==
    \/ \E m \in Viewers : Connect(m) \/ Disconnect(m)
    \/ EndHandler
    \/ \E to \in Peers \union {ALL} : SendText(to)
    \/ \E p \in Askers : Hello(p)
    \/ Worker
    \/ \E m \in Macs : Lose(m) \/ ReceiveDamaged(m)

\* While there is work, one of them does some: they handle a bounded number
\* of texts and frames, so that none is kept waiting for ever.
Fairness == WF_vars(Worker)

Spec == Init /\ [][Next]_vars /\ Fairness
-----------------------------------------------------------------------------
(***************************************************************************)
(* Properties                                                              *)
(***************************************************************************)
Fits(text) == Len(text) + 3 <= Mtu

\* How many of these texts fit in a frame.
Fitting(texts) == Cardinality({i \in DOMAIN texts : Fits(texts[i])})

\* The texts for p among frames, and on their way at all once Messaging had
\* them: those that fit are not refused by the socket of Me.
TextsTo(p, frames) ==
    {i \in DOMAIN frames : frames[i].type = "APP_MESSAGE" /\ frames[i].dst = p}

UnderWay(p) ==
    Cardinality({i \in TextsTo(p, out) : Fits(out[i].payload)})
        + Cardinality(TextsTo(p, wire[p]))
        + Cardinality(TextsTo(p, incoming[p]))
        + Len(scheduled[p]) + Len(stream[p]) + Len(events[p])

\* Texts the user wrote to p, directly or to everyone, in his order, each of
\* them once at most.
Retold(texts, p) ==
    \E at \in [DOMAIN texts -> DOMAIN said] :
        /\ \A i \in DOMAIN texts : /\ said[at[i]].to \in {p, ALL}
                                  /\ said[at[i]].text = texts[i]
        /\ \A i, j \in DOMAIN texts : i < j => at[i] < at[j]

\* What leaves the receiver thread is clear text of a known kind, what is on
\* the wire fits the interface, and the counters keep their range.
MessagesTypeOK ==
    /\ ui \in [Macs -> {"down", "open", "up", "lost"}]
    /\ sequence \in 0 .. Wrap - 1
    /\ \A i \in DOMAIN said : said[i].to \in Peers \union {ALL}
    /\ \A m \in Macs :
        /\ stream[m] # <<>> => ui[m] = "up"
        /\ \A i \in DOMAIN wire[m] :
              wire[m][i].dst = m /\ Len(wire[m][i].data) <= Mtu + MinPayload
        /\ \A i \in DOMAIN incoming[m] :
              /\ incoming[m][i].type \in MessageType
              /\ incoming[m][i].payload \in Seq(ClearBytes)
              /\ incoming[m][i].payload_len = Len(incoming[m][i].payload)
    /\ faults \in 0 .. MaxFaults

\* A user interface shows, in the thread of Me, texts the user of Me wrote to
\* it, in their order, each at most once and unchanged, whatever frames are
\* lost or corrupted on the way; no text appears in the thread of a node that
\* wrote none, and none raises even an event at a node started with another
\* key.  An alias, which carries no tag, is kept from damage by the checksum and from
\* the padding by the length in the header.
ShownIsSent ==
    \A p \in Peers :
        /\ \A src \in Macs \ {Me} : shown[p][src] = <<>>
        /\ Key[p] # Key[Me] => scheduled[p] = <<>> /\ shown[p][Me] = <<>>
        /\ Retold(shown[p][Me], p)
        /\ heard[p] \subseteq {Alias}

\* No thread or loop drops a text: every one handed to Messaging for a peer
\* with the same key that fits a frame is under way or shown, unless a frame
\* was lost or damaged on the wire, or the peer's user interface was not
\* connected when the event was broadcast or lost its connection unread.
NoneDropped ==
    \A p \in {q \in Peers : Key[q] = Key[Me]} :
        Fitting(handed[p])
            <= UnderWay(p) + Len(shown[p][Me]) + missed[p] + faults

\* And what is under way is shown in the end.
TextsAccounted ==
    \A p \in {q \in Peers : Key[q] = Key[Me]} :
        <>[](Len(shown[p][Me]) + faults + missed[p]
                >= Fitting(handed[p]))
=============================================================================
