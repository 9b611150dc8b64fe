# LinkChat in TLA+

LinkChat exchanges text, files and folders between machines of one Ethernet
segment, over raw frames and without IP. Each node runs a backend
(`src/src/app_server.py`) and a Pygame user interface (`src/ui/app.py`) that
talk over a Unix domain socket. This directory holds TLA+ modules of the parts
in which something can go wrong, TLC runs that check them, and TLAPS proofs.

- `tlc -config X.cfg M` checks run `X` of module `M` (pairs: `PROJECT.json`);
- `tlapm M.tla` checks the proofs of `M`, one of `FileTransferProofs`,
  `AppServerProofs`, `RosterProofs`, `NeighborhoodProofs`, `MessagesProofs`,
  `ChatWindowProofs`, `FileCardsProofs`, `SentCardsProofs`.

## 1. The system

| part (source) | state | operations | talks to |
|---|---|---|---|
| ThreadManager (`core/managers/service_threads.py`) | `_outgoing_queue`, `_incoming_queue`, `_message_handlers`, `_scheduled_tasks`, `_ctx_by_id` | five threads: receiver, sender, scheduler, dispatcher, file_sender (`_pump` every 20 ms) | every other backend part, through queues and callbacks |
| FileSender (`file_transfer/file_sender.py`) | none but the contexts (`FileSendCtxSchema`) it puts in `_ctx_by_id` | `send_file`, `send_folder` (IPC thread, blocking); `_on_ack`, `_on_fin` (dispatcher) | pump, through the shared context |
| FileReceiver (`file_transfer/file_receiver.py`) | `ctx_by_id`, `.part` files, destination files | `_on_meta`, `_on_data` (dispatcher) | sender, by ACK and FIN; user interface, by `ui_events` |
| Discovery (`discover/discover.py`) | `neighbors` (insertion order), `_seq` | timer, request, reply | AppServer, by callback |
| Messaging (`messaging/service_messaging.py`) | `_seq` | `send_to_mac(s)`, `_on_app_message` | AppServer, by callback |
| SecurityManager, frame helpers (`security/`, `core/helpers/`) | the pre-shared key | `protect_outgoing`, `accept_incoming`, `create_`/`decode_ethernet_frame` | called by the sender and receiver threads |
| AppServer (`app_server.py`) | `_files_out`, poller thread; the order of start and stop | `_on_cmd`, `_file_progress_poller`, `_emit_event`, `run_forever`, `stop` | IPC server |
| IPCServer (`ipc/ipc_server.py`) | `_writers`, the socket file | commands one after another, `broadcast`, `start`, `stop` | UDSBridge |
| UDSBridge, EventPump (`ui/services/`) | `_evq`, the streams | reader loop, `send_cmd`, `pump` | services of the user interface |
| RosterService, Sidebar | `contacts`, `_idx`, `selected_mac`; highlighted row | `on_neighbors_changed`, click, keys | |
| ChatService | `messages_by_mac` | `send_text(_all)`, `on_chat` | |
| Composer, InputBar, AttachmentPicker (`ui/components/`) | the draft, its focus, the chips, the dialog and what it picked | keys, paste, `try_send`, `add_files`, `take_attachments` | main loop |
| main loop (`ui/app.py:379-525`) | none of its own | hands each event of the user to the sidebar and the composer, sends, pumps | all of the interface |
| cards of received files (`ui/app.py:153-377`) | `folder_card_rx`, `folder_stats_rx`, `fileid_to_folder_rx`, indices by name | `on_file_rx_*` | |
| cards of sent files (`ui/app.py:68-220`, `:465`) | `progress_index_tx`, `last_tick_tx` | a card per chip, `on_file_tx_*`, watchdog | |
| FileService (`ui/services/file.py`) | `transfers` | `send_path`; its event handlers are never registered | backend, by commands |

What is hard here: four threads and two event loops share contexts and tables
with few locks; frames are lost; timers race with answers; a dozen stages lie
between what one user writes and what another sees. `PROJECT.json`
("hazards") lists each hazard at its line, with the properties that watch it.

What makes the parts correct: a file is stored whole or not at all, the
sender's account of it is true, and every transfer ends (transfer); jobs that
share the tables do not disturb each other and the user interface is told
(jobs); everybody is listed once and under the right name (discovery, roster);
what is shown was said (messages); the cards say what is on the disk and what
the backend reported (cards); what the user writes and picks goes, once, to the
conversation he has open (window); the program ends when told to and serves
whoever waits, whatever an earlier run has left (start and stop).

## 2. Modules

| module | part | state and actions |
|---|---|---|
| `FileDelivery` | what a transfer promises, abstractly | chunks held, prefix confirmed, file stored, success claimed |
| `FileTransfer` | one file, two nodes | one variable per field of the two contexts, `part` and `dest` for the files; `SendFile*` (IPC thread), `Pump*` (file_sender thread, split where it is not under the lock), `OnAck`, `OnFin`, `RcvMeta`, `RcvData`, `RcvFinish` and the ways in which the disk makes them fail (dispatchers), losses and machine faults |
| `SendJobs`, `MCSendJobs` | several files of one node | IPC loop in `send_file` and `send_folder`, with the failure that ends a command (`SendFileFails`), `_pump` over a snapshot of `_ctx_by_id`, the poller over one of `_files_out` |
| `Nodes` | the peers and their aliases | constants that `Discovery` and `Roster` share |
| `Discovery` | neighbor table | `TimerDiscover`, `OnDiscoverRequest`, `OnDiscoverReply`, ageing, losses, restarts |
| `Roster` | contact list and sidebar | `OnNeighborsChanged` with the stale `_idx`, `Select`, `Click`, `Press` |
| `Neighborhood` | `Discovery` and `Roster` with the path between them | `Reply`, `Broadcast`, `Connect`, `Bootstrap`, `NeighborsGet`, `PumpEvent` |
| `Frames` | a frame between two nodes | sealing, checksum, padding, damage: operators over symbolic bytes |
| `Messages`, `MCMessages` | texts and aliases through all their stages | `SendText`, `OnCmd`, `Transmit`, `Receive`, then `DispatchMessage` (schedules the event on the IPC loop), `Broadcast` (writes it to whoever is registered), `ReadEvent` (reader loop), `OnChat`; a connection in its three steps (`Connect`, `HandleClient`, and at its end `Disconnect` and `EndHandler`); losses and damage on the wire |
| `FileCards`, `MCFileCards` | events of received files and their cards | `OnMeta`, `OnData` with every way they end, `OnFileRx*`, `FolderMarkDone` |
| `SentCards`, `MCSentCards` | cards of sent files | `SendPath` and its failure, `OnFileTxStarted`, `Progress`, `Finished` in any order the backend can report them, `Watchdog` |
| `Composer` | draft, chips and dialog | `InputKey`, `Backspace`, `Paste`, `TrySend`, `CloseChip`, `PathPicked`, `TakeAttachments` |
| `ChatWindow`, `MCChatWindow` | main loop: `Roster` and `Composer` together | `Type`, `Arrow`, `Insert`, `Click*`, `Send`, `PickPath`, `Neighbors` (an event of the roster), `Frame` |
| `Lifecycle` | the backend from start to end, and again | the steps of `run_forever` and its ways to fail (`StartFails`, `SetUpFails`), the handlers that `FileSender` enters at the first command to send a file (`MakeFileSender`, `EnterHandler`, `SendMeta`), `Stop`, `Kill`, the end of each thread, frames that arrive meanwhile, the socket file, a user interface that waits |

Each `*Proofs` module holds the theorems about the module it is named for
(`ChatWindowProofs` and `NeighborhoodProofs` both build on `RosterProofs`;
`NeighborhoodProofs` has those about `Discovery` too, `MessagesProofs` those
about `Frames`, `AppServerProofs` those about `SendJobs` and `Lifecycle`).

"map" in `PROJECT.json` names the lines each definition stands for. Operators
called "Mutant" are what a plausible bug would make of the definition next to
them; each property is violated when its mutant takes that definition's place.

**How the modules abstract.** A file is its number of chunks; a chunk is a hole,
good or bad; the hash matches when all chunks are good. Names are ranks in
their order. Time is not a variable: a timer may fire in any state, except that
`Prompt` in `FileTransfer` names timers that are assumed to be longer than any
round trip by one polling interval at least, which then fire only when nothing is
under way. That is an assumption on the network (1.5 s and more, against 0.02 s
and the time of a frame on one segment), made for the liveness of
`transfer_progress` alone: no safety property, refinement or theorem rests on it,
and `transfer_stalled` shows what is lost without it. A wire keeps the order (a FIFO outgoing
queue, one Ethernet segment, a FIFO incoming queue) and may lose frames; a frame
with a wrong checksum is a lost frame in all modules but `Messages`.
A checksum and a tag are the values they are computed from: that two different
frames never share one is assumed of CRC-32 and HMAC. A nonce is the number of
its frame.

## 3. Runs

| run | module, cfg | what it asks |
|---|---|---|
| `transfer_safety` | `FileTransfer`, `FileTransferSafety` | the books of both ends under every fault; refinement of `FileDelivery` |
| `transfer_progress` | `FileTransfer`, `FileTransferProgress` | does a transfer end, deliver, and report what is so |
| `transfer_stalled` (violation) | `FileTransfer`, `FileTransferStalled` | does it deliver without loss when the META timer may beat the answer |
| `neighborhood` | `Neighborhood`, `Neighborhood` | table sound, list complete whenever the interface connects, both right in the end after losses and restarts |
| `neighborhood_swapped` (violation) | `Neighborhood`, `NeighborhoodSwapped` | is each neighbor shown under its own alias |
| `send_different` | `MCSendJobs`, `SendJobsDifferent` | a file and a folder of two, all with different ids |
| `send_same_file` (violation) | `MCSendJobs`, `SendJobsSameFile` | the same file to two neighbors |
| `messages` | `MCMessages`, `Messages` | is what is shown said, and what is said shown |
| `file_cards` | `MCFileCards`, `FileCards` | do the cards say what is stored |
| `chat_window` | `MCChatWindow`, `ChatWindow` | does the list lose or repeat anybody; does what is written and picked go, once, where the user means it to |
| `sent_cards` | `MCSentCards`, `SentCards` | do the cards of sent files say "Enviado" when they should, and in the end |
| `lifecycle` | `Lifecycle`, `Lifecycle` | is a frame dropped for want of a handler, does a stop end the program, is a waiting interface served |

### Bounds, and why they are enough

- `transfer_safety`: three chunks and a window of two, so that the window is
  full, slides and ends short; one retransmission, two METAs, one loss, and each
  of the faults (source modified, source deleted, receiver restarted, disk
  failing) once, in any order and number. No timer is prompt. With two METAs
  `OneLateMeta` asks when the second one may be late; that a third cannot follow
  a late one is in its first conjunct (where `send_file` stands) and in the
  theorem, which has any number.
- `transfer_progress`: four chunks (two full windows), two retries and two
  losses, so that losses reach the retry limit no sooner than the code allows;
  restart and disk failure as faults; every timer is prompt.
- `neighborhood*`: two peers, two aliases, one frame under way per peer, one
  lost frame and one restart, one peer that may fall silent; a reply waits until
  the one event before it is read, and the answer to `neighbors_get` comes on top,
  so that an answer and a broadcast are together on the stream in either order.
  Two broadcasts are never under way together in this run; `ListIsComplete`
  (section 5) holds for any number of them.
  `neighborhood_swapped` has two events and asks for no liveness.
- `send_*`: two commands and three files, the least with which a folder follows
  a file, the second file of a folder waits for the first, and the pump and the
  poller hold a snapshot that is out of date.
- `messages`: three nodes, one with another key; two texts, the first of which
  may be too long; one loss or damage; one interface that may lose its connection
  at any moment, with events scheduled, written or read (`Viewers` names those
  that come and go). Two texts are the least that can change places or be taken for each other.
- `file_cards`: a folder of a file of two chunks and an empty file, a lone file
  that two sources have and cut into chunks of different sizes; three METAs, of which any may be a repetition; one
  repeated chunk.
- `chat_window`: two neighbors with two aliases, so that rows swap behind a draft;
  two characters out of a letter, one that moves through the sidebar and a blank,
  and a clip of two letters; two paths, each picked once, of which any may be gone when it is sent. Neighbors and
  paths are symmetric. What a stale index does to a third neighbor is covered by
  the proof (`NobodyIsLost`), which has any number of them.
- `sent_cards`: two sends out of a file, another of the same name and a folder
  that holds one of them and a third: the least with which an event can meet the wrong card
  and two cards get the id of one millisecond; two progress events, one before
  and one after the watchdog.
- `lifecycle`: two starts, so that the second one meets the threads, queues and
  socket file of the first; two frames, one in the queue and one on the way.

`CHECK_DEADLOCK FALSE` stands in the cfgs of `FileTransfer`, `SendJobs`,
`Messages`, `FileCards`, `ChatWindow`, `SentCards` and `Lifecycle`: they stop when
their one transfer has ended, when every command has failed or ended, or when the texts, METAs, picks, sends or starts the bound
allows are used up and handled.

### Fairness

The loops and threads of both programs run until the program ends, and each
waits for work with a timeout or for an event: weak fairness of their steps.
Strong fairness is asked for in three places. In `FileTransfer` a timer that is
due again and again fires: `SendFileWake` (the deadline and the resending of
META read the clock in every round of a loop) and the retransmission in
`_pump`, whose entries become due again while others are handled. In
`Neighborhood` a reply that finds room again and again is taken in: the room is
the bound of the model and not of the code. `Messages` asks only that some
worker acts while there is work. `SentCards` asks for the watchdog alone, which
runs in every frame. `Lifecycle` asks for the steps of `run_forever`, for the
end of each thread that sees the event to stop, for an interface that tries to
connect every now and then, and for frames to arrive: the other nodes broadcast
a request every five seconds, and without them the receiver never leaves
`recvfrom`. Nothing is assumed of the user, of losses or of faults, with one
exception: the user starts the user interface once (`Neighborhood`).

## 4. What the runs show

**Transfers.** Nothing that is lost, resent, restarted or changed on disk puts a
wrong file in place or makes the two ends' books wrong: the sender forgets no
chunk and counts none twice (`WindowExact`), what it counts as acknowledged
reached the receiver (`AckSound`), the receive context describes the `.part`
file (`ContextMatchesPart`), and a FIN ok means the file is there
(`DestinationSound`). A META can be behind data, where it makes the receiver start
anew, once at most: when its answer comes between `send_file`'s look at
`meta_acked` and its next META (`OneLateMeta`, finding 1). With answers that come
before the timers every transfer ends (`SenderFinishes`), the file arrives
with up to two losses (`Delivered`), and one loss does not keep the sender from
knowing (`SuccessReported`). A success the sender declares is followed by the
file unless a machine fails in between (`ClaimedIsStored`); it may be declared
before, as the last chunk is acknowledged before the hash is checked.

**Jobs.** A file that cannot be read ends its command, a folder with it, and
nothing else. Transfers with different ids can be found by their id as long as they
run, a folder goes file by file, no end is reported twice, the IPC loop gets
through its commands and every transfer ends.

**Neighbors.** The table never lists a peer twice or under a name it never had;
the list of the interface has exactly the peers and the names of the table,
whenever the interface connects; both settle after losses and restarts. Which
name stands with which peer is another matter (finding 2).

**Messages.** What is shown in a thread is what the user of that node wrote, in
order, unchanged and once; nothing with a wrong key or a changed header gets
through. A text that fits a frame is lost in two places only, on the wire and
between the IPC loop of the peer and its interface: those handed to the outgoing
queue for a peer with the key are, in every state, under way, shown, or counted
as lost there (`NoneDropped`), and those under way are shown or so counted in the
end (`TextsAccounted`). Losses at the interface are silent and real: an event is
only scheduled when its frame is dispatched (`app_server.py:118`), it is written
to whoever is registered when the IPC loop comes to it
(`ipc_server.py:86-102`), so that a text broadcast before the server has taken
the connection in is gone, and what the reader loop has not read when the
connection ends is closed with it (`ipc_uds.py:66-72`). What is in `_evq` by then
is still shown. Also lost: texts too long for a frame (the socket refuses them in
the sender thread, after they were shown as sent) and texts written after the
connection to the backend broke (`send_cmd` returns in silence). Discovery frames carry no tag. The checksum does not cover the
Ethernet addresses, so that a damaged source address of such a frame goes
unnoticed; `ShownIsSent` speaks of the alias only.

**Cards.** The number of files done on a card is the number stored. "Recibido"
says that every transfer the interface has heard of has stored its file
(`ReceivedIsStored`); as a folder is sent file by file and nothing says how many
there are, it appears after the first one and goes away with the next. In the end
it is there if, and only if, all that was started is stored (`CardsSettle`). After a failed or repeated transfer the counts never meet again
and the card says "Recibiendo" for ever, also when the file is sent again with
success: the file is there, the card does not say so.

**Cards of sent files.** The card of a file says "Enviado" from the end the
backend reports on, though the watchdog may have closed its entry a second into
a silence and `file_tx_started` may come last (`FinishedShown`); that holds for
cards no other card shares a name with. Every card that keeps its entry says it
in the end, because the watchdog says it, also of transfers that failed or were
never acknowledged: that is what the code means to do. Two chips sent within a
millisecond get one id and the first card loses its entry (`file.py:83`); unless
an event finds it by name it says "Enviando" for ever.

**Window.** Rows that are renamed and reordered behind a draft never redirect it
(`DraftNotRedirected`); no neighbor and nothing said of one is lost
(`NobodyLost`); a file that was picked is sent to one neighbor, waiting,
discarded or missing, and never two of these (`FilesAccounted`); with a
conversation open, what leaves the bar was handed to the backend for it
(`ClearedIsPosted`). Without one, the bar is cleared all the same.

**Start and stop.** Two kinds of frame have their handlers from the first file
this node sends on: ACK and FILE_FIN, which `FileSender` enters when the first
command makes it (`file_sender.py:18-19`, `app_server.py:189`, `:209`). A node that
only receives drops the FILE_FIN that closes each transfer, with a warning. All
other kinds have theirs once the server is set up, up to the last frame taken on
the way out, and ACK and FILE_FIN have theirs before a META of this run can have
been answered (`NoneUnhandled`). A stop ends the program as long as others send
(`StopEnds`), and a waiting interface
is served whatever socket file was left (`UiServed`). Before the set-up frames
are dropped for want of a handler, which to their sender is a lost frame.

### Findings

1. `transfer_stalled`: `send_file` tests the META timer after a sleep without
   reading `meta_acked` again (`file_sender.py:71-75`). A META resent behind data
   makes the receiver start anew (`file_receiver.py:136`, `:176`) and the
   acknowledged chunks never come again: the transfer fails with no frame lost.
2. `neighborhood_swapped`: `_idx` holds positions from before the sort
   (`roster.py:29`): a neighbor is shown under the alias of another.
3. `send_same_file`: a file id is name and hash (`file_sender.py:53`), so the
   same file to a second neighbor takes the table entry of the first transfer,
   which never ends (`service_threads.py:238`).

Met while modelling, outside of the runs:

- An empty file needs no acknowledgement and is declared complete at once
  (`service_threads.py:153`); a lost META is not sent again. `ClaimedIsStored`
  fails for `Total = 0`.
- A source file that cannot be read ends the `file_sender` thread
  (`service_threads.py:133-137` has no handler), and with it every transfer:
  `SenderFinishes` fails with the fault `"delete"`.
- `FILE_FIN` has no handler at a receiver (and that of `FileSender`, once there,
  only looks for contexts of files sent): an abandoned transfer leaves a context
  and a `.part` file.
- A file of a folder that cannot be read makes `send_folder` raise
  (`app_server.py:213`): the files sent before it never enter `_files_out`, and no
  start, progress or end of them is reported.
- A failing write of a chunk (`file_receiver.py:207`) ends its handler without an
  answer: the sender sends the chunk again.
- `remove_scheduled_task` compares bound methods with `is not` and removes none;
  as the scheduler thread has ended by then it does no harm.
- The end of a folder's file is reported only if the poller sees the context
  before the pump drops it 20 ms later (`app_server.py:350`). The watchdog of the
  interface covers for it.
- The composer clears bar and chips before the main loop looks whether a
  conversation is open (`ui/app.py:421`): what was written with none open is gone,
  against the comment in `composer.py`.
- The sidebar takes "j" and "k" for moves whatever has the focus: writing one
  opens another conversation and the rest of the draft goes there.
- Two sources that send files of one name at a time write to one `.part` file.

## 5. What is proved

`FileTransferProofs`, for every `Total`, `Window`, `MaxRetries`, `MaxMetaSends`,
`MaxLoss`, and every set of faults and prompt timers, the empty one included
(`ConstantsAssumption`):

- `TypeCorrect`: `Spec => []TypeOK`. It is inductive; what takes work are the
  wires (frames appended, taken, dropped) and the window that one step of the
  pump resends and refills.
- `Invariance`: `Spec => []IInv`, with `IInv == TypeOK /\ SInv`. None of the
  safety invariants is inductive alone: an ACK is believed by the sender because
  of what the receiver had when it sent it, which no later state shows. `SInv`
  says of every frame under way what makes it true (an ACK names a prefix that
  is held, a FIN ok is sent after the rename, data is good while the source is
  unchanged), and how the two contexts stand to each other and to the files.
- From `IInv`: `WindowExactness`, `AcknowledgedIsHeld`, `ContextAgrees`,
  `FileIntegrity` (`DestinationSound`: no wrong file, and an ok of the receiver is
  true; it holds in `IInv`, not by what the sender can see).
- `Refinement`: `Spec => ImplementsDelivery`: every step of `FileTransfer` is a
  step of `FileDelivery` or a stutter under `confirmed <- last_acked + 1`,
  `stored <- (dest = "intact")`, `claimed <- ("complete" \in verdicts)`.
- `LateMetaIsLast`: `Spec => []OneLateMeta`, with no assumption on the timers.
  `OrderInv`, the strengthening, has what no single step shows: on the wire and
  in the context there is data only after META was answered; while `send_file`
  has still a look at `meta_acked` behind it that found nothing (`"slept"`), no
  META is behind data, so that the one it may now send is the first; and before
  the first META nothing is under way but the FIN of an empty file that the pump
  found first. Frames lost or taken from the wire make no META late that was not
  (`OrderThinned`, `OrderTaken`).

`AppServerProofs`, about `SendJobs`, for any commands: `SendJobsTypeCorrect`; and, under
`DistinctIds` (no two files of the commands have one id), `OpenFound`
(`OpenIsRegistered`) and `EndToldOnce` (`EndReportedOnce`). Where `DistinctIds`
is used is where `send_same_file` fails: `add_ctx_by_id` enters a context in
place of another. The strengthening (`JobsInv`) says that each entry stands under
the id of its job (`Keyed`), that what the poller holds was once entered
(`Entered`), that it looks at an entry once in a round (`LookedAt`), and that the
entry of a job whose end was reported is gone from every table and from the
poller's snapshot (`Forgotten`).

`NeighborhoodProofs`, for every set of peers, aliases and bounds
(`DiscoveryAssumption`, `RosterAssumption`): for discovery alone
`DiscoveryTypeCorrect`, `TableSoundness` (with the strengthening
`RepliesAnnounced`: an alias under way was announced) and `TableGrowth`.
`ImplementsDiscovery`: the composition takes steps of discovery or stutters, so
that these hold in it too (`TableTypes`, `TableIsSound`). `ListIsComplete`
(`RosterComplete`) is about the path: lines need not come in the order of the
snapshots, as the answer to `neighbors_get` overtakes broadcasts that wait, so
that "each event knows more than the last" is not an invariant. `PathInv` says
instead that the newest broadcast that waits is of the table as it is, that when
none waits the newest unread line is, and that all others are of tables the
present one extends.

`RosterProofs` has what one event does to the list, whatever its rows
(`EventKeepsList`): `_idx` is a bijection from the neighbors to the positions,
though after a sort not to their own, so the loop writes each row to one contact
and every contact the rows cover takes the name and state of one row
(`Shows`: a bijection from the rows to the contacts). That is why nothing is lost
and why names may stand with the wrong neighbor.

`ChatWindowProofs`, for any neighbors, aliases, characters, clips, paths and
bounds: `WindowInvariance` of `WindowInv`, in three parts, the list and the open
conversation (`OpenInv`, from `EventKeepsList`), the draft (`DraftInv`) and the
books of the files (`FilesInv`); from it `WindowTypeCorrect`, `NobodyIsLost`,
`DraftStays` and `PickedAreAccounted`. `ClearedArePosted` shows that only sending
empties the bar of more than one character or the chips of more than one, and
that sending posts them.

`FileCardsProofs`, for any files and bounds (`FileCardsAssumption`: of two files
with one id both are empty or none):
`CardsTypeCorrect`, `DoneAreStored`, `ReceivedAreStored`. A count on a card is
behind the files by the events under way, so the strengthening counts these:
`Books` (what a card has counted and the events under way will add is what was
stored, and opened; after no prefix of them are more files done than known) and
`Attributed` (every event under way goes to the card of its file, whatever
mapping the handlers find then).

`SentCardsProofs`, for any uploads and bounds (`SentCardsAssumption`):
`SentCardsTypeCorrect` and `FinishedIsShown`, with `EntriesNamed`: an entry
under an id of the backend is that of a card with the name of that file.

`AppServerProofs`, about `Lifecycle`, for any number of starts and frames:
`LifecycleTypeCorrect` and `EveryFrameHandled`. `NoneUnhandled` needs
`Registered`, which handlers there are at each stage of `run_forever` and of
`FileSender`, and from the types that all threads have ended where the handlers
are taken away.

`MessagesProofs`, for any nodes, keys, texts, frame sizes, losses and damages
(`FramesAssumption`, `MessagesAssumption`). Two lemmas are about one frame and
rest on `Frames` alone: a frame that passes the checksum has the type, number and
payload it was sent with, only its addresses may differ (`ChecksumKeeps`); and a
sealed text is opened only by a node with the key of its sender, under the
addresses it was sent with, and gives the text that was sealed
(`OpensOnlyAsSent`). The theorems about `Messages` follow from `MessagesInv`,
proved invariant by `MessagesInvariance`, which has these parts:

- `QueuesInv`: every queue holds what the stage before it makes, so that in a
  receiver's queue there are only frames as the sender queued them;
- `TrailInv`: `ShownIsSent` says nothing of texts that are not shown yet. The
  eight places a text passes through, from the thread of the peer back to the commands,
  are read as one trail that follows the history of what the user said; `cut`
  marks how far into that history each place reaches. A step moves a text over
  one cut, appends at the end, or takes one out;
- `CountInv` with `HandedInv`: the texts handed over are no more than those in
  all places together, those missed at the interface and faults included. It is `NoneDropped` with
  sets of frames (`Picked`) that `QueuesInv` makes those of the property.

`MessagesTypeCorrect` follows from the first, `ShownWasSent` (`ShownIsSent`) from
the second and `NoTextDropped` (`NoneDropped`) from the third.

Only model-checked: liveness (under fairness: `TextsAccounted`, `SenderFinishes`
and its like), what needs ENABLED, and the runs that expect a violation. Every
safety invariant and step property of the other runs is stated by a theorem.
Induction over data is out of the prover's reach and none of the theorems needs
it.

## 6. What is not modelled

- The handlers of `FileService`: none is registered, so its table never changes
  after `send_file`. Nor `file_tx_done` and `file_tx_error`, which the backend
  never sends, and the broadcast mode of `Composer`, which nothing switches on.
- Several user interfaces on one node: `IPCServer` is modelled with one client.
  `broadcast` awaits `drain` client by client, so that a slow one may hold up
  another.
- The writer that `ChatService` uses from a loop of its own: what happens is
  inside asyncio.
- Events of a received file whose start the interface has not seen are matched
  by name (`ui/app.py:153-178`) and may reach the card of another file;
  `FileCards` has the interface connected from the start, and a file without a
  root, for which the other branch of `on_file_rx_started` is meant, does not
  occur.
- What is in a `.part` file that two senders write: `FileCards` leaves open how
  the hash of such a file comes out; `FileTransfer` has one sender.
- Age in snapshots is taken as it comes: that the last neighbor to fall silent
  is never shown as offline follows from the code having no event for it.
- Drawing, configuration, Docker and start scripts: no state of the program.
- Malformed headers and paths at the receiver: frames are authenticated and the
  sender builds none.

## 7. Plan

Done, in this order: `FileDelivery`, `FileTransfer` and its proofs; `Roster`,
`Discovery`, `Neighborhood`; `SendJobs`; `Frames`, `Messages`; `FileCards`;
`Composer`, `ChatWindow`; `SentCards`; `Lifecycle`; the proofs of all of these.

Left to model:

1. two senders at one receiver in `FileTransfer`'s detail: same file id and same
   `.part` file (`Reception`, over `FileDelivery` for each sender);
2. `IPCServer` with several clients (`IpcHub`), instead of the single client of
   `Neighborhood`;
3. `FileCards` with an interface that connects while a file is received.

Left to prove: the invariants of these extensions, and that `Reception` refines
`FileDelivery` for each sender.
