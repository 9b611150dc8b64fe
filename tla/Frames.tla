------------------------------- MODULE Frames -------------------------------
(***************************************************************************)
(* What happens to a frame between two ThreadManagers: SecurityManager     *)
(* seals it, create_ethernet_frame lays it out with its checksum, the      *)
(* network interface pads it, decode_ethernet_frame checks it and          *)
(* SecurityManager opens it.                                               *)
(*                                                                         *)
(* Bytes are symbols: a byte of clear text, a byte encrypted under a key   *)
(* and a nonce, a nonce, a tag.  A checksum and a tag are the values they  *)
(* are computed from, so that equal ones come from equal values.           *)
(***************************************************************************)
EXTENDS Integers, Sequences

CONSTANTS
    Macs,           \* the nodes on the wire
    MinPayload      \* bytes up to which the interface pads a payload

ASSUME FramesAssumption == MinPayload \in Nat

MessageType == {"DISCOVER_REQUEST", "DISCOVER_REPLY", "APP_MESSAGE", "ACK",
                "FILE_META", "FILE_DATA", "FILE_FIN"}

\* A byte of clear text, and one that is no longer what it was.
Byte(value) == [byte |-> value]
ClearBytes == [byte : Nat]
Garbled == Byte(-1)
Padding == Byte(0)

Frame(src, dst, type, sequence, payload) ==
    [src |-> src, dst |-> dst, type |-> type, sequence |-> sequence,
     payload_len |-> Len(payload), payload |-> payload]

-----------------------------------------------------------------------------
(***************************************************************************)
(* SecurityManager                                                         *)
(***************************************************************************)
ShouldProtect(type) == type \notin {"DISCOVER_REQUEST", "DISCOVER_REPLY"}

Version == [version |-> 1]

\* XOR with the keystream of (key, nonce), and XOR again.
Encrypted(key, nonce, text) ==
    [i \in DOMAIN text |-> [key |-> key, nonce |-> nonce, pos |-> i,
                            clear |-> text[i]]]
Decrypted(key, nonce, cipher) ==
    [i \in DOMAIN cipher |->
        IF /\ "clear" \in DOMAIN cipher[i]
           /\ cipher[i].key = key /\ cipher[i].nonce = nonce
           /\ cipher[i].pos = i
        THEN cipher[i].clear
        ELSE Garbled]

\* Mutant: the tag does not cover the sender's address.
AadWithoutSource(frame) == <<"", frame.dst, frame.type, frame.sequence>>

AadFor(frame) == <<frame.src, frame.dst, frame.type, frame.sequence>>

Tag(key, frame, nonce, cipher) ==
    [tag |-> <<key, AadFor(frame), nonce, cipher>>]

\* Mutant: the header keeps the length of the clear text.
ProtectOutgoingSameLength(frame, key, nonce) ==
    IF ShouldProtect(frame.type)
    THEN LET cipher == Encrypted(key, nonce, frame.payload)
         IN  [frame EXCEPT !.payload =
                <<Version, [nonce |-> nonce]>> \o cipher
                    \o <<Tag(key, frame, nonce, cipher)>>]
    ELSE frame

ProtectOutgoing(frame, key, nonce) ==
    IF ShouldProtect(frame.type)
    THEN LET cipher == Encrypted(key, nonce, frame.payload)
         IN  Frame(frame.src, frame.dst, frame.type, frame.sequence,
                   <<Version, [nonce |-> nonce]>> \o cipher
                       \o <<Tag(key, frame, nonce, cipher)>>)
    ELSE frame

\* Mutant: the payload is handed on as it came.
OpenedSealed(frame, key, data) == SubSeq(data, 3, Len(data) - 1)

Opened(frame, key, data) ==
    Decrypted(key, data[2].nonce, SubSeq(data, 3, Len(data) - 1))

\* The frames accept_incoming returns for frame: one or none.
AcceptIncoming(frame, key) ==
    LET data == frame.payload
        cipher == SubSeq(data, 3, Len(data) - 1)
    IN  IF ~ShouldProtect(frame.type) THEN {frame}
        ELSE IF /\ Len(data) >= 3
                /\ data[1] = Version
                /\ "nonce" \in DOMAIN data[2]
                /\ data[Len(data)] = Tag(key, frame, data[2].nonce, cipher)
             THEN {Frame(frame.src, frame.dst, frame.type, frame.sequence,
                         Opened(frame, key, data))}
             ELSE {}

-----------------------------------------------------------------------------
(***************************************************************************)
(* create_ethernet_frame and decode_ethernet_frame                         *)
(***************************************************************************)
\* CRC-32 over the header without checksum and the payload.
Crc(type, sequence, len, payload) == <<type, sequence, len, payload>>

Padded(payload) ==
    payload \o [i \in 1 .. MinPayload - Len(payload) |-> Padding]

CreateEthernetFrame(frame) ==
    [src |-> frame.src, dst |-> frame.dst, type |-> frame.type,
     sequence |-> frame.sequence, len |-> frame.payload_len,
     checksum |-> Crc(frame.type, frame.sequence, frame.payload_len,
                      frame.payload),
     data |-> Padded(frame.payload)]

Payload(raw) == SubSeq(raw.data, 1, IF raw.len < Len(raw.data) THEN raw.len
                                    ELSE Len(raw.data))

ChecksumRight(raw) ==
    raw.checksum = Crc(raw.type, raw.sequence, raw.len, Payload(raw))

\* The frames decode_ethernet_frame returns for raw: one, or none when it
\* raises ValueError, for the checksum or for an unknown type.
DecodeEthernetFrame(raw) ==
    IF ChecksumRight(raw) /\ raw.type \in MessageType
    THEN {[src |-> raw.src, dst |-> raw.dst, type |-> raw.type,
           sequence |-> raw.sequence, payload_len |-> raw.len,
           payload |-> Payload(raw)]}
    ELSE {}

\* What the wire can make of a frame by changing one of its fields.
Corruptions(raw) ==
    {[raw EXCEPT !.src = mac] : mac \in Macs \ {raw.src}}
    \union {[raw EXCEPT !.dst = mac] : mac \in Macs \ {raw.dst}}
    \union {[raw EXCEPT !.type = type] :
                type \in {"DISCOVER_REPLY", "APP_MESSAGE", "UNKNOWN"} \ {raw.type}}
    \union {[raw EXCEPT !.sequence = @ + 1], [raw EXCEPT !.len = @ + 1],
            [raw EXCEPT !.checksum[2] = @ + 1]}
    \union {[raw EXCEPT !.data[i] = Garbled] : i \in DOMAIN raw.data}
=============================================================================
