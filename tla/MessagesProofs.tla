--------------------------- MODULE MessagesProofs ---------------------------
(***************************************************************************)
(* Theorems about Frames and Messages, for any nodes, keys, texts and      *)
(* bounds.                                                                 *)
(***************************************************************************)
EXTENDS Messages, FiniteSetTheorems, SequenceTheorems, TLAPS

-----------------------------------------------------------------------------
(***************************************************************************)
(* A frame from its sender to its receiver                                 *)
(***************************************************************************)
\* What Messaging and Discovery of node Me put in the outgoing queue.
OutFrames ==
    {Frame(Me, p, "APP_MESSAGE", n, text) :
        p \in Peers, n \in 0 .. Wrap - 1, text \in Seq(ClearBytes)}
    \union {Frame(Me, p, "DISCOVER_REPLY", 0, Alias) : p \in Peers}

\* The frame the sender thread makes of one of them, and the raw frame.
Protected(f) == ProtectOutgoing(f, Key[Me], f.sequence)
Sent(f) == CreateEthernetFrame(Protected(f))

\* The tag before the payload and the two symbols behind it.
LEMMA Wrapped ==
    ASSUME NEW S, NEW a \in S, NEW b \in S, NEW c \in Seq(S), NEW z \in S,
           NEW w, w = <<a, b>> \o c \o <<z>>
    PROVE  /\ w \in Seq(S) /\ Len(w) = Len(c) + 3
           /\ w[1] = a /\ w[2] = b /\ w[Len(c) + 3] = z
           /\ \A i \in 1 .. Len(c) : w[i + 2] = c[i]
           /\ SubSeq(w, 3, Len(w) - 1) = c
<1>1. <<a, b>> \in Seq(S) /\ Len(<<a, b>>) = 2 /\ Len(c) \in Nat
      /\ <<z>> \in Seq(S) /\ Len(<<z>>) = 1
  OBVIOUS
<1> DEFINE v == <<a, b>> \o c
<1>2. /\ v \in Seq(S) /\ Len(v) = Len(c) + 2
      /\ v[1] = a /\ v[2] = b
      /\ \A i \in 1 .. Len(c) : v[i + 2] = c[i]
  BY <1>1, ConcatProperties
<1> HIDE DEF v
<1>3. w = v \o <<z>>
  BY DEF v
<1>4. /\ w \in Seq(S) /\ Len(w) = Len(c) + 3
      /\ \A i \in 1 .. Len(c) + 2 : w[i] = v[i]
      /\ w[Len(c) + 3] = z
  BY <1>1, <1>2, <1>3, ConcatProperties
<1>5. \A i \in 1 .. Len(c) : w[i + 2] = c[i]
  BY <1>1, <1>2, <1>4
<1>6. SubSeq(w, 3, Len(w) - 1) = c
  <2> DEFINE s == SubSeq(w, 3, Len(w) - 1)
  <2>1. /\ s \in Seq(S) /\ Len(s) = Len(c)
        /\ \A i \in 1 .. Len(c) : s[i] = w[i + 2]
    BY <1>1, <1>4
  <2> HIDE DEF s
  <2>2. s = c
    BY <1>5, <2>1, SeqEqual
  <2> QED
    BY <2>2 DEF s
<1> QED
  BY <1>1, <1>2, <1>4, <1>5, <1>6

\* What the interface adds to a short payload is behind it.
LEMMA PaddedKeeps ==
    ASSUME NEW S, NEW w \in Seq(S)
    PROVE  /\ Padded(w) \in Seq(S \union {Padding})
           /\ Len(Padded(w)) = IF Len(w) < MinPayload THEN MinPayload
                                                      ELSE Len(w)
           /\ \A i \in 1 .. Len(w) : Padded(w)[i] = w[i]
           /\ SubSeq(Padded(w), 1, Len(w)) = w
<1> DEFINE pad == [i \in 1 .. MinPayload - Len(w) |-> Padding]
           d == Padded(w)
           T == S \union {Padding}
<1>1. Len(w) \in Nat /\ w \in Seq(T) /\ MinPayload \in Nat
  BY FramesAssumption
<1>2. pad \in Seq(T) /\ Len(pad) = IF Len(w) < MinPayload
                                   THEN MinPayload - Len(w) ELSE 0
  <2>1. CASE Len(w) < MinPayload
    <3>1. pad \in [1 .. MinPayload - Len(w) -> T] /\ MinPayload - Len(w) \in Nat
      BY <1>1, <2>1
    <3> QED
      BY <2>1, <3>1
  <2>2. CASE ~(Len(w) < MinPayload)
    <3>1. 1 .. MinPayload - Len(w) = 1 .. 0
      BY <1>1, <2>2
    <3>2. pad = [i \in 1 .. 0 |-> Padding] /\ Len(<<>>) = 0 /\ <<>> \in Seq(T)
      BY <3>1
    <3>3. [i \in 1 .. 0 |-> Padding] = <<>>
      OBVIOUS
    <3> HIDE DEF pad, T
    <3> QED
      BY <2>2, <3>2, <3>3
  <2> QED
    BY <2>1, <2>2
<1>3. d = w \o pad
  BY DEF Padded
<1> HIDE DEF d, pad, T
<1>4. /\ d \in Seq(T) /\ Len(d) = Len(w) + Len(pad)
      /\ \A i \in 1 .. Len(w) : d[i] = w[i]
  BY <1>1, <1>2, <1>3, ConcatProperties
<1>5. SubSeq(d, 1, Len(w)) = w
  <2> DEFINE s == SubSeq(d, 1, Len(w))
  <2>1. s \in Seq(T) /\ Len(s) = Len(w) /\ \A i \in 1 .. Len(w) : s[i] = d[i]
    BY <1>1, <1>2, <1>4
  <2> HIDE DEF s
  <2>2. s = w
    BY <1>1, <1>4, <2>1, SeqEqual
  <2> QED
    BY <2>2 DEF s
<1>6. Len(d) = IF Len(w) < MinPayload THEN MinPayload ELSE Len(w)
  BY <1>1, <1>2, <1>4
<1> QED
  BY <1>4, <1>5, <1>6 DEF d, T

\* The fields of a frame in the outgoing queue.
LEMMA OutFields ==
    ASSUME NEW f \in OutFrames
    PROVE  /\ f.src = Me /\ f.dst \in Peers
           /\ f.type \in {"DISCOVER_REPLY", "APP_MESSAGE"}
           /\ f.sequence \in 0 .. Wrap - 1
           /\ f.payload \in Seq(ClearBytes) /\ Len(f.payload) \in Nat
           /\ f.payload_len = Len(f.payload)
           /\ f.type = "DISCOVER_REPLY" => f.payload = Alias
           /\ f = Frame(f.src, f.dst, f.type, f.sequence, f.payload)
<1>1. CASE \E p \in Peers, n \in 0 .. Wrap - 1, text \in Seq(ClearBytes) :
                f = Frame(Me, p, "APP_MESSAGE", n, text)
  <2>1. PICK p \in Peers, n \in 0 .. Wrap - 1, text \in Seq(ClearBytes) :
                f = Frame(Me, p, "APP_MESSAGE", n, text)
    BY <1>1
  <2>2. /\ f.src = Me /\ f.dst = p /\ f.type = "APP_MESSAGE"
        /\ f.sequence = n /\ f.payload = text /\ f.payload_len = Len(text)
    BY <2>1 DEF Frame
  <2>3. Len(text) \in Nat
    OBVIOUS
  <2> QED
    BY <2>1, <2>2, <2>3
<1>2. CASE \E p \in Peers : f = Frame(Me, p, "DISCOVER_REPLY", 0, Alias)
  <2>1. PICK p \in Peers : f = Frame(Me, p, "DISCOVER_REPLY", 0, Alias)
    BY <1>2
  <2>2. /\ f.src = Me /\ f.dst = p /\ f.type = "DISCOVER_REPLY"
        /\ f.sequence = 0 /\ f.payload = Alias /\ f.payload_len = Len(Alias)
    BY <2>1 DEF Frame
  <2>3. /\ Alias \in Seq(ClearBytes) /\ Len(Alias) \in Nat
        /\ Wrap \in Nat \ {0}
    BY MessagesAssumption DEF Wrap
  <2> QED
    BY <2>1, <2>2, <2>3
<1> QED
  BY <1>1, <1>2 DEF OutFrames

\* A text leaves as version, nonce, cipher and tag.
LEMMA SealedText ==
    ASSUME NEW f \in OutFrames, f.type = "APP_MESSAGE",
           NEW g, g = Protected(f), NEW c,
           c = Encrypted(Key[Me], f.sequence, f.payload)
    PROVE  /\ g = Frame(f.src, f.dst, f.type, f.sequence, g.payload)
           /\ c \in Seq(Range(c)) /\ Len(c) = Len(f.payload)
           /\ Len(g.payload) = Len(f.payload) + 3
           /\ \E S : g.payload \in Seq(S)
           /\ g.payload[1] = Version
           /\ g.payload[2] = [nonce |-> f.sequence]
           /\ g.payload[Len(g.payload)] = Tag(Key[Me], f, f.sequence, c)
           /\ \A i \in 1 .. Len(f.payload) : g.payload[i + 2] = c[i]
           /\ SubSeq(g.payload, 3, Len(g.payload) - 1) = c
<1>1. f.payload \in Seq(ClearBytes) /\ Len(f.payload) \in Nat
  BY OutFields
<1>2. c \in Seq(Range(c)) /\ Len(c) = Len(f.payload)
  <2>1. DOMAIN f.payload = 1 .. Len(f.payload)
    BY <1>1
  <2>2. c \in [1 .. Len(f.payload) -> Range(c)]
    BY <2>1 DEF Encrypted, Range
  <2> QED
    BY <1>1, <2>2
<1> DEFINE n == [nonce |-> f.sequence]
           tag == Tag(Key[Me], f, f.sequence, c)
           w == <<Version, n>> \o c \o <<tag>>
           S == Range(c) \union {Version, n, tag}
<1>3. c \in Seq(S) /\ Version \in S /\ n \in S /\ tag \in S
  BY <1>2
<1>4. g = Frame(f.src, f.dst, f.type, f.sequence, w)
  BY DEF Protected, ProtectOutgoing, ShouldProtect
<1>5. g.payload = w
  BY <1>4 DEF Frame
<1> HIDE DEF w, S, n, tag
<1>6. /\ w \in Seq(S) /\ Len(w) = Len(c) + 3
      /\ w[1] = Version /\ w[2] = n /\ w[Len(c) + 3] = tag
      /\ \A i \in 1 .. Len(c) : w[i + 2] = c[i]
      /\ SubSeq(w, 3, Len(w) - 1) = c
  BY <1>3, Wrapped DEF w
<1> QED
  BY <1>2, <1>4, <1>5, <1>6 DEF n, tag

\* The raw frame holds what the sender thread made, whatever its kind.
LEMMA RawFrame ==
    ASSUME NEW f \in OutFrames, NEW g, g = Protected(f),
           NEW raw, raw = Sent(f)
    PROVE  /\ g = Frame(f.src, f.dst, f.type, f.sequence, g.payload)
           /\ Len(g.payload) \in Nat
           /\ raw = [src |-> f.src, dst |-> f.dst, type |-> f.type,
                     sequence |-> f.sequence, len |-> Len(g.payload),
                     checksum |-> <<f.type, f.sequence, Len(g.payload),
                                    g.payload>>,
                     data |-> Padded(g.payload)]
           /\ Len(raw.data) = IF Len(g.payload) < MinPayload THEN MinPayload
                                                            ELSE Len(g.payload)
           /\ DOMAIN raw.data = 1 .. Len(raw.data)
           /\ \A i \in 1 .. Len(g.payload) : raw.data[i] = g.payload[i]
           /\ SubSeq(raw.data, 1, Len(g.payload)) = g.payload
<1>1. /\ g = Frame(f.src, f.dst, f.type, f.sequence, g.payload)
      /\ \E S : g.payload \in Seq(S)
  <2>1. CASE f.type = "APP_MESSAGE"
    BY <2>1, SealedText
  <2>2. CASE f.type # "APP_MESSAGE"
    <3>1. f.type = "DISCOVER_REPLY" /\ f.payload \in Seq(ClearBytes)
      BY <2>2, OutFields
    <3>2. g = f
      BY <3>1 DEF Protected, ProtectOutgoing, ShouldProtect
    <3>3. f = Frame(f.src, f.dst, f.type, f.sequence, f.payload)
      BY OutFields
    <3> QED
      BY <3>1, <3>2, <3>3
  <2> QED
    BY <2>1, <2>2
<1>2. PICK S : g.payload \in Seq(S)
  BY <1>1
<1>3. /\ Padded(g.payload) \in Seq(S \union {Padding})
      /\ Len(Padded(g.payload)) = IF Len(g.payload) < MinPayload
                                  THEN MinPayload ELSE Len(g.payload)
      /\ \A i \in 1 .. Len(g.payload) : Padded(g.payload)[i] = g.payload[i]
      /\ SubSeq(Padded(g.payload), 1, Len(g.payload)) = g.payload
  BY <1>2, PaddedKeeps
<1>4. /\ g.src = f.src /\ g.dst = f.dst /\ g.type = f.type
      /\ g.sequence = f.sequence /\ g.payload_len = Len(g.payload)
  BY <1>1 DEF Frame
<1>5. raw = [src |-> f.src, dst |-> f.dst, type |-> f.type,
             sequence |-> f.sequence, len |-> Len(g.payload),
             checksum |-> <<f.type, f.sequence, Len(g.payload), g.payload>>,
             data |-> Padded(g.payload)]
  BY <1>4 DEF Sent, CreateEthernetFrame, Crc
<1>6. raw.data = Padded(g.payload)
  BY <1>5
<1>7. Len(g.payload) \in Nat
  BY <1>2
<1>8. DOMAIN Padded(g.payload) = 1 .. Len(Padded(g.payload))
  BY <1>3
<1> QED
  BY <1>1, <1>3, <1>5, <1>6, <1>7, <1>8

\* The raw frames that may arrive when f was sent: as it was, or damaged.
Arriving(f) == {Sent(f)} \union Corruptions(Sent(f))

\* A frame that passes the checksum has the type, the number and the payload
\* it was sent with; only the addresses are not covered.
LEMMA ChecksumKeeps ==
    ASSUME NEW f \in OutFrames, NEW raw \in Arriving(f),
           NEW h \in DecodeEthernetFrame(raw)
    PROVE  /\ h = Frame(h.src, h.dst, f.type, f.sequence, Protected(f).payload)
           /\ h.dst = raw.dst
           /\ raw.dst = f.dst \/ raw.src = f.src
           /\ h.src \in Macs /\ h.dst \in Macs
<1> DEFINE g == Protected(f)
           r == Sent(f)
           n == Len(g.payload)
<1>1. /\ n \in Nat
      /\ r = [src |-> f.src, dst |-> f.dst, type |-> f.type,
              sequence |-> f.sequence, len |-> n,
              checksum |-> <<f.type, f.sequence, n, g.payload>>,
              data |-> Padded(g.payload)]
  BY RawFrame
<1>2. f.sequence \in Nat /\ f.src \in Macs /\ f.dst \in Macs
  BY OutFields, MessagesAssumption DEF Peers
<1>3. /\ ChecksumRight(raw)
      /\ h = [src |-> raw.src, dst |-> raw.dst, type |-> raw.type,
              sequence |-> raw.sequence, payload_len |-> raw.len,
              payload |-> Payload(raw)]
  BY DEF DecodeEthernetFrame
<1> HIDE DEF g, n
<1>4. /\ r.src = f.src /\ r.dst = f.dst /\ r.type = f.type
      /\ r.sequence = f.sequence /\ r.len = n
      /\ r.checksum = <<f.type, f.sequence, n, g.payload>>
  BY <1>1
<1> HIDE DEF r
<1>5. raw.checksum = <<raw.type, raw.sequence, raw.len, Payload(raw)>>
  BY <1>3 DEF ChecksumRight, Crc
<1>6. /\ raw.checksum = r.checksum
      /\ raw.dst = f.dst \/ raw.src = f.src
      /\ raw.src \in Macs /\ raw.dst \in Macs
  <2> USE <1>2
  <2>1. CASE raw = r
    BY <1>4, <2>1
  <2>2. CASE \E mac \in Macs : raw = [r EXCEPT !.src = mac]
    BY <1>1, <1>4, <2>2 DEF r
  <2>3. CASE \E mac \in Macs : raw = [r EXCEPT !.dst = mac]
    BY <1>1, <1>4, <2>3 DEF r
  <2>4. CASE \E type : raw = [r EXCEPT !.type = type]
    BY <1>1, <1>4, <2>4 DEF r
  <2>5. CASE raw = [r EXCEPT !.sequence = @ + 1]
    BY <1>1, <1>4, <2>5 DEF r
  <2>6. CASE raw = [r EXCEPT !.len = @ + 1]
    BY <1>1, <1>4, <2>6 DEF r
  <2>7. CASE raw = [r EXCEPT !.checksum[2] = @ + 1]
    <3>1. /\ raw.sequence = f.sequence
          /\ raw.checksum = [r.checksum EXCEPT ![2] = @ + 1]
      BY <1>1, <1>4, <2>7 DEF r
    <3>2. raw.checksum[2] = f.sequence + 1
      BY <1>4, <3>1
    <3>3. raw.checksum[2] = f.sequence
      BY <1>5, <3>1
    <3> QED
      BY <1>2, <3>2, <3>3
  <2>8. CASE \E i \in DOMAIN r.data : raw = [r EXCEPT !.data[i] = Garbled]
    BY <1>1, <1>4, <2>8 DEF r
  <2> QED
    BY <2>1, <2>2, <2>3, <2>4, <2>5, <2>6, <2>7, <2>8
    DEF Arriving, Corruptions, r
<1>7. /\ raw.type = f.type /\ raw.sequence = f.sequence /\ raw.len = n
      /\ Payload(raw) = g.payload
  BY <1>4, <1>5, <1>6
<1> QED
  BY <1>3, <1>6, <1>7 DEF Frame, n, g

\* SecurityManager of a node with key k opens the sealed text f, arriving as
\* h, when k is the key of Me and the addresses are those of f, and then
\* hands on what Me sent; otherwise it drops the frame.
LEMMA OpensOnlyAsSent ==
    ASSUME NEW f \in OutFrames, f.type = "APP_MESSAGE", NEW h, NEW k,
           h = Frame(h.src, h.dst, f.type, f.sequence, Protected(f).payload)
    PROVE  AcceptIncoming(h, k) =
                IF k = Key[Me] /\ h.src = f.src /\ h.dst = f.dst
                THEN {f} ELSE {}
<1> DEFINE c == Encrypted(Key[Me], f.sequence, f.payload)
           g == Protected(f)
           w == g.payload
           n == Len(f.payload)
<1>1. /\ n \in Nat /\ f.payload \in Seq(ClearBytes)
      /\ f = Frame(f.src, f.dst, f.type, f.sequence, f.payload)
  BY OutFields
<1>2. /\ Len(c) = n /\ DOMAIN c = 1 .. n
      /\ Len(w) = n + 3 /\ w[1] = Version /\ w[2] = [nonce |-> f.sequence]
      /\ w[n + 3] = Tag(Key[Me], f, f.sequence, c)
      /\ SubSeq(w, 3, Len(w) - 1) = c
  <2>1. c \in Seq(Range(c))
    BY SealedText
  <2>2. DOMAIN c = 1 .. Len(c)
    BY <2>1
  <2> QED
    BY <2>2, SealedText
<1>3. Decrypted(Key[Me], f.sequence, c) = f.payload
  <2>1. \A i \in 1 .. n :
            /\ c[i] = [key |-> Key[Me], nonce |-> f.sequence, pos |-> i,
                       clear |-> f.payload[i]]
            /\ "clear" \in DOMAIN c[i]
    <3>1. DOMAIN f.payload = 1 .. n
      BY <1>1
    <3> QED
      BY <3>1 DEF Encrypted
  <2>2. \A i \in 1 .. n : c[i].key = Key[Me] /\ c[i].nonce = f.sequence
                          /\ c[i].pos = i /\ c[i].clear = f.payload[i]
    <3> SUFFICES ASSUME NEW i \in 1 .. n
                 PROVE  c[i].key = Key[Me] /\ c[i].nonce = f.sequence
                        /\ c[i].pos = i /\ c[i].clear = f.payload[i]
      OBVIOUS
    <3>1. \A x : x = [key |-> Key[Me], nonce |-> f.sequence, pos |-> i,
                      clear |-> f.payload[i]]
                => x.key = Key[Me] /\ x.nonce = f.sequence /\ x.pos = i
                   /\ x.clear = f.payload[i]
      OBVIOUS
    <3> QED
      BY <2>1, <3>1
  <2> HIDE DEF c
  <2>3. Decrypted(Key[Me], f.sequence, c) = [i \in 1 .. n |-> f.payload[i]]
    BY <1>2, <2>1, <2>2 DEF Decrypted
  <2>4. f.payload = [i \in 1 .. n |-> f.payload[i]]
    BY <1>1
  <2> QED
    BY <2>3, <2>4
<1>4. /\ h.payload = w /\ h.type = f.type /\ h.sequence = f.sequence
      /\ ShouldProtect(h.type)
  BY DEF Frame, ShouldProtect
<1>5. w[2].nonce = f.sequence /\ "nonce" \in DOMAIN w[2]
  BY <1>2
<1>6. (w[n + 3] = Tag(k, h, f.sequence, c))
      <=> (k = Key[Me] /\ h.src = f.src /\ h.dst = f.dst)
  <2>1. AadFor(h) = AadFor(f) <=> h.src = f.src /\ h.dst = f.dst
    BY <1>4 DEF AadFor
  <2>2. \A x, y : [tag |-> x] = [tag |-> y] <=> x = y
    <3> SUFFICES ASSUME NEW x, NEW y, [tag |-> x] = [tag |-> y]
                 PROVE  x = y
      OBVIOUS
    <3>1. [tag |-> x].tag = x /\ [tag |-> y].tag = y
      OBVIOUS
    <3> QED
      BY <3>1
  <2> HIDE DEF c, w, n
  <2>3. w[n + 3] = [tag |-> <<Key[Me], AadFor(f), f.sequence, c>>]
    BY <1>2 DEF Tag
  <2>4. (w[n + 3] = [tag |-> <<k, AadFor(h), f.sequence, c>>])
        <=> <<Key[Me], AadFor(f), f.sequence, c>>
            = <<k, AadFor(h), f.sequence, c>>
    BY <2>2, <2>3
  <2> QED
    BY <2>1, <2>4 DEF Tag
<1> HIDE DEF c, w, n, g
<1>7. CASE k = Key[Me] /\ h.src = f.src /\ h.dst = f.dst
  <2>1. Opened(h, k, w) = f.payload
    BY <1>2, <1>3, <1>5, <1>7 DEF Opened
  <2>2. Len(w) >= 3 /\ Len(w) = n + 3
    BY <1>1, <1>2
  <2>3. AcceptIncoming(h, k) =
            {Frame(h.src, h.dst, h.type, h.sequence, Opened(h, k, w))}
    BY <1>2, <1>4, <1>5, <1>6, <1>7, <2>2 DEF AcceptIncoming
  <2> QED
    BY <1>1, <1>4, <1>7, <2>1, <2>3
<1>8. CASE ~(k = Key[Me] /\ h.src = f.src /\ h.dst = f.dst)
  BY <1>2, <1>4, <1>5, <1>6, <1>8 DEF AcceptIncoming
<1> QED
  BY <1>7, <1>8

\* What the receiver thread of node m may queue: texts as Me sent them to m,
\* if m has the key of Me, and the alias of Me under any address.
InFrames(m) ==
    {f \in OutFrames : f.type = "APP_MESSAGE" /\ f.dst = m /\ Key[m] = Key[Me]}
    \union {Frame(src, m, "DISCOVER_REPLY", 0, Alias) : src \in Macs}

\* The receiver thread of m takes from an arriving frame one frame or none.
LEMMA PassedFrame ==
    ASSUME NEW f \in OutFrames, NEW raw \in Arriving(f), NEW m \in Macs,
           raw.dst = m
    PROVE  \/ Passed(m, raw) = {}
           \/ \E x \in InFrames(m) :
                /\ Passed(m, raw) = {x}
                /\ x.type = f.type
                /\ x.type = "APP_MESSAGE" => x = f
<1>1. CASE DecodeEthernetFrame(raw) = {}
  BY <1>1 DEF Passed
<1>2. CASE DecodeEthernetFrame(raw) # {}
  <2>1. PICK h : DecodeEthernetFrame(raw) = {h}
    BY <1>2 DEF DecodeEthernetFrame
  <2>2. /\ h = Frame(h.src, h.dst, f.type, f.sequence, Protected(f).payload)
        /\ h.dst = m
    BY <2>1, ChecksumKeeps
  <2>3. Passed(m, raw) = AcceptIncoming(h, Key[m])
    BY <2>1 DEF Passed
  <2>4. CASE f.type = "APP_MESSAGE"
    <3>1. AcceptIncoming(h, Key[m]) =
            IF Key[m] = Key[Me] /\ h.src = f.src /\ h.dst = f.dst
            THEN {f} ELSE {}
      BY <2>2, <2>4, OpensOnlyAsSent
    <3>2. CASE Key[m] = Key[Me] /\ h.src = f.src /\ h.dst = f.dst
      <4>1. f \in InFrames(m)
        BY <2>2, <2>4, <3>2 DEF InFrames
      <4> QED
        BY <2>3, <3>1, <3>2, <4>1
    <3>3. CASE ~(Key[m] = Key[Me] /\ h.src = f.src /\ h.dst = f.dst)
      BY <2>3, <3>1, <3>3
    <3> QED
      BY <3>2, <3>3
  <2>5. CASE f.type # "APP_MESSAGE"
    <3>1. /\ f.type = "DISCOVER_REPLY" /\ f.payload = Alias
          /\ f.sequence = 0
      BY <2>5, OutFields DEF OutFrames, Frame
    <3>2. Protected(f).payload = Alias
      BY <3>1 DEF Protected, ProtectOutgoing, ShouldProtect
    <3>3. h = Frame(h.src, m, "DISCOVER_REPLY", 0, Alias)
      BY <2>2, <3>1, <3>2
    <3>4. h.type = "DISCOVER_REPLY"
      BY <3>3 DEF Frame
    <3>5. Passed(m, raw) = {h}
      BY <2>3, <3>4 DEF AcceptIncoming, ShouldProtect
    <3>6. h.src \in Macs
      BY <2>1, ChecksumKeeps
    <3> QED
      BY <3>1, <3>3, <3>4, <3>5, <3>6 DEF InFrames
  <2> QED
    BY <2>4, <2>5, OutFields
<1> QED
  BY <1>1, <1>2

-----------------------------------------------------------------------------
(***************************************************************************)
(* What each queue holds                                                   *)
(***************************************************************************)
Cmds == [to : Peers \union {ALL}, text : Seq(ClearBytes)]

\* The raw frames under way to m: those of Me to m that fit the interface.
WireFrames(m) ==
    {Sent(f) : f \in {g \in OutFrames :
                        g.dst = m /\ Len(Protected(g).payload) <= Mtu}}

\* Chat events of m are texts of Me, and only at nodes with its key.
ChatEvents(m) ==
    {e \in [src : {Me}, text : Seq(ClearBytes)] : Key[m] = Key[Me]}

SenderInv ==
    /\ said \in Seq(Cmds) /\ cmds \in Seq(Cmds) /\ out \in Seq(OutFrames)
    /\ sequence \in 0 .. Wrap - 1

NetworkInv ==
    /\ DOMAIN wire = Macs /\ \A m \in Macs : wire[m] \in Seq(WireFrames(m))
    /\ faults \in 0 .. MaxFaults

ReceiverInv ==
    /\ ui \in [Macs -> {"down", "open", "up", "lost"}]
    /\ DOMAIN incoming = Macs /\ DOMAIN scheduled = Macs
    /\ DOMAIN stream = Macs /\ DOMAIN events = Macs
    /\ \A m \in Macs :
        /\ incoming[m] \in Seq(InFrames(m))
        /\ scheduled[m] \in Seq(ChatEvents(m))
        /\ stream[m] \in Seq(ChatEvents(m))
        /\ events[m] \in Seq(ChatEvents(m))
        /\ stream[m] # <<>> => ui[m] = "up"
    /\ heard \in [Macs -> SUBSET {Alias}]

\* Received texts are in the thread of Me, and only at nodes with its key.
ThreadsInv ==
    /\ shown \in [Macs -> [Macs -> Seq(Seq(ClearBytes))]]
    /\ \A m \in Macs :
        /\ \A src \in Macs \ {Me} : shown[m][src] = <<>>
        /\ Key[m] # Key[Me] => shown[m][Me] = <<>>

QueuesInv == SenderInv /\ NetworkInv /\ ReceiverInv /\ ThreadsInv

\* A queue of one kind keeps its kind.
LEMMA QueueTakes ==
    ASSUME NEW S, NEW q \in Seq(S), q # <<>>
    PROVE  /\ Head(q) = q[1] /\ q[1] \in S /\ Tail(q) \in Seq(S)
           /\ Len(q) \in Nat \ {0} /\ Len(Tail(q)) = Len(q) - 1
           /\ \A i \in 1 .. Len(q) - 1 : Tail(q)[i] = q[i + 1]
  BY HeadTailProperties

LEMMA QueueGrows ==
    ASSUME NEW S, NEW q \in Seq(S), NEW r \in Seq(S)
    PROVE  /\ q \o r \in Seq(S) /\ Len(q \o r) = Len(q) + Len(r)
           /\ Len(q) \in Nat /\ Len(r) \in Nat
           /\ \A i \in 1 .. Len(q) : (q \o r)[i] = q[i]
           /\ \A i \in 1 .. Len(r) : (q \o r)[Len(q) + i] = r[i]
  BY ConcatProperties

LEMMA QueueAppends ==
    ASSUME NEW S, NEW q \in Seq(S), NEW x \in S
    PROVE  /\ Append(q, x) \in Seq(S) /\ Len(Append(q, x)) = Len(q) + 1
           /\ Len(q) \in Nat
           /\ \A i \in 1 .. Len(q) : Append(q, x)[i] = q[i]
           /\ Append(q, x)[Len(q) + 1] = x
  BY AppendProperties

\* The sequence of no frame or of one.
LEMMA SequenceOfOne ==
    /\ SetToSeq({}) = <<>>
    /\ \A x : SetToSeq({x}) = <<x>>
<1>1. SetToSeq({}) = <<>>
  <2>1. [1 .. Cardinality({}) -> {}] = [{} -> {}]
    <3>1. Cardinality({}) = 0 /\ 1 .. 0 = {}
      BY FS_EmptySet
    <3> QED
      BY <3>1
  <2>2. \E g \in [{} -> {}] : IsInjective(g)
    <3>1. <<>> \in [{} -> {}] /\ DOMAIN <<>> = {}
      OBVIOUS
    <3> QED
      BY <3>1 DEF IsInjective
  <2>3. SetToSeq({}) \in [{} -> {}]
    BY <2>1, <2>2 DEF SetToSeq
  <2>4. \A g \in [{} -> {}] : g = <<>>
    OBVIOUS
  <2> QED
    BY <2>3, <2>4
<1>2. ASSUME NEW x PROVE SetToSeq({x}) = <<x>>
  <2>1. [1 .. Cardinality({x}) -> {x}] = [{1} -> {x}]
    <3>1. Cardinality({x}) = 1 /\ 1 .. 1 = {1}
      BY FS_Singleton
    <3> QED
      BY <3>1
  <2>2. \E g \in [{1} -> {x}] : IsInjective(g)
    <3>1. [i \in {1} |-> x] \in [{1} -> {x}]
          /\ IsInjective([i \in {1} |-> x])
      BY DEF IsInjective
    <3> QED
      BY <3>1
  <2>3. SetToSeq({x}) \in [{1} -> {x}]
    BY <2>1, <2>2 DEF SetToSeq
  <2>4. \A g \in [{1} -> {x}] : g = <<x>>
    <3>1. \A g \in [1 .. 1 -> {x}] : g \in Seq({x}) /\ Len(g) = 1 /\ g[1] = x
      OBVIOUS
    <3>2. <<x>> \in Seq({x}) /\ Len(<<x>>) = 1 /\ <<x>>[1] = x
      OBVIOUS
    <3>3. \A g \in [1 .. 1 -> {x}] : g = <<x>>
      BY <3>1, <3>2, SeqEqual
    <3> QED
      BY <3>3
  <2> QED
    BY <2>3, <2>4
<1> QED
  BY <1>1, <1>2

\* The frames the receiver thread of m queues for an arriving raw frame.
LEMMA PassedQueue ==
    ASSUME NEW f \in OutFrames, NEW raw \in Arriving(f), NEW m \in Macs,
           raw.dst = m, NEW q, q = SetToSeq(Passed(m, raw))
    PROVE  /\ q \in Seq(InFrames(m))
           /\ \/ q = <<>>
              \/ /\ Len(q) = 1 /\ q[1].type = f.type
                 /\ q[1].type = "APP_MESSAGE" => q[1] = f
<1>1. CASE Passed(m, raw) = {}
  <2>1. q = <<>> /\ <<>> \in Seq(InFrames(m))
    BY <1>1, SequenceOfOne
  <2> QED
    BY <2>1
<1>2. CASE \E x \in InFrames(m) :
                /\ Passed(m, raw) = {x}
                /\ x.type = f.type
                /\ x.type = "APP_MESSAGE" => x = f
  <2>1. PICK x \in InFrames(m) :
                /\ Passed(m, raw) = {x}
                /\ x.type = f.type
                /\ x.type = "APP_MESSAGE" => x = f
    BY <1>2
  <2>2. q = <<x>>
    BY <2>1, SequenceOfOne
  <2>3. q \in Seq(InFrames(m)) /\ Len(q) = 1 /\ q[1] = x
    BY <2>2
  <2> QED
    BY <2>1, <2>3
<1> QED
  BY <1>1, <1>2, PassedFrame

LEMMA QueuesInit ==
    ASSUME Init PROVE QueuesInv
<1>1. SenderInv
  <2>1. 0 \in 0 .. Wrap - 1
    BY DEF Wrap
  <2>2. \A S : <<>> \in Seq(S)
    OBVIOUS
  <2> QED
    BY <2>1, <2>2 DEF Init, SenderInv
<1>2. NetworkInv
  BY MessagesAssumption DEF Init, NetworkInv
<1>3. ReceiverInv
  <2>1. \A S : <<>> \in Seq(S)
    OBVIOUS
  <2> QED
    BY <2>1 DEF Init, ReceiverInv
<1>4. ThreadsInv
  <2>1. <<>> \in Seq(Seq(ClearBytes))
    OBVIOUS
  <2>2. [src \in Macs |-> <<>>] \in [Macs -> Seq(Seq(ClearBytes))]
    BY <2>1
  <2>3. shown = [m \in Macs |-> [src \in Macs |-> <<>>]]
    BY DEF Init
  <2>4. shown \in [Macs -> [Macs -> Seq(Seq(ClearBytes))]]
    BY <2>2, <2>3
  <2>5. \A m, src \in Macs : shown[m][src] = <<>>
    BY <2>3
  <2> QED
    BY <2>4, <2>5, MessagesAssumption DEF ThreadsInv
<1> QED
  BY <1>1, <1>2, <1>3, <1>4 DEF QueuesInv

\* The number of targets of a command, and the numbers of their frames.
LEMMA TargetsOrdered ==
    ASSUME NEW cmd \in Cmds, NEW targets \in Targets(cmd),
           NEW order \in Bijection(1 .. Cardinality(targets), targets)
    PROVE  /\ targets \subseteq Peers /\ Cardinality(targets) \in Nat
           /\ order \in [1 .. Cardinality(targets) -> targets]
           /\ \A i, j \in 1 .. Cardinality(targets) :
                order[i] = order[j] => i = j
<1>1. targets \subseteq Peers
  BY DEF Targets, Cmds
<1>2. IsFiniteSet(targets)
  BY <1>1, MessagesAssumption, FS_Subset DEF Peers
<1>3. Cardinality(targets) \in Nat
  BY <1>2, FS_CardinalityType
<1>4. /\ order \in [1 .. Cardinality(targets) -> targets]
      /\ IsInjective(order)
  BY DEF Bijection, Injection
<1> QED
  BY <1>1, <1>3, <1>4 DEF IsInjective

\* The frames of a command.
CmdFrames(order, text) ==
    [i \in DOMAIN order |->
        Frame(Me, order[i], "APP_MESSAGE", (sequence + i) % Wrap, text)]

LEMMA CmdFramesQueue ==
    ASSUME SenderInv, NEW cmd \in Cmds, NEW targets \in Targets(cmd),
           NEW order \in Bijection(1 .. Cardinality(targets), targets),
           NEW q, q = CmdFrames(order, cmd.text)
    PROVE  /\ q \in Seq(OutFrames) /\ Len(q) = Cardinality(targets)
           /\ \A i \in 1 .. Len(q) :
                /\ q[i].dst = order[i] /\ q[i].type = "APP_MESSAGE"
                /\ q[i].payload = cmd.text
           /\ (sequence + Cardinality(targets)) % Wrap \in 0 .. Wrap - 1
<1> DEFINE n == Cardinality(targets)
<1>1. n \in Nat /\ targets \subseteq Peers /\ order \in [1 .. n -> targets]
  BY TargetsOrdered
<1>2. sequence \in Nat /\ Wrap \in Nat \ {0} /\ cmd.text \in Seq(ClearBytes)
  <2>1. sequence \in 0 .. Wrap - 1
    BY DEF SenderInv
  <2>2. Wrap \in Nat \ {0}
    BY DEF Wrap
  <2>3. cmd.text \in Seq(ClearBytes)
    BY DEF Cmds
  <2> HIDE DEF n
  <2> QED
    BY <2>1, <2>2, <2>3
<1>3. \A i \in Nat : (sequence + i) % Wrap \in 0 .. Wrap - 1
  BY <1>2
<1> HIDE DEF n
<1>4. \A i \in 1 .. n :
        /\ q[i] = Frame(Me, order[i], "APP_MESSAGE", (sequence + i) % Wrap,
                        cmd.text)
        /\ q[i] \in OutFrames
  <2> TAKE i \in 1 .. n
  <2>1. q[i] = Frame(Me, order[i], "APP_MESSAGE", (sequence + i) % Wrap,
                     cmd.text)
    BY <1>1 DEF CmdFrames
  <2>2. order[i] \in Peers /\ (sequence + i) % Wrap \in 0 .. Wrap - 1
    BY <1>1, <1>3
  <2> QED
    BY <1>2, <2>1, <2>2 DEF OutFrames
<1>5. DOMAIN q = 1 .. n
  BY <1>1 DEF CmdFrames
<1>6. q \in [1 .. n -> OutFrames]
  BY <1>4, <1>5 DEF CmdFrames
<1>7. q \in Seq(OutFrames) /\ Len(q) = n
  BY <1>1, <1>6
<1>8. \A i \in 1 .. n : /\ q[i].dst = order[i] /\ q[i].type = "APP_MESSAGE"
                        /\ q[i].payload = cmd.text
  <2> TAKE i \in 1 .. n
  <2>1. \A p, k, text : /\ Frame(Me, p, "APP_MESSAGE", k, text).dst = p
                        /\ Frame(Me, p, "APP_MESSAGE", k, text).payload = text
                        /\ Frame(Me, p, "APP_MESSAGE", k, text).type
                                = "APP_MESSAGE"
    BY DEF Frame
  <2> QED
    BY <1>4, <2>1
<1> QED
  BY <1>1, <1>3, <1>7, <1>8 DEF n

\* The frame at the head of the queue to m, as it arrives or damaged.
LEMMA HeadOfWire ==
    ASSUME QueuesInv, NEW m \in Macs, wire[m] # <<>>
    PROVE  \E f \in OutFrames :
                /\ Head(wire[m]) = Sent(f) /\ f.dst = m
                /\ Head(wire[m]) \in Arriving(f)
                /\ Head(wire[m]).dst = m
                /\ \A raw \in Corruptions(Head(wire[m])) :
                        raw \in Arriving(f) /\ raw.dst \in Macs
<1>1. Head(wire[m]) \in WireFrames(m)
  BY QueueTakes DEF QueuesInv, NetworkInv
<1>2. PICK f \in OutFrames : f.dst = m /\ Head(wire[m]) = Sent(f)
  BY <1>1 DEF WireFrames
<1>3. Sent(f).dst = m
  BY <1>2, RawFrame
<1>4. \A raw \in Corruptions(Sent(f)) : raw.dst \in Macs
  <2> DEFINE r == Sent(f)
  <2>1. r = [src |-> r.src, dst |-> r.dst, type |-> r.type,
             sequence |-> r.sequence, len |-> r.len,
             checksum |-> r.checksum, data |-> r.data]
    BY DEF Sent, CreateEthernetFrame
  <2> HIDE DEF r
  <2> SUFFICES ASSUME NEW raw \in Corruptions(r)
               PROVE  raw.dst = r.dst \/ raw.dst \in Macs
    BY <1>3 DEF r
  <2>2. CASE \E mac \in Macs : raw = [r EXCEPT !.dst = mac]
    BY <2>1, <2>2
  <2>3. CASE \/ \E mac \in Macs : raw = [r EXCEPT !.src = mac]
             \/ \E type : raw = [r EXCEPT !.type = type]
             \/ raw = [r EXCEPT !.sequence = @ + 1]
             \/ raw = [r EXCEPT !.len = @ + 1]
             \/ raw = [r EXCEPT !.checksum[2] = @ + 1]
             \/ \E i : raw = [r EXCEPT !.data[i] = Garbled]
    BY <2>1, <2>3
  <2> QED
    BY <2>2, <2>3 DEF Corruptions
<1> QED
  BY <1>2, <1>3, <1>4 DEF Arriving

LEMMA ViewersAreNodes == Viewers \subseteq Macs
  BY MessagesAssumption

LEMMA SenderQueues ==
    ASSUME QueuesInv, [Next]_vars
    PROVE  SenderInv'
<1> USE DEF QueuesInv
<1>1. ASSUME NEW to \in Peers \union {ALL}, SendText(to) PROVE SenderInv'
  <2>1. Len(said) \in Nat /\ Len(said) < Len(Texts) /\ Len(Texts) \in Nat
    BY <1>1, MessagesAssumption DEF SendText, SenderInv
  <2>2. PICK text \in Texts[Len(said) + 1] :
            /\ said' = Append(said, [to |-> to, text |-> text])
            /\ cmds' = IF ui[Me] = "lost" THEN cmds
                       ELSE Append(cmds, [to |-> to, text |-> text])
    BY <1>1 DEF SendText
  <2>3. text \in Seq(ClearBytes)
    <3>1. Texts[Len(said) + 1] \in SUBSET Seq(ClearBytes)
      BY <2>1, MessagesAssumption, ElementOfSeq
    <3> QED
      BY <3>1
  <2>4. [to |-> to, text |-> text] \in Cmds
    BY <2>3 DEF Cmds
  <2>5. out' = out /\ sequence' = sequence
    BY <1>1 DEF SendText
  <2> QED
    BY <2>2, <2>4, <2>5, QueueAppends DEF SenderInv
<1>2. ASSUME OnCmd PROVE SenderInv'
  <2>1. /\ Head(cmds) \in Cmds /\ Tail(cmds) \in Seq(Cmds)
        /\ cmds' = Tail(cmds) /\ said' = said
    BY <1>2, QueueTakes DEF OnCmd, SenderInv
  <2>2. PICK targets \in Targets(Head(cmds)) :
          \E order \in Bijection(1 .. Cardinality(targets), targets) :
            /\ out' = out \o CmdFrames(order, Head(cmds).text)
            /\ sequence' = (sequence + Cardinality(targets)) % Wrap
    BY <1>2 DEF OnCmd, CmdFrames
  <2>3. PICK order \in Bijection(1 .. Cardinality(targets), targets) :
            /\ out' = out \o CmdFrames(order, Head(cmds).text)
            /\ sequence' = (sequence + Cardinality(targets)) % Wrap
    BY <2>2
  <2>4. /\ CmdFrames(order, Head(cmds).text) \in Seq(OutFrames)
        /\ (sequence + Cardinality(targets)) % Wrap \in 0 .. Wrap - 1
    BY <2>1, CmdFramesQueue
  <2>5. out' \in Seq(OutFrames)
    BY <2>3, <2>4, QueueGrows DEF SenderInv
  <2> QED
    BY <2>1, <2>3, <2>4, <2>5 DEF SenderInv
<1>3. ASSUME NEW p \in Askers, Hello(p) PROVE SenderInv'
  <2>1. Frame(Me, p, "DISCOVER_REPLY", 0, Alias) \in OutFrames
    BY <1>3, MessagesAssumption DEF OutFrames
  <2>2. out' \in Seq(OutFrames)
    BY <1>3, <2>1, QueueAppends DEF Hello, SenderInv
  <2> QED
    BY <1>3, <2>2 DEF Hello, SenderInv
<1>4. ASSUME Transmit PROVE SenderInv'
  BY <1>4, QueueTakes DEF Transmit, SenderInv
<1>5. ASSUME UNCHANGED senderVars PROVE SenderInv'
  BY <1>5 DEF senderVars, SenderInv
<1>6. ASSUME NEW m \in Macs,
             \/ Connect(m) \/ HandleClient(m) \/ Disconnect(m) \/ Lose(m)
             \/ Receive(m) \/ ReceiveDamaged(m) \/ DispatchMessage(m)
             \/ DispatchAlias(m) \/ Broadcast(m) \/ ReadEvent(m) \/ OnChat(m)
      PROVE  SenderInv'
  BY <1>5, <1>6 DEF Connect, HandleClient, Disconnect, Lose, Receive,
     ReceiveDamaged, DispatchMessage, DispatchAlias, Broadcast, ReadEvent,
     OnChat
<1>7. ASSUME UNCHANGED vars PROVE SenderInv'
  BY <1>5, <1>7 DEF vars
<1>8. ASSUME EndHandler PROVE SenderInv'
  <2>1. <<>> \in Seq(Cmds)
    OBVIOUS
  <2> QED
    BY <1>8, <2>1 DEF EndHandler, SenderInv
<1> QED
  BY <1>1, <1>2, <1>3, <1>4, <1>6, <1>7, <1>8, ViewersAreNodes
  DEF Next, Worker

LEMMA NetworkQueues ==
    ASSUME QueuesInv, [Next]_vars
    PROVE  NetworkInv'
<1> USE DEF QueuesInv
<1>1. ASSUME Transmit PROVE NetworkInv'
  <2> DEFINE f == Head(out)
             g == Protected(f)
  <2>1. f \in OutFrames /\ f.dst \in Macs
    BY <1>1, QueueTakes, OutFields DEF Transmit, SenderInv, Peers
  <2>2. g.dst = f.dst
    <3>1. g = Frame(f.src, f.dst, f.type, f.sequence, g.payload)
      BY <2>1, RawFrame
    <3> QED
      BY <3>1 DEF Frame
  <2>3. /\ faults' = faults
        /\ wire' = IF Len(g.payload) <= Mtu
                   THEN [wire EXCEPT ![f.dst] = Append(@, Sent(f))] ELSE wire
    BY <1>1, <2>2 DEF Transmit, Protected, Sent
  <2> HIDE DEF f
  <2>4. CASE Len(g.payload) <= Mtu
    <3>1. Sent(f) \in WireFrames(f.dst)
      BY <2>1, <2>4 DEF WireFrames
    <3>2. Append(wire[f.dst], Sent(f)) \in Seq(WireFrames(f.dst))
      BY <2>1, <3>1, QueueAppends DEF NetworkInv
    <3> QED
      BY <2>1, <2>3, <2>4, <3>2 DEF NetworkInv
  <2>5. CASE ~(Len(g.payload) <= Mtu)
    BY <2>3, <2>5 DEF NetworkInv
  <2> QED
    BY <2>4, <2>5
<1>2. ASSUME NEW m \in Macs, wire[m] # <<>>,
             wire' = [wire EXCEPT ![m] = Tail(@)],
             faults' = faults \/ (faults < MaxFaults /\ faults' = faults + 1)
      PROVE  NetworkInv'
  <2>1. Tail(wire[m]) \in Seq(WireFrames(m))
    BY <1>2, QueueTakes DEF NetworkInv
  <2>2. faults' \in 0 .. MaxFaults
    BY <1>2, MessagesAssumption DEF NetworkInv
  <2> QED
    BY <1>2, <2>1, <2>2 DEF NetworkInv
<1>3. ASSUME UNCHANGED <<wire, faults>> PROVE NetworkInv'
  BY <1>3 DEF NetworkInv
<1>4. ASSUME NEW m \in Macs, Lose(m) \/ Receive(m) \/ ReceiveDamaged(m)
      PROVE  NetworkInv'
  <2>1. /\ wire[m] # <<>> /\ wire' = [wire EXCEPT ![m] = Tail(@)]
        /\ faults' = faults \/ (faults < MaxFaults /\ faults' = faults + 1)
    BY <1>4 DEF Lose, Receive, ReceiveDamaged
  <2> QED
    BY <1>2, <2>1
<1>5. ASSUME NEW m \in Macs,
             \/ Connect(m) \/ HandleClient(m) \/ Disconnect(m)
             \/ DispatchMessage(m) \/ DispatchAlias(m) \/ Broadcast(m)
             \/ ReadEvent(m) \/ OnChat(m)
      PROVE  NetworkInv'
  BY <1>3, <1>5 DEF Connect, HandleClient, Disconnect, DispatchMessage,
     DispatchAlias, Broadcast, ReadEvent, OnChat
<1>6. ASSUME \/ OnCmd \/ EndHandler \/ UNCHANGED vars
             \/ \E to \in Peers \union {ALL} : SendText(to)
             \/ \E p \in Askers : Hello(p)
      PROVE  NetworkInv'
  BY <1>3, <1>6 DEF OnCmd, EndHandler, SendText, Hello, vars
<1> QED
  BY <1>1, <1>4, <1>5, <1>6, ViewersAreNodes DEF Next, Worker

LEMMA ReceiverQueues ==
    ASSUME QueuesInv, [Next]_vars
    PROVE  ReceiverInv' /\ ThreadsInv'
<1> USE DEF QueuesInv
<1>1. ASSUME NEW m \in Macs, Connect(m) \/ HandleClient(m) \/ Disconnect(m)
      PROVE  ReceiverInv' /\ ThreadsInv'
  <2>1. CASE Connect(m) \/ HandleClient(m)
    <3>1. /\ UNCHANGED <<incoming, heard, scheduled, stream, events, shown>>
          /\ ui[m] \in {"down", "open"}
          /\ \/ ui' = [ui EXCEPT ![m] = "open"]
             \/ ui' = [ui EXCEPT ![m] = "up"]
      BY <2>1 DEF Connect, HandleClient, receiverVars, uiVars
    <3> QED
      BY <3>1 DEF ReceiverInv, ThreadsInv
  <2>2. CASE Disconnect(m)
    <3>1. /\ UNCHANGED <<incoming, heard, scheduled, events, shown>>
          /\ ui' = [ui EXCEPT ![m] = "lost"]
          /\ stream' = [stream EXCEPT ![m] = <<>>]
      BY <2>2 DEF Disconnect
    <3>2. <<>> \in Seq(ChatEvents(m))
      OBVIOUS
    <3> QED
      BY <3>1, <3>2 DEF ReceiverInv, ThreadsInv
  <2> QED
    BY <1>1, <2>1, <2>2
<1>2. ASSUME NEW m \in Macs, NEW n \in Macs, NEW raw, NEW f \in OutFrames,
             raw \in Arriving(f), raw.dst = n,
             incoming' = [incoming EXCEPT ![n] = @ \o SetToSeq(Passed(n, raw))],
             UNCHANGED <<ui, heard, uiVars>>
      PROVE  ReceiverInv' /\ ThreadsInv'
  <2>1. SetToSeq(Passed(n, raw)) \in Seq(InFrames(n))
    BY <1>2, PassedQueue
  <2>2. incoming[n] \o SetToSeq(Passed(n, raw)) \in Seq(InFrames(n))
    BY <2>1, QueueGrows DEF ReceiverInv
  <2> QED
    BY <1>2, <2>2 DEF uiVars, ReceiverInv, ThreadsInv
<1>3. ASSUME NEW m \in Macs, Receive(m) PROVE ReceiverInv' /\ ThreadsInv'
  <2>1. PICK f \in OutFrames : Head(wire[m]) \in Arriving(f)
                               /\ Head(wire[m]).dst = m
    BY <1>3, HeadOfWire DEF Receive
  <2> QED
    BY <1>2, <1>3, <2>1 DEF Receive
<1>4. ASSUME NEW m \in Macs, ReceiveDamaged(m)
      PROVE  ReceiverInv' /\ ThreadsInv'
  <2>1. PICK f \in OutFrames : \A raw \in Corruptions(Head(wire[m])) :
                                    raw \in Arriving(f) /\ raw.dst \in Macs
    BY <1>4, HeadOfWire DEF ReceiveDamaged
  <2>2. PICK raw \in Corruptions(Head(wire[m])) :
            incoming' = [incoming EXCEPT
                            ![raw.dst] = @ \o SetToSeq(Passed(raw.dst, raw))]
    BY <1>4 DEF ReceiveDamaged
  <2> QED
    BY <1>2, <1>4, <2>1, <2>2 DEF ReceiveDamaged
<1>5. ASSUME NEW m \in Macs, incoming[m] # <<>>
      PROVE  /\ Tail(incoming[m]) \in Seq(InFrames(m))
             /\ Head(incoming[m]) \in InFrames(m)
             /\ Head(incoming[m]).type = "APP_MESSAGE" =>
                    [src |-> Head(incoming[m]).src,
                     text |-> Head(incoming[m]).payload] \in ChatEvents(m)
             /\ Head(incoming[m]).type = "DISCOVER_REPLY" =>
                    Head(incoming[m]).payload = Alias
  <2> DEFINE f == Head(incoming[m])
  <2>1. Tail(incoming[m]) \in Seq(InFrames(m)) /\ f \in InFrames(m)
    BY <1>5, QueueTakes DEF ReceiverInv
  <2> HIDE DEF f
  <2>2. CASE f \in OutFrames /\ f.type = "APP_MESSAGE" /\ Key[m] = Key[Me]
    <3>1. f.src = Me /\ f.payload \in Seq(ClearBytes)
      BY <2>2, OutFields
    <3>2. [src |-> f.src, text |-> f.payload] \in ChatEvents(m)
      BY <2>2, <3>1 DEF ChatEvents
    <3> QED
      BY <2>1, <2>2, <3>2 DEF f
  <2>3. CASE \E src \in Macs : f = Frame(src, m, "DISCOVER_REPLY", 0, Alias)
    <3>1. f.type = "DISCOVER_REPLY" /\ f.payload = Alias
      BY <2>3 DEF Frame
    <3> QED
      BY <2>1, <3>1 DEF f
  <2> QED
    BY <2>1, <2>2, <2>3 DEF InFrames
<1>6. ASSUME NEW m \in Macs, DispatchMessage(m)
      PROVE  ReceiverInv' /\ ThreadsInv'
  <2>1. /\ incoming' = [incoming EXCEPT ![m] = Tail(@)]
        /\ UNCHANGED <<ui, shown, heard, stream, events>>
        /\ scheduled' = [scheduled EXCEPT ![m] =
                Append(@, [src |-> Head(incoming[m]).src,
                           text |-> Head(incoming[m]).payload])]
    BY <1>6 DEF DispatchMessage
  <2>2. /\ Tail(incoming[m]) \in Seq(InFrames(m))
        /\ [src |-> Head(incoming[m]).src,
            text |-> Head(incoming[m]).payload] \in ChatEvents(m)
    BY <1>5, <1>6 DEF DispatchMessage
  <2>3. Append(scheduled[m], [src |-> Head(incoming[m]).src,
                              text |-> Head(incoming[m]).payload])
            \in Seq(ChatEvents(m))
    BY <2>2, QueueAppends DEF ReceiverInv
  <2> QED
    BY <2>1, <2>2, <2>3 DEF ReceiverInv, ThreadsInv
<1>7. ASSUME NEW m \in Macs, DispatchAlias(m)
      PROVE  ReceiverInv' /\ ThreadsInv'
  <2>1. /\ incoming' = [incoming EXCEPT ![m] = Tail(@)]
        /\ heard' = [heard EXCEPT ![m] = @ \union {Alias}]
        /\ UNCHANGED <<ui, shown, scheduled, stream, events>>
        /\ Tail(incoming[m]) \in Seq(InFrames(m))
    BY <1>5, <1>7 DEF DispatchAlias, uiVars
  <2> QED
    BY <2>1 DEF ReceiverInv, ThreadsInv
<1>8. ASSUME NEW m \in Macs, OnChat(m) PROVE ReceiverInv' /\ ThreadsInv'
  <2> DEFINE e == Head(events[m])
  <2>1. e \in ChatEvents(m) /\ Tail(events[m]) \in Seq(ChatEvents(m))
    BY <1>8, QueueTakes DEF OnChat, ReceiverInv
  <2>2. e.src = Me /\ e.text \in Seq(ClearBytes) /\ Key[m] = Key[Me]
        /\ Me \in Macs
    BY <2>1, MessagesAssumption DEF ChatEvents
  <2>3. /\ events' = [events EXCEPT ![m] = Tail(@)]
        /\ shown' = [shown EXCEPT ![m][e.src] = Append(@, e.text)]
        /\ UNCHANGED <<ui, incoming, heard, scheduled, stream>>
    BY <1>8 DEF OnChat
  <2> HIDE DEF e
  <2>4. ReceiverInv'
    BY <2>1, <2>3 DEF ReceiverInv
  <2>5. Append(shown[m][Me], e.text) \in Seq(Seq(ClearBytes))
    BY <2>2, QueueAppends DEF ThreadsInv
  <2>6. shown' = [shown EXCEPT ![m] = [@ EXCEPT ![Me]
                                        = Append(shown[m][Me], e.text)]]
    BY <2>2, <2>3 DEF ThreadsInv
  <2> QED
    BY <2>2, <2>4, <2>5, <2>6 DEF ThreadsInv
<1>9. ASSUME UNCHANGED <<ui, receiverVars>> PROVE ReceiverInv' /\ ThreadsInv'
  BY <1>9 DEF receiverVars, uiVars, ReceiverInv, ThreadsInv
<1>10. ASSUME \/ OnCmd \/ EndHandler \/ Transmit \/ UNCHANGED vars
              \/ \E to \in Peers \union {ALL} : SendText(to)
              \/ \E p \in Askers : Hello(p)
              \/ \E m \in Macs : Lose(m)
       PROVE  ReceiverInv' /\ ThreadsInv'
  BY <1>9, <1>10 DEF OnCmd, EndHandler, Transmit, SendText, Hello, Lose, vars
<1>11. ASSUME NEW m \in Macs, Broadcast(m) PROVE ReceiverInv' /\ ThreadsInv'
  <2> DEFINE e == Head(scheduled[m])
  <2>1. e \in ChatEvents(m) /\ Tail(scheduled[m]) \in Seq(ChatEvents(m))
    BY <1>11, QueueTakes DEF Broadcast, ReceiverInv
  <2>2. /\ scheduled' = [scheduled EXCEPT ![m] = Tail(@)]
        /\ UNCHANGED <<ui, incoming, heard, events, shown>>
        /\ \/ UNCHANGED stream
           \/ ui[m] = "up" /\ stream' = [stream EXCEPT ![m] = Append(@, e)]
    BY <1>11 DEF Broadcast
  <2> HIDE DEF e
  <2>3. Append(stream[m], e) \in Seq(ChatEvents(m))
    BY <2>1, QueueAppends DEF ReceiverInv
  <2> QED
    BY <2>1, <2>2, <2>3 DEF ReceiverInv, ThreadsInv
<1>12. ASSUME NEW m \in Macs, ReadEvent(m) PROVE ReceiverInv' /\ ThreadsInv'
  <2> DEFINE e == Head(stream[m])
  <2>1. e \in ChatEvents(m) /\ Tail(stream[m]) \in Seq(ChatEvents(m))
    BY <1>12, QueueTakes DEF ReadEvent, ReceiverInv
  <2>2. /\ stream' = [stream EXCEPT ![m] = Tail(@)]
        /\ events' = [events EXCEPT ![m] = Append(@, e)] /\ ui[m] = "up"
        /\ UNCHANGED <<ui, incoming, heard, scheduled, shown>>
    BY <1>12 DEF ReadEvent
  <2> HIDE DEF e
  <2>3. Append(events[m], e) \in Seq(ChatEvents(m))
    BY <2>1, QueueAppends DEF ReceiverInv
  <2> QED
    BY <2>1, <2>2, <2>3 DEF ReceiverInv, ThreadsInv
<1> QED
  BY <1>1, <1>3, <1>4, <1>6, <1>7, <1>8, <1>10, <1>11, <1>12,
     ViewersAreNodes DEF Next, Worker

-----------------------------------------------------------------------------
(***************************************************************************)
(* The trail of the texts for one peer                                     *)
(*                                                                         *)
(* The texts for p stand in eight queues, one behind the other, from what  *)
(* it shows to the commands of Me.  In each queue, an element carries one  *)
(* text for p or none.  Read from the first queue to the last, the texts   *)
(* follow the history: each stands for a text said to p behind the one     *)
(* before it.  cut[k] is how far into the history queue k reaches.         *)
(***************************************************************************)
Text(frame) == IF frame.type = "APP_MESSAGE" THEN {frame.payload} ELSE {}

\* The text a raw frame carries for a node with the key of Me.
SealedIn(raw) ==
    UNION {Text(frame) :
            frame \in UNION {AcceptIncoming(h, Key[Me]) :
                                h \in DecodeEthernetFrame(raw)}}

TextFor(frame, p) == IF frame.dst = p THEN Text(frame) ELSE {}
SaidTo(cmd, p) == IF cmd.to \in {p, ALL} THEN {cmd.text} ELSE {}

ShownTexts(p) == [i \in 1 .. Len(shown[p][Me]) |-> {shown[p][Me][i]}]
ChatTexts(queue) == [i \in 1 .. Len(queue) |-> {queue[i].text}]
IncomingTexts(p) == [i \in 1 .. Len(incoming[p]) |-> Text(incoming[p][i])]
WireTexts(p) == [i \in 1 .. Len(wire[p]) |-> SealedIn(wire[p][i])]
OutTexts(p) == [i \in 1 .. Len(out) |-> TextFor(out[i], p)]
CmdTexts(p) == [i \in 1 .. Len(cmds) |-> SaidTo(cmds[i], p)]

Trail(p) == <<ShownTexts(p), ChatTexts(events[p]), ChatTexts(stream[p]),
              ChatTexts(scheduled[p]), IncomingTexts(p), WireTexts(p),
              OutTexts(p), CmdTexts(p)>>

\* Entry i of the history is one of these texts, said to p.
Entry(history, i, p, texts) ==
    \A text \in texts : /\ history[i].to \in {p, ALL}
                        /\ history[i].text = text

\* The texts of a queue follow entries lo + 1 .. hi of the history.
Within(queue, history, p, lo, hi) ==
    \E at \in [DOMAIN queue -> 0 .. Len(history)] :
        /\ \A i \in DOMAIN queue : queue[i] # {} =>
                /\ lo < at[i] /\ at[i] <= hi
                /\ Entry(history, at[i], p, queue[i])
        /\ \A i, j \in DOMAIN queue :
                i < j /\ queue[i] # {} /\ queue[j] # {} => at[i] < at[j]

Follows(trail, history, p) ==
    \E cut \in [0 .. 8 -> 0 .. Len(history)] :
        \A k \in 1 .. 8 : /\ cut[k - 1] <= cut[k]
                          /\ Within(trail[k], history, p, cut[k - 1], cut[k])

TrailInv == \A p \in Peers : Follows(Trail(p), said, p)

\* A queue loses its first element.
Shorter(queue, rest) ==
    \E n \in Nat \ {0} :
        /\ DOMAIN queue = 1 .. n /\ DOMAIN rest = 1 .. n - 1
        /\ \A i \in 1 .. n - 1 : rest[i] = queue[i + 1]

\* A queue gets new elements, of which one at most carries a text of texts.
Longer(queue, more, texts) ==
    \E n, l \in Nat :
        /\ DOMAIN queue = 1 .. n /\ DOMAIN more = 1 .. n + l
        /\ \A i \in 1 .. n : more[i] = queue[i]
        /\ \A i \in n + 1 .. n + l : more[i] \subseteq texts
        /\ \A i, j \in n + 1 .. n + l : i < j => more[i] = {} \/ more[j] = {}

\* Without its head, a queue begins behind the entry of the head.
LEMMA WithinRest ==
    ASSUME NEW history, Len(history) \in Nat, NEW p, NEW queue, NEW rest,
           NEW lo \in 0 .. Len(history), NEW hi \in lo .. Len(history),
           Within(queue, history, p, lo, hi), Shorter(queue, rest)
    PROVE  \E mid \in lo .. hi :
                /\ Within(rest, history, p, mid, hi)
                /\ queue[1] # {} => lo < mid /\ Entry(history, mid, p, queue[1])
<1>1. PICK n \in Nat \ {0} :
        /\ DOMAIN queue = 1 .. n /\ DOMAIN rest = 1 .. n - 1
        /\ \A i \in 1 .. n - 1 : rest[i] = queue[i + 1]
  BY DEF Shorter
<1>2. PICK at \in [DOMAIN queue -> 0 .. Len(history)] :
        /\ \A i \in DOMAIN queue : queue[i] # {} =>
                /\ lo < at[i] /\ at[i] <= hi
                /\ Entry(history, at[i], p, queue[i])
        /\ \A i, j \in DOMAIN queue :
                i < j /\ queue[i] # {} /\ queue[j] # {} => at[i] < at[j]
  BY DEF Within
<1> DEFINE mid == IF queue[1] = {} THEN lo ELSE at[1]
           to == [i \in 1 .. n - 1 |-> at[i + 1]]
<1>3. /\ mid \in lo .. hi
      /\ queue[1] # {} => /\ lo < mid /\ mid = at[1]
                          /\ Entry(history, mid, p, queue[1])
  <2>1. CASE queue[1] = {}
    BY <2>1
  <2>2. CASE queue[1] # {}
    <3>1. 1 \in DOMAIN queue /\ at[1] \in 0 .. Len(history)
      BY <1>1, <1>2
    <3> QED
      BY <1>2, <2>2, <3>1
  <2> QED
    BY <2>1, <2>2
<1>4. to \in [DOMAIN rest -> 0 .. Len(history)]
  BY <1>1, <1>2
<1>5. \A i \in DOMAIN rest :
        /\ i \in 1 .. n - 1 /\ i + 1 \in DOMAIN queue /\ 1 \in DOMAIN queue
        /\ to[i] = at[i + 1] /\ rest[i] = queue[i + 1]
  BY <1>1
<1> HIDE DEF to, mid
<1>6. \A i \in DOMAIN rest : rest[i] # {} =>
        mid < to[i] /\ to[i] <= hi /\ Entry(history, to[i], p, rest[i])
  <2> SUFFICES ASSUME NEW i \in DOMAIN rest, rest[i] # {}
               PROVE  /\ mid < to[i] /\ to[i] <= hi
                      /\ Entry(history, to[i], p, rest[i])
    OBVIOUS
  <2>1. /\ i + 1 \in DOMAIN queue /\ queue[i + 1] # {}
        /\ to[i] = at[i + 1] /\ rest[i] = queue[i + 1]
    BY <1>5
  <2>2. /\ lo < to[i] /\ to[i] <= hi /\ Entry(history, to[i], p, rest[i])
        /\ to[i] \in Nat
    BY <1>2, <2>1
  <2>3. mid < to[i]
    <3>1. CASE queue[1] = {}
      BY <2>2, <3>1 DEF mid
    <3>2. CASE queue[1] # {}
      <4>1. 1 \in DOMAIN queue /\ 1 < i + 1
        BY <1>1, <1>5
      <4> QED
        BY <1>2, <1>3, <2>1, <3>2, <4>1
    <3> QED
      BY <3>1, <3>2
  <2> QED
    BY <2>2, <2>3
<1>7. \A i, j \in DOMAIN rest :
        i < j /\ rest[i] # {} /\ rest[j] # {} => to[i] < to[j]
  <2> SUFFICES ASSUME NEW i \in DOMAIN rest, NEW j \in DOMAIN rest, i < j,
                      rest[i] # {}, rest[j] # {}
               PROVE  to[i] < to[j]
    OBVIOUS
  <2>1. i + 1 < j + 1
    <3>1. i \in 1 .. n - 1 /\ j \in 1 .. n - 1
      BY <1>5
    <3> QED
      BY <3>1
  <2> QED
    BY <1>2, <1>5, <2>1
<1>8. Within(rest, history, p, mid, hi)
  BY <1>4, <1>6, <1>7 DEF Within
<1> QED
  BY <1>3, <1>8

\* One more text, of the entry hi, may stand behind the others.
LEMMA WithinMore ==
    ASSUME NEW history, Len(history) \in Nat, NEW p, NEW queue, NEW more,
           NEW texts,
           NEW lo \in 0 .. Len(history), NEW mid \in lo .. Len(history),
           NEW hi \in mid .. Len(history),
           Within(queue, history, p, lo, mid), Longer(queue, more, texts),
           texts # {} => mid < hi /\ Entry(history, hi, p, texts)
    PROVE  Within(more, history, p, lo, hi)
<1>1. PICK n, l \in Nat :
        /\ DOMAIN queue = 1 .. n /\ DOMAIN more = 1 .. n + l
        /\ \A i \in 1 .. n : more[i] = queue[i]
        /\ \A i \in n + 1 .. n + l : more[i] \subseteq texts
        /\ \A i, j \in n + 1 .. n + l : i < j => more[i] = {} \/ more[j] = {}
  BY DEF Longer
<1>2. PICK at \in [DOMAIN queue -> 0 .. Len(history)] :
        /\ \A i \in DOMAIN queue : queue[i] # {} =>
                /\ lo < at[i] /\ at[i] <= mid
                /\ Entry(history, at[i], p, queue[i])
        /\ \A i, j \in DOMAIN queue :
                i < j /\ queue[i] # {} /\ queue[j] # {} => at[i] < at[j]
  BY DEF Within
<1> DEFINE to == [i \in 1 .. n + l |-> IF i <= n THEN at[i] ELSE hi]
<1>3. to \in [DOMAIN more -> 0 .. Len(history)]
  BY <1>1, <1>2
<1>4. /\ \A i \in 1 .. n : to[i] = at[i] /\ more[i] = queue[i]
      /\ \A i \in n + 1 .. n + l : to[i] = hi /\ more[i] \subseteq texts
  BY <1>1
<1> HIDE DEF to
<1>5. \A i \in 1 .. n : more[i] # {} =>
        lo < to[i] /\ to[i] <= mid /\ Entry(history, to[i], p, more[i])
  BY <1>1, <1>2, <1>4
<1>6. \A i \in n + 1 .. n + l : more[i] # {} =>
        mid < to[i] /\ to[i] <= hi /\ Entry(history, to[i], p, more[i])
  BY <1>4 DEF Entry
<1>7. \A i \in 1 .. n + l : more[i] # {} =>
        lo < to[i] /\ to[i] <= hi /\ Entry(history, to[i], p, more[i])
  <2> TAKE i \in 1 .. n + l
  <2>1. CASE i <= n
    BY <1>3, <1>1, <1>5, <2>1
  <2>2. CASE ~(i <= n)
    BY <1>3, <1>1, <1>6, <2>2
  <2> QED
    BY <2>1, <2>2
<1>8. \A i, j \in 1 .. n + l :
        i < j /\ more[i] # {} /\ more[j] # {} => to[i] < to[j]
  <2> SUFFICES ASSUME NEW i \in 1 .. n + l, NEW j \in 1 .. n + l, i < j,
                      more[i] # {}, more[j] # {}
               PROVE  to[i] < to[j]
    OBVIOUS
  <2>1. CASE j <= n
    <3>1. i \in DOMAIN queue /\ j \in DOMAIN queue
      BY <1>1, <2>1
    <3>2. /\ to[i] = at[i] /\ more[i] = queue[i]
          /\ to[j] = at[j] /\ more[j] = queue[j]
      BY <1>1, <1>4, <3>1
    <3> QED
      BY <1>2, <3>1, <3>2
  <2>2. CASE i <= n /\ ~(j <= n)
    <3>1. i \in 1 .. n /\ j \in n + 1 .. n + l
      BY <2>2
    <3>2. to[i] <= mid /\ mid < to[j] /\ to[i] \in Nat /\ to[j] \in Nat
      BY <1>1, <1>3, <1>5, <1>6, <3>1
    <3> QED
      BY <3>2
  <2>3. CASE ~(i <= n)
    BY <1>1, <2>3
  <2> QED
    BY <2>1, <2>2, <2>3
<1> QED
  BY <1>1, <1>3, <1>7, <1>8 DEF Within

\* What follows a history follows a longer one.
LEMMA WithinLonger ==
    ASSUME NEW history, NEW longer, Len(history) \in Nat, Len(longer) \in Nat,
           Len(history) <= Len(longer),
           \A i \in 1 .. Len(history) : longer[i] = history[i],
           NEW p, NEW queue, NEW lo \in 0 .. Len(history),
           NEW hi \in 0 .. Len(history),
           Within(queue, history, p, lo, hi)
    PROVE  Within(queue, longer, p, lo, hi)
<1>1. PICK at \in [DOMAIN queue -> 0 .. Len(history)] :
        /\ \A i \in DOMAIN queue : queue[i] # {} =>
                /\ lo < at[i] /\ at[i] <= hi
                /\ Entry(history, at[i], p, queue[i])
        /\ \A i, j \in DOMAIN queue :
                i < j /\ queue[i] # {} /\ queue[j] # {} => at[i] < at[j]
  BY DEF Within
<1>2. at \in [DOMAIN queue -> 0 .. Len(longer)]
  BY <1>1
<1>3. \A i \in DOMAIN queue : queue[i] # {} =>
        lo < at[i] /\ at[i] <= hi /\ Entry(longer, at[i], p, queue[i])
  BY <1>1 DEF Entry
<1> QED
  BY <1>1, <1>2, <1>3 DEF Within

\* The head of queue k goes to the end of the queue before it, or is dropped.
LEMMA TrailMoves ==
    ASSUME NEW history, Len(history) \in Nat, NEW p, NEW trail, NEW next,
           NEW k \in 2 .. 8, Follows(trail, history, p),
           \A j \in 1 .. 8 : j # k /\ j # k - 1 => next[j] = trail[j],
           Shorter(trail[k], next[k]),
           Longer(trail[k - 1], next[k - 1], trail[k][1])
    PROVE  Follows(next, history, p)
<1>1. PICK cut \in [0 .. 8 -> 0 .. Len(history)] :
        \A j \in 1 .. 8 : /\ cut[j - 1] <= cut[j]
                          /\ Within(trail[j], history, p, cut[j - 1], cut[j])
  BY DEF Follows
<1>2. /\ cut[k - 2] \in 0 .. Len(history)
      /\ cut[k - 1] \in cut[k - 2] .. Len(history)
      /\ cut[k] \in cut[k - 1] .. Len(history)
      /\ Within(trail[k - 1], history, p, cut[k - 2], cut[k - 1])
      /\ Within(trail[k], history, p, cut[k - 1], cut[k])
  <2>1. /\ k - 1 \in 1 .. 8 /\ (k - 1) - 1 = k - 2 /\ k \in 1 .. 8
        /\ k - 2 \in 0 .. 8 /\ k - 1 \in 0 .. 8 /\ k \in 0 .. 8
    BY SMTT(30)
  <2>2. /\ cut[k - 2] <= cut[k - 1]
        /\ Within(trail[k - 1], history, p, cut[k - 2], cut[k - 1])
        /\ cut[k - 1] <= cut[k]
        /\ Within(trail[k], history, p, cut[k - 1], cut[k])
    BY <1>1, <2>1
  <2>3. /\ cut[k - 2] \in 0 .. Len(history) /\ cut[k - 1] \in 0 .. Len(history)
        /\ cut[k] \in 0 .. Len(history)
    BY <1>1, <2>1
  <2> DEFINE a == cut[k - 2]
             b == cut[k - 1]
             c == cut[k]
             n == Len(history)
  <2>4. /\ a \in 0 .. n /\ b \in 0 .. n /\ c \in 0 .. n /\ n \in Nat
        /\ a <= b /\ b <= c
    BY <2>2, <2>3
  <2> HIDE DEF a, b, c, n
  <2>5. b \in a .. n /\ c \in b .. n
    BY <2>4
  <2> QED
    BY <2>2, <2>4, <2>5 DEF a, b, c, n
<1>3. cut[k - 1] \in 0 .. Len(history) /\ cut[k] \in 0 .. Len(history)
  <2>1. k - 1 \in 0 .. 8 /\ k \in 0 .. 8
    BY SMTT(30)
  <2> QED
    BY <1>1, <2>1
<1>4. PICK mid \in cut[k - 1] .. cut[k] :
        /\ Within(next[k], history, p, mid, cut[k])
        /\ trail[k][1] # {} =>
                cut[k - 1] < mid /\ Entry(history, mid, p, trail[k][1])
  <2> DEFINE queue == trail[k]
             rest == next[k]
             lo == cut[k - 1]
             hi == cut[k]
  <2>1. /\ lo \in 0 .. Len(history) /\ hi \in lo .. Len(history)
        /\ Within(queue, history, p, lo, hi) /\ Shorter(queue, rest)
    BY <1>2, <1>3
  <2> HIDE DEF queue, rest, lo, hi
  <2>2. \E mid \in lo .. hi :
            /\ Within(rest, history, p, mid, hi)
            /\ queue[1] # {} => lo < mid /\ Entry(history, mid, p, queue[1])
    BY <2>1, WithinRest
  <2> QED
    BY <2>2 DEF queue, rest, lo, hi
<1>5. /\ mid \in cut[k - 1] .. Len(history) /\ mid \in 0 .. Len(history)
      /\ cut[k - 2] <= mid /\ mid <= cut[k]
  <2> DEFINE a == cut[k - 2]
             b == cut[k - 1]
             c == cut[k]
             n == Len(history)
  <2>1. /\ a \in 0 .. n /\ b \in a .. n /\ c \in b .. n /\ n \in Nat
        /\ mid \in b .. c
    BY <1>2, <1>4
  <2> HIDE DEF a, b, c, n
  <2>2. mid \in b .. n /\ mid \in 0 .. n /\ a <= mid /\ mid <= c
    BY <2>1, SMTT(30)
  <2> QED
    BY <2>2 DEF a, b, c, n
<1>6. Within(next[k - 1], history, p, cut[k - 2], mid)
  <2> DEFINE first == cut[k - 2]
             last == cut[k - 1]
             queue == trail[k - 1]
             more == next[k - 1]
             texts == trail[k][1]
  <2>1. /\ first \in 0 .. Len(history) /\ last \in first .. Len(history)
        /\ mid \in last .. Len(history)
        /\ Within(queue, history, p, first, last)
        /\ Longer(queue, more, texts)
        /\ texts # {} => last < mid /\ Entry(history, mid, p, texts)
    BY <1>2, <1>4, <1>5
  <2> HIDE DEF first, last, queue, more, texts
  <2>2. Within(more, history, p, first, mid)
    BY <2>1, WithinMore
  <2> QED
    BY <2>2 DEF first, more
<1> DEFINE new == [cut EXCEPT ![k - 1] = mid]
<1>7. /\ new \in [0 .. 8 -> 0 .. Len(history)]
      /\ new[k - 1] = mid
      /\ \A j \in 0 .. 8 : j # k - 1 => new[j] = cut[j]
  <2>1. k - 1 \in 0 .. 8
    OBVIOUS
  <2> QED
    BY <1>1, <1>5, <2>1
<1> HIDE DEF new
<1>8. \A j \in 1 .. 8 : /\ new[j - 1] <= new[j]
                        /\ Within(next[j], history, p, new[j - 1], new[j])
  <2> TAKE j \in 1 .. 8
  <2>0. j \in 0 .. 8 /\ j - 1 \in 0 .. 8
    BY SMTT(30)
  <2>1. CASE j = k
    <3>1. j # k - 1 /\ new[j - 1] = mid
      BY <1>7, <2>1
    <3>2. new[j] = cut[k]
      BY <1>7, <2>0, <2>1, <3>1
    <3>3. mid <= cut[k]
      BY <1>5
    <3> QED
      BY <1>4, <2>1, <3>1, <3>2, <3>3
  <2>2. CASE j = k - 1
    <3>1. j - 1 = k - 2 /\ j - 1 # k - 1
      BY <2>2
    <3>2. new[j - 1] = cut[k - 2] /\ new[j] = mid
      BY <1>7, <2>0, <2>2, <3>1
    <3>3. cut[k - 2] <= mid
      BY <1>5
    <3> QED
      BY <1>6, <2>2, <3>2, <3>3
  <2>3. CASE j # k /\ j # k - 1
    <3>1. j - 1 # k - 1
      BY <2>3
    <3>2. new[j] = cut[j] /\ new[j - 1] = cut[j - 1]
      BY <1>7, <2>0, <2>3, <3>1
    <3>3. next[j] = trail[j]
      BY <2>3
    <3> QED
      BY <1>1, <3>2, <3>3
  <2> QED
    BY <2>1, <2>2, <2>3
<1> QED
  BY <1>7, <1>8 DEF Follows

\* Elements that carry no text for p may be added to any queue.
LEMMA TrailBlank ==
    ASSUME NEW history, Len(history) \in Nat, NEW p, NEW trail, NEW next,
           NEW k \in 1 .. 8, Follows(trail, history, p),
           \A j \in 1 .. 8 : j # k => next[j] = trail[j],
           Longer(trail[k], next[k], {})
    PROVE  Follows(next, history, p)
<1>1. PICK cut \in [0 .. 8 -> 0 .. Len(history)] :
        \A j \in 1 .. 8 : /\ cut[j - 1] <= cut[j]
                          /\ Within(trail[j], history, p, cut[j - 1], cut[j])
  BY DEF Follows
<1>2. cut[k - 1] \in 0 .. Len(history) /\ cut[k] \in cut[k - 1] .. Len(history)
  <2>1. k - 1 \in 0 .. 8 /\ k \in 0 .. 8 /\ k \in 1 .. 8
    BY SMTT(30)
  <2>2. /\ cut[k - 1] \in 0 .. Len(history) /\ cut[k] \in 0 .. Len(history)
        /\ cut[k - 1] <= cut[k]
    BY <1>1, <2>1
  <2> QED
    BY SMTT(30), <2>2
<1>3. cut[k] \in cut[k] .. Len(history)
  BY SMTT(30), <1>2
<1>4. Within(next[k], history, p, cut[k - 1], cut[k])
  <2>1. Within(trail[k], history, p, cut[k - 1], cut[k])
    BY <1>1
  <2>2. {} # {} => cut[k] < cut[k] /\ Entry(history, cut[k], p, {})
    OBVIOUS
  <2> QED
    BY <1>2, <1>3, <2>1, <2>2, WithinMore
<1>5. \A j \in 1 .. 8 : Within(next[j], history, p, cut[j - 1], cut[j])
  BY <1>1, <1>4
<1> QED
  BY <1>1, <1>5 DEF Follows

\* What stands in a queue may be thrown away.
LEMMA TrailEmptied ==
    ASSUME NEW history, NEW p, NEW trail, NEW next,
           NEW k \in 1 .. 8, Follows(trail, history, p),
           \A j \in 1 .. 8 : j # k => next[j] = trail[j],
           DOMAIN next[k] = {}
    PROVE  Follows(next, history, p)
<1>1. PICK cut \in [0 .. 8 -> 0 .. Len(history)] :
        \A j \in 1 .. 8 : /\ cut[j - 1] <= cut[j]
                          /\ Within(trail[j], history, p, cut[j - 1], cut[j])
  BY DEF Follows
<1>2. Within(next[k], history, p, cut[k - 1], cut[k])
  <2>1. <<>> \in [DOMAIN next[k] -> 0 .. Len(history)]
    OBVIOUS
  <2> QED
    BY <2>1 DEF Within
<1>3. \A j \in 1 .. 8 : Within(next[j], history, p, cut[j - 1], cut[j])
  BY <1>1, <1>2
<1> QED
  BY <1>1, <1>3 DEF Follows

\* A text is said and may become a command, the last of them.
LEMMA TrailSaid ==
    ASSUME NEW history \in Seq(Cmds), NEW cmd \in Cmds, NEW p,
           NEW trail, NEW next, NEW texts, Follows(trail, history, p),
           \A j \in 1 .. 7 : next[j] = trail[j],
           Longer(trail[8], next[8], texts),
           texts # {} => cmd.to \in {p, ALL} /\ texts = {cmd.text}
    PROVE  Follows(next, Append(history, cmd), p)
<1> DEFINE longer == Append(history, cmd)
           n == Len(history)
<1>1. /\ n \in Nat /\ Len(longer) = n + 1
      /\ \A i \in 1 .. n : longer[i] = history[i]
      /\ longer[n + 1] = cmd
  BY QueueAppends
<1> HIDE DEF longer
<1>2. PICK cut \in [0 .. 8 -> 0 .. n] :
        \A j \in 1 .. 8 : /\ cut[j - 1] <= cut[j]
                          /\ Within(trail[j], history, p, cut[j - 1], cut[j])
  BY DEF Follows
<1> DEFINE new == [cut EXCEPT ![8] = n + 1]
<1>3. \A j \in 1 .. 8 : /\ cut[j - 1] \in 0 .. n /\ cut[j] \in 0 .. n
                        /\ cut[j - 1] <= cut[j]
                        /\ Within(trail[j], longer, p, cut[j - 1], cut[j])
  <2> TAKE j \in 1 .. 8
  <2>1. j - 1 \in 0 .. 8 /\ j \in 0 .. 8
    OBVIOUS
  <2>2. cut[j - 1] \in 0 .. n /\ cut[j] \in 0 .. n
    BY <1>2, <2>1
  <2> HIDE DEF n
  <2>3. Len(history) <= Len(longer) /\ Len(longer) \in Nat
    BY <1>1 DEF n
  <2> QED
    BY <1>1, <1>2, <2>2, <2>3, WithinLonger DEF n
<1> HIDE DEF n
<1>4. Within(next[8], longer, p, cut[7], n + 1)
  <2>1. /\ cut[7] \in 0 .. Len(longer) /\ cut[8] \in cut[7] .. Len(longer)
        /\ n + 1 \in cut[8] .. Len(longer) /\ cut[8] < n + 1
        /\ Len(longer) \in Nat
        /\ Within(trail[8], longer, p, cut[7], cut[8])
    <3>1. /\ cut[7] \in 0 .. n /\ cut[8] \in 0 .. n /\ cut[7] <= cut[8]
          /\ Within(trail[8], longer, p, cut[7], cut[8])
      <4>1. 8 \in 1 .. 8 /\ 8 - 1 = 7
        OBVIOUS
      <4> QED
        BY <1>3, <4>1
    <3> QED
      BY <1>1, <3>1, SMTT(30)
  <2>2. texts # {} => Entry(longer, n + 1, p, texts)
    BY <1>1 DEF Entry
  <2> QED
    BY <2>1, <2>2, WithinMore
<1>5. /\ new \in [0 .. 8 -> 0 .. Len(longer)] /\ new[8] = n + 1
      /\ \A j \in 0 .. 7 : new[j] = cut[j]
  <2>1. 0 .. n \subseteq 0 .. Len(longer) /\ n + 1 \in 0 .. Len(longer)
    BY <1>1
  <2>2. cut \in [0 .. 8 -> 0 .. Len(longer)]
    BY <1>2, <2>1
  <2>3. 8 \in 0 .. 8 /\ \A j \in 0 .. 7 : j \in 0 .. 8 /\ j # 8
    OBVIOUS
  <2> QED
    BY <2>1, <2>2, <2>3
<1> HIDE DEF new
<1>6. \A j \in 1 .. 8 : /\ new[j - 1] <= new[j]
                        /\ Within(next[j], longer, p, new[j - 1], new[j])
  <2> TAKE j \in 1 .. 8
  <2>1. CASE j = 8
    <3>1. new[j - 1] = cut[7] /\ new[j] = n + 1 /\ cut[7] \in 0 .. n
      BY <1>2, <1>5, <2>1
    <3> QED
      BY SMTT(30), <1>1, <1>4, <2>1, <3>1
  <2>2. CASE j # 8
    <3>1. j - 1 \in 0 .. 7 /\ j \in 0 .. 7 /\ j \in 1 .. 7
      BY <2>2
    <3>2. new[j - 1] = cut[j - 1] /\ new[j] = cut[j]
      BY <1>5, <3>1
    <3>3. next[j] = trail[j]
      BY <3>1
    <3> QED
      BY <1>3, <3>2, <3>3
  <2> QED
    BY <2>1, <2>2
<1> QED
  BY <1>5, <1>6 DEF Follows, longer

\* A frame that was not damaged passes the checksum.
LEMMA DecodedAsSent ==
    ASSUME NEW f \in OutFrames
    PROVE  DecodeEthernetFrame(Sent(f)) =
                {Frame(f.src, f.dst, f.type, f.sequence, Protected(f).payload)}
<1> DEFINE g == Protected(f)
           r == Sent(f)
           n == Len(g.payload)
<1>1. /\ n \in Nat
      /\ r = [src |-> f.src, dst |-> f.dst, type |-> f.type,
              sequence |-> f.sequence, len |-> n,
              checksum |-> <<f.type, f.sequence, n, g.payload>>,
              data |-> Padded(g.payload)]
      /\ Len(r.data) = IF n < MinPayload THEN MinPayload ELSE n
      /\ SubSeq(r.data, 1, n) = g.payload
  BY RawFrame
<1> HIDE DEF g, n, r
<1>2. /\ r.src = f.src /\ r.dst = f.dst /\ r.type = f.type
      /\ r.sequence = f.sequence /\ r.len = n
      /\ r.checksum = <<f.type, f.sequence, n, g.payload>>
  BY <1>1
<1>3. Payload(r) = g.payload
  <2>1. CASE n < Len(r.data)
    BY <1>1, <1>2, <2>1 DEF Payload
  <2>2. CASE ~(n < Len(r.data))
    <3>1. Len(r.data) = n
      BY <1>1, <2>2, FramesAssumption
    <3> QED
      BY <1>1, <1>2, <3>1 DEF Payload
  <2> QED
    BY <2>1, <2>2
<1>4. ChecksumRight(r)
  BY <1>2, <1>3 DEF ChecksumRight, Crc
<1>5. r.type \in MessageType
  BY <1>2, OutFields DEF MessageType
<1>6. DecodeEthernetFrame(r) =
        {[src |-> f.src, dst |-> f.dst, type |-> f.type,
          sequence |-> f.sequence, payload_len |-> n,
          payload |-> g.payload]}
  BY <1>2, <1>3, <1>4, <1>5 DEF DecodeEthernetFrame
<1> QED
  BY <1>6 DEF Frame, g, n, r

\* A frame on the wire carries the text Messaging put in it.
LEMMA TextOnWire ==
    ASSUME NEW f \in OutFrames
    PROVE  SealedIn(Sent(f)) = Text(f)
<1> DEFINE h == Frame(f.src, f.dst, f.type, f.sequence, Protected(f).payload)
<1>1. DecodeEthernetFrame(Sent(f)) = {h}
  BY DecodedAsSent
<1>2. /\ h.src = f.src /\ h.dst = f.dst /\ h.type = f.type
      /\ h = Frame(h.src, h.dst, f.type, f.sequence, Protected(f).payload)
  BY DEF Frame
<1> HIDE DEF h
<1>3. SealedIn(Sent(f)) =
        UNION {Text(frame) : frame \in AcceptIncoming(h, Key[Me])}
  BY <1>1 DEF SealedIn
<1>4. CASE f.type = "APP_MESSAGE"
  <2>1. AcceptIncoming(h, Key[Me]) = {f}
    BY <1>2, <1>4, OpensOnlyAsSent
  <2> QED
    BY <1>3, <2>1
<1>5. CASE f.type # "APP_MESSAGE"
  <2>1. f.type = "DISCOVER_REPLY"
    BY <1>5, OutFields
  <2>2. AcceptIncoming(h, Key[Me]) = {h}
    BY <1>2, <2>1 DEF AcceptIncoming, ShouldProtect
  <2> QED
    BY <1>2, <1>3, <1>5, <2>2 DEF Text
<1> QED
  BY <1>4, <1>5

\* Each of the six is a queue.
LEMMA TrailQueues ==
    ASSUME QueuesInv, NEW p \in Peers, NEW k \in 1 .. 8
    PROVE  \E n \in Nat : DOMAIN Trail(p)[k] = 1 .. n
<1>1. p \in Macs /\ Me \in Macs
  BY MessagesAssumption DEF Peers
<1>2. /\ Len(shown[p][Me]) \in Nat /\ Len(events[p]) \in Nat
      /\ Len(stream[p]) \in Nat /\ Len(scheduled[p]) \in Nat
      /\ Len(incoming[p]) \in Nat /\ Len(wire[p]) \in Nat
      /\ Len(out) \in Nat /\ Len(cmds) \in Nat
  <2>1. /\ shown[p][Me] \in Seq(Seq(ClearBytes))
        /\ events[p] \in Seq(ChatEvents(p))
        /\ stream[p] \in Seq(ChatEvents(p))
        /\ scheduled[p] \in Seq(ChatEvents(p))
        /\ incoming[p] \in Seq(InFrames(p))
        /\ wire[p] \in Seq(WireFrames(p))
        /\ out \in Seq(OutFrames) /\ cmds \in Seq(Cmds)
    BY <1>1 DEF QueuesInv, SenderInv, NetworkInv, ReceiverInv, ThreadsInv
  <2> QED
    BY <2>1, LenProperties
<1>3. /\ DOMAIN ShownTexts(p) = 1 .. Len(shown[p][Me])
      /\ DOMAIN ChatTexts(events[p]) = 1 .. Len(events[p])
      /\ DOMAIN ChatTexts(stream[p]) = 1 .. Len(stream[p])
      /\ DOMAIN ChatTexts(scheduled[p]) = 1 .. Len(scheduled[p])
  BY DEF ShownTexts, ChatTexts
<1>4. /\ DOMAIN IncomingTexts(p) = 1 .. Len(incoming[p])
      /\ DOMAIN WireTexts(p) = 1 .. Len(wire[p])
      /\ DOMAIN OutTexts(p) = 1 .. Len(out)
      /\ DOMAIN CmdTexts(p) = 1 .. Len(cmds)
  BY DEF IncomingTexts, WireTexts, OutTexts, CmdTexts
<1> QED
  BY SMTT(30), <1>2, <1>3, <1>4 DEF Trail

LEMMA QueueStays ==
    ASSUME NEW queue, NEW texts, \E n \in Nat : DOMAIN queue = 1 .. n
    PROVE  Longer(queue, queue, texts)
<1>1. PICK n \in Nat : DOMAIN queue = 1 .. n
  OBVIOUS
<1>2. n + 0 = n /\ n + 1 .. n + 0 = {}
  BY <1>1
<1> QED
  BY <1>1, <1>2 DEF Longer

LEMMA SameQueues ==
    ASSUME NEW p
    PROVE
        /\ Trail(p)[1] = ShownTexts(p) /\ Trail(p)'[1] = ShownTexts(p)'
        /\ Trail(p)[2] = ChatTexts(events[p]) /\ Trail(p)'[2] = ChatTexts(events'[p])
        /\ Trail(p)[3] = ChatTexts(stream[p]) /\ Trail(p)'[3] = ChatTexts(stream'[p])
        /\ Trail(p)[4] = ChatTexts(scheduled[p]) /\ Trail(p)'[4] = ChatTexts(scheduled'[p])
        /\ Trail(p)[5] = IncomingTexts(p) /\ Trail(p)'[5] = IncomingTexts(p)'
        /\ Trail(p)[6] = WireTexts(p) /\ Trail(p)'[6] = WireTexts(p)'
        /\ Trail(p)[7] = OutTexts(p) /\ Trail(p)'[7] = OutTexts(p)'
        /\ Trail(p)[8] = CmdTexts(p) /\ Trail(p)'[8] = CmdTexts(p)'
        /\ shown'[p] = shown[p] => Trail(p)'[1] = Trail(p)[1]
        /\ events'[p] = events[p] => Trail(p)'[2] = Trail(p)[2]
        /\ stream'[p] = stream[p] => Trail(p)'[3] = Trail(p)[3]
        /\ scheduled'[p] = scheduled[p] => Trail(p)'[4] = Trail(p)[4]
        /\ incoming'[p] = incoming[p] => Trail(p)'[5] = Trail(p)[5]
        /\ wire'[p] = wire[p] => Trail(p)'[6] = Trail(p)[6]
        /\ out' = out => Trail(p)'[7] = Trail(p)[7]
        /\ cmds' = cmds => Trail(p)'[8] = Trail(p)[8]
<1>1. /\ Trail(p)[1] = ShownTexts(p) /\ Trail(p)'[1] = ShownTexts(p)'
      /\ Trail(p)[2] = ChatTexts(events[p]) /\ Trail(p)'[2] = ChatTexts(events'[p])
      /\ Trail(p)[3] = ChatTexts(stream[p]) /\ Trail(p)'[3] = ChatTexts(stream'[p])
      /\ Trail(p)[4] = ChatTexts(scheduled[p]) /\ Trail(p)'[4] = ChatTexts(scheduled'[p])
      /\ Trail(p)[5] = IncomingTexts(p) /\ Trail(p)'[5] = IncomingTexts(p)'
      /\ Trail(p)[6] = WireTexts(p) /\ Trail(p)'[6] = WireTexts(p)'
      /\ Trail(p)[7] = OutTexts(p) /\ Trail(p)'[7] = OutTexts(p)'
      /\ Trail(p)[8] = CmdTexts(p) /\ Trail(p)'[8] = CmdTexts(p)'
  BY DEF Trail, ChatTexts
<1>2. shown'[p] = shown[p] => ShownTexts(p)' = ShownTexts(p)
  BY DEF ShownTexts
<1>3. /\ incoming'[p] = incoming[p] => IncomingTexts(p)' = IncomingTexts(p)
      /\ wire'[p] = wire[p] => WireTexts(p)' = WireTexts(p)
  BY DEF IncomingTexts, WireTexts
<1>4. /\ out' = out => OutTexts(p)' = OutTexts(p)
      /\ cmds' = cmds => CmdTexts(p)' = CmdTexts(p)
  BY DEF OutTexts, CmdTexts
<1> QED
  BY <1>1, <1>2, <1>3, <1>4

\* The commands of a text.
LEMMA TrailSendText ==
    ASSUME QueuesInv, TrailInv, NEW to \in Peers \union {ALL}, SendText(to)
    PROVE  TrailInv'
<1>1. PICK text \in Texts[Len(said) + 1] :
        /\ said' = Append(said, [to |-> to, text |-> text])
        /\ cmds' = IF ui[Me] = "lost" THEN cmds
                   ELSE Append(cmds, [to |-> to, text |-> text])
  BY DEF SendText
<1> DEFINE cmd == [to |-> to, text |-> text]
<1>2. cmd \in Cmds /\ said \in Seq(Cmds) /\ cmds \in Seq(Cmds)
  <2>1. Len(said) < Len(Texts) /\ Len(said) \in Nat /\ Len(Texts) \in Nat
    BY MessagesAssumption DEF SendText, QueuesInv, SenderInv
  <2>2. Texts[Len(said) + 1] \in SUBSET Seq(ClearBytes)
    BY <2>1, MessagesAssumption, ElementOfSeq
  <2> QED
    BY <2>2 DEF Cmds, QueuesInv, SenderInv
<1>3. cmd.to = to /\ cmd.text = text
  OBVIOUS
<1>4. said' = Append(said, cmd)
      /\ cmds' = IF ui[Me] = "lost" THEN cmds ELSE Append(cmds, cmd)
  BY <1>1
<1> HIDE DEF cmd
<1> SUFFICES ASSUME NEW p \in Peers
             PROVE  Follows(Trail(p)', said', p)
  BY DEF TrailInv
<1>5. \A j \in 1 .. 7 : Trail(p)'[j] = Trail(p)[j]
  <2>1. UNCHANGED <<shown, events, stream, scheduled, incoming, wire, out>>
    BY DEF SendText, receiverVars, uiVars
  <2> QED
    BY <2>1, SameQueues
<1> DEFINE texts == IF cmds' # cmds /\ to \in {p, ALL} THEN {text} ELSE {}
<1>6. Longer(Trail(p)[8], Trail(p)'[8], texts)
  <2>1. Trail(p)[8] = CmdTexts(p) /\ Trail(p)'[8] = CmdTexts(p)'
    BY SameQueues
  <2>2. CASE ui[Me] = "lost"
    <3>1. CmdTexts(p)' = CmdTexts(p)
      BY <1>4, <2>2 DEF CmdTexts
    <3>2. \E n \in Nat : DOMAIN Trail(p)[8] = 1 .. n
      BY TrailQueues
    <3> QED
      BY <2>1, <3>1, <3>2, QueueStays
  <2>3. CASE ui[Me] # "lost"
    <3> DEFINE n == Len(cmds)
    <3>1. /\ n \in Nat /\ Len(cmds') = n + 1
          /\ \A i \in 1 .. n : cmds'[i] = cmds[i]
          /\ cmds'[n + 1] = cmd
      BY <1>2, <1>4, <2>3, QueueAppends
    <3>2. cmds' # cmds
      BY <3>1
    <3> HIDE DEF texts
    <3>3. /\ DOMAIN CmdTexts(p) = 1 .. n /\ DOMAIN CmdTexts(p)' = 1 .. n + 1
          /\ \A i \in 1 .. n : CmdTexts(p)'[i] = CmdTexts(p)[i]
          /\ CmdTexts(p)'[n + 1] = IF to \in {p, ALL} THEN {text} ELSE {}
      <4>1. /\ CmdTexts(p) = [i \in 1 .. n |-> SaidTo(cmds[i], p)]
            /\ CmdTexts(p)' = [i \in 1 .. n + 1 |-> SaidTo(cmds'[i], p)]
        BY <3>1 DEF CmdTexts
      <4> HIDE DEF n
      <4>2. 1 .. n \subseteq 1 .. n + 1 /\ n + 1 \in 1 .. n + 1
        BY <3>1
      <4>3. DOMAIN CmdTexts(p) = 1 .. n /\ DOMAIN CmdTexts(p)' = 1 .. n + 1
        BY <4>1
      <4>4. ASSUME NEW i \in 1 .. n PROVE CmdTexts(p)'[i] = CmdTexts(p)[i]
        <5>1. i \in 1 .. n + 1 /\ cmds'[i] = cmds[i]
          BY <3>1, <4>2
        <5> QED
          BY <4>1, <5>1
      <4>5. CmdTexts(p)'[n + 1] = SaidTo(cmds'[n + 1], p)
        BY <4>1, <4>2
      <4>6. cmds'[n + 1].to = to /\ cmds'[n + 1].text = text
        BY <1>3, <3>1
      <4>7. SaidTo(cmds'[n + 1], p) = IF to \in {p, ALL} THEN {text} ELSE {}
        BY <4>6 DEF SaidTo
      <4> QED
        BY <4>3, <4>4, <4>5, <4>7
    <3> HIDE DEF n
    <3>4. CmdTexts(p)'[n + 1] \subseteq texts
      BY <3>2, <3>3 DEF texts
    <3>5. n + 1 .. n + 1 = {n + 1}
      BY <3>1
    <3> QED
      BY <2>1, <3>1, <3>3, <3>4, <3>5 DEF Longer
  <2> QED
    BY <2>2, <2>3
<1>7. Follows(Trail(p), said, p)
  BY DEF TrailInv
<1>8. texts # {} => cmd.to \in {p, ALL} /\ texts = {cmd.text}
  BY <1>3
<1> HIDE DEF texts
<1>9. Follows(Trail(p)', Append(said, cmd), p)
  BY <1>2, <1>5, <1>6, <1>7, <1>8, TrailSaid
<1> QED
  BY <1>4, <1>9

\* Of these sets of texts, each is part of texts and one at most not empty.
Blanks(sets, texts) ==
    /\ \A i \in DOMAIN sets : sets[i] \subseteq texts
    /\ \A i, j \in DOMAIN sets : i < j => sets[i] = {} \/ sets[j] = {}

LEMMA BlanksBehind ==
    ASSUME NEW n \in Nat, NEW l \in Nat, NEW queue, NEW more, NEW texts,
           NEW b, Blanks(b, texts), DOMAIN b = 1 .. l,
           DOMAIN queue = 1 .. n, DOMAIN more = 1 .. n + l,
           \A i \in 1 .. n : more[i] = queue[i],
           \A i \in 1 .. l : more[n + i] = b[i]
    PROVE  Longer(queue, more, texts)
<1>1. \A i \in n + 1 .. n + l : i - n \in 1 .. l /\ more[i] = b[i - n]
  <2> TAKE i \in n + 1 .. n + l
  <2>1. i - n \in 1 .. l /\ n + (i - n) = i
    OBVIOUS
  <2> QED
    BY <2>1
<1>2. \A i \in n + 1 .. n + l : more[i] \subseteq texts
  BY <1>1 DEF Blanks
<1>3. \A i, j \in n + 1 .. n + l : i < j => more[i] = {} \/ more[j] = {}
  <2> SUFFICES ASSUME NEW i \in n + 1 .. n + l, NEW j \in n + 1 .. n + l, i < j
               PROVE  more[i] = {} \/ more[j] = {}
    OBVIOUS
  <2>1. i - n < j - n
    OBVIOUS
  <2> QED
    BY <1>1, <2>1 DEF Blanks
<1> QED
  BY <1>2, <1>3 DEF Longer


\* A queue that loses its head loses the first of its texts.
LEMMA QueuesShorter ==
    ASSUME NEW S, NEW p
    PROVE
        /\ incoming[p] \in Seq(S) /\ incoming[p] # <<>>
           /\ incoming'[p] = Tail(incoming[p]) =>
                Shorter(IncomingTexts(p), IncomingTexts(p)')
        /\ wire[p] \in Seq(S) /\ wire[p] # <<>> /\ wire'[p] = Tail(wire[p]) =>
                Shorter(WireTexts(p), WireTexts(p)')
        /\ out \in Seq(S) /\ out # <<>> /\ out' = Tail(out) =>
                Shorter(OutTexts(p), OutTexts(p)')
        /\ cmds \in Seq(S) /\ cmds # <<>> /\ cmds' = Tail(cmds) =>
                Shorter(CmdTexts(p), CmdTexts(p)')
<1>1. ASSUME incoming[p] \in Seq(S), incoming[p] # <<>>,
             incoming'[p] = Tail(incoming[p])
      PROVE  Shorter(IncomingTexts(p), IncomingTexts(p)')
  <2> DEFINE n == Len(incoming[p])
  <2>1. /\ n \in Nat \ {0} /\ Len(incoming'[p]) = n - 1
        /\ \A i \in 1 .. n - 1 : incoming'[p][i] = incoming[p][i + 1]
    BY <1>1, QueueTakes
  <2>2. /\ IncomingTexts(p) = [i \in 1 .. n |-> Text(incoming[p][i])]
        /\ IncomingTexts(p)' = [i \in 1 .. n - 1 |-> Text(incoming'[p][i])]
    BY <2>1 DEF IncomingTexts
  <2> HIDE DEF n
  <2>3. \A i \in 1 .. n - 1 : IncomingTexts(p)'[i] = IncomingTexts(p)[i + 1]
    <3> TAKE i \in 1 .. n - 1
    <3>1. i + 1 \in 1 .. n
      BY <2>1
    <3> QED
      BY <2>1, <2>2, <3>1
  <2>4. /\ DOMAIN IncomingTexts(p) = 1 .. n
        /\ DOMAIN IncomingTexts(p)' = 1 .. n - 1
    BY <2>2
  <2> QED
    BY <2>1, <2>3, <2>4 DEF Shorter
<1>2. ASSUME wire[p] \in Seq(S), wire[p] # <<>>, wire'[p] = Tail(wire[p])
      PROVE  Shorter(WireTexts(p), WireTexts(p)')
  <2> DEFINE n == Len(wire[p])
  <2>1. /\ n \in Nat \ {0} /\ Len(wire'[p]) = n - 1
        /\ \A i \in 1 .. n - 1 : wire'[p][i] = wire[p][i + 1]
    BY <1>2, QueueTakes
  <2>2. /\ WireTexts(p) = [i \in 1 .. n |-> SealedIn(wire[p][i])]
        /\ WireTexts(p)' = [i \in 1 .. n - 1 |-> SealedIn(wire'[p][i])]
    BY <2>1 DEF WireTexts
  <2> HIDE DEF n
  <2>3. \A i \in 1 .. n - 1 : WireTexts(p)'[i] = WireTexts(p)[i + 1]
    <3> TAKE i \in 1 .. n - 1
    <3>1. i + 1 \in 1 .. n
      BY <2>1
    <3> QED
      BY <2>1, <2>2, <3>1
  <2>4. DOMAIN WireTexts(p) = 1 .. n /\ DOMAIN WireTexts(p)' = 1 .. n - 1
    BY <2>2
  <2> QED
    BY <2>1, <2>3, <2>4 DEF Shorter
<1>3. ASSUME out \in Seq(S), out # <<>>, out' = Tail(out)
      PROVE  Shorter(OutTexts(p), OutTexts(p)')
  <2> DEFINE n == Len(out)
  <2>1. /\ n \in Nat \ {0} /\ Len(out') = n - 1
        /\ \A i \in 1 .. n - 1 : out'[i] = out[i + 1]
    BY <1>3, QueueTakes
  <2>2. /\ OutTexts(p) = [i \in 1 .. n |-> TextFor(out[i], p)]
        /\ OutTexts(p)' = [i \in 1 .. n - 1 |-> TextFor(out'[i], p)]
    BY <2>1 DEF OutTexts
  <2> HIDE DEF n
  <2>3. \A i \in 1 .. n - 1 : OutTexts(p)'[i] = OutTexts(p)[i + 1]
    <3> TAKE i \in 1 .. n - 1
    <3>1. i + 1 \in 1 .. n
      BY <2>1
    <3> QED
      BY <2>1, <2>2, <3>1
  <2>4. DOMAIN OutTexts(p) = 1 .. n /\ DOMAIN OutTexts(p)' = 1 .. n - 1
    BY <2>2
  <2> QED
    BY <2>1, <2>3, <2>4 DEF Shorter
<1>4. ASSUME cmds \in Seq(S), cmds # <<>>, cmds' = Tail(cmds)
      PROVE  Shorter(CmdTexts(p), CmdTexts(p)')
  <2> DEFINE n == Len(cmds)
  <2>1. /\ n \in Nat \ {0} /\ Len(cmds') = n - 1
        /\ \A i \in 1 .. n - 1 : cmds'[i] = cmds[i + 1]
    BY <1>4, QueueTakes
  <2>2. /\ CmdTexts(p) = [i \in 1 .. n |-> SaidTo(cmds[i], p)]
        /\ CmdTexts(p)' = [i \in 1 .. n - 1 |-> SaidTo(cmds'[i], p)]
    BY <2>1 DEF CmdTexts
  <2> HIDE DEF n
  <2>3. \A i \in 1 .. n - 1 : CmdTexts(p)'[i] = CmdTexts(p)[i + 1]
    <3> TAKE i \in 1 .. n - 1
    <3>1. i + 1 \in 1 .. n
      BY <2>1
    <3> QED
      BY <2>1, <2>2, <3>1
  <2>4. DOMAIN CmdTexts(p) = 1 .. n /\ DOMAIN CmdTexts(p)' = 1 .. n - 1
    BY <2>2
  <2> QED
    BY <2>1, <2>3, <2>4 DEF Shorter
<1> QED
  BY <1>1, <1>2, <1>3, <1>4

\* The same of a queue of chat events.
LEMMA ChatShorter ==
    ASSUME NEW S, NEW q \in Seq(S), q # <<>>
    PROVE  /\ Shorter(ChatTexts(q), ChatTexts(Tail(q)))
           /\ ChatTexts(q)[1] = {Head(q).text}
<1> DEFINE n == Len(q)
           r == Tail(q)
<1>1. /\ n \in Nat \ {0} /\ Len(r) = n - 1 /\ Head(q) = q[1]
      /\ \A i \in 1 .. n - 1 : r[i] = q[i + 1]
  BY QueueTakes
<1> HIDE DEF r
<1>2. /\ ChatTexts(q) = [i \in 1 .. n |-> {q[i].text}]
      /\ ChatTexts(r) = [i \in 1 .. n - 1 |-> {r[i].text}]
  BY <1>1 DEF ChatTexts
<1> HIDE DEF n
<1>3. \A i \in 1 .. n - 1 : ChatTexts(r)[i] = ChatTexts(q)[i + 1]
  <2> TAKE i \in 1 .. n - 1
  <2>1. i + 1 \in 1 .. n
    BY <1>1
  <2> QED
    BY <1>1, <1>2, <2>1
<1>4. DOMAIN ChatTexts(q) = 1 .. n /\ DOMAIN ChatTexts(r) = 1 .. n - 1
  BY <1>2
<1>5. 1 \in 1 .. n
  BY <1>1
<1>6. Shorter(ChatTexts(q), ChatTexts(r))
  BY <1>1, <1>3, <1>4 DEF Shorter
<1> QED
  BY <1>1, <1>2, <1>5, <1>6 DEF r

LEMMA ChatLonger ==
    ASSUME NEW S, NEW q \in Seq(S), NEW e \in S, NEW texts, e.text \in texts
    PROVE  Longer(ChatTexts(q), ChatTexts(Append(q, e)), texts)
<1> DEFINE n == Len(q)
           more == Append(q, e)
<1>1. /\ n \in Nat /\ Len(more) = n + 1 /\ more[n + 1] = e
      /\ \A i \in 1 .. n : more[i] = q[i]
  BY QueueAppends
<1> HIDE DEF more
<1>2. /\ ChatTexts(q) = [i \in 1 .. n |-> {q[i].text}]
      /\ ChatTexts(more) = [i \in 1 .. n + 1 |-> {more[i].text}]
  BY <1>1 DEF ChatTexts
<1> HIDE DEF n
<1>3. 1 .. n \subseteq 1 .. n + 1 /\ n + 1 .. n + 1 = {n + 1}
      /\ n + 1 \in 1 .. n + 1
  BY <1>1
<1>4. \A i \in 1 .. n : ChatTexts(more)[i] = ChatTexts(q)[i]
  <2> TAKE i \in 1 .. n
  <2>1. i \in 1 .. n + 1
    BY <1>3
  <2> QED
    BY <1>1, <1>2, <2>1
<1>5. ChatTexts(more)[n + 1] \subseteq texts
  <2>1. ChatTexts(more)[n + 1] = {e.text}
    BY <1>1, <1>2, <1>3
  <2> QED
    BY <2>1
<1>6. DOMAIN ChatTexts(q) = 1 .. n /\ DOMAIN ChatTexts(more) = 1 .. n + 1
  BY <1>2
<1>7. Longer(ChatTexts(q), ChatTexts(more), texts)
  <2>1. \A i \in n + 1 .. n + 1 : ChatTexts(more)[i] \subseteq texts
    BY <1>3, <1>5
  <2>2. \A i, j \in n + 1 .. n + 1 : ~(i < j)
    BY <1>1, <1>3
  <2> QED
    BY <1>1, <1>4, <1>6, <2>1, <2>2 DEF Longer
<1> QED
  BY <1>7 DEF more

\* A queue that gets new elements gets their texts.
LEMMA QueuesLonger ==
    ASSUME NEW S, NEW p, NEW r \in Seq(S), NEW texts
    PROVE
        /\ (/\ shown[p][Me] \in Seq(S) /\ shown'[p][Me] = shown[p][Me] \o r
            /\ Blanks([i \in 1 .. Len(r) |-> {r[i]}], texts)) =>
                Longer(ShownTexts(p), ShownTexts(p)', texts)
        /\ (/\ incoming[p] \in Seq(S) /\ incoming'[p] = incoming[p] \o r
            /\ Blanks([i \in 1 .. Len(r) |-> Text(r[i])], texts)) =>
                Longer(IncomingTexts(p), IncomingTexts(p)', texts)
        /\ (/\ wire[p] \in Seq(S) /\ wire'[p] = wire[p] \o r
            /\ Blanks([i \in 1 .. Len(r) |-> SealedIn(r[i])], texts)) =>
                Longer(WireTexts(p), WireTexts(p)', texts)
        /\ (/\ out \in Seq(S) /\ out' = out \o r
            /\ Blanks([i \in 1 .. Len(r) |-> TextFor(r[i], p)], texts)) =>
                Longer(OutTexts(p), OutTexts(p)', texts)
<1>1. ASSUME shown[p][Me] \in Seq(S), shown'[p][Me] = shown[p][Me] \o r,
             Blanks([i \in 1 .. Len(r) |-> {r[i]}], texts)
      PROVE  Longer(ShownTexts(p), ShownTexts(p)', texts)
  <2> DEFINE n == Len(shown[p][Me])
             l == Len(r)
             b == [i \in 1 .. l |-> {r[i]}]
  <2>1. /\ n \in Nat /\ l \in Nat /\ Len(shown'[p][Me]) = n + l
        /\ \A i \in 1 .. n : shown'[p][Me][i] = shown[p][Me][i]
        /\ \A i \in 1 .. l : shown'[p][Me][n + i] = r[i]
    <3> DEFINE q == shown[p][Me]
               w == shown'[p][Me]
    <3>1. q \in Seq(S) /\ w = q \o r
      BY <1>1
    <3> HIDE DEF q, w
    <3>2. /\ Len(q) \in Nat /\ Len(r) \in Nat /\ Len(w) = Len(q) + Len(r)
          /\ \A i \in 1 .. Len(q) : w[i] = q[i]
          /\ \A i \in 1 .. Len(r) : w[Len(q) + i] = r[i]
      BY <3>1, QueueGrows
    <3> QED
      BY <3>2 DEF q, w
  <2>2. /\ ShownTexts(p) = [i \in 1 .. n |-> {shown[p][Me][i]}]
        /\ ShownTexts(p)' = [i \in 1 .. n + l |-> {shown'[p][Me][i]}]
    BY <2>1 DEF ShownTexts
  <2>3. \A i \in 1 .. l : b[i] = {r[i]}
    OBVIOUS
  <2>4. Blanks(b, texts) /\ DOMAIN b = 1 .. l
    BY <1>1
  <2> HIDE DEF n, l, b
  <2>5. \A i \in 1 .. n : ShownTexts(p)'[i] = ShownTexts(p)[i]
    <3> TAKE i \in 1 .. n
    <3>1. i \in 1 .. n + l
      BY <2>1
    <3> QED
      BY <2>1, <2>2, <3>1
  <2>6. \A i \in 1 .. l : ShownTexts(p)'[n + i] = b[i]
    <3> TAKE i \in 1 .. l
    <3>1. n + i \in 1 .. n + l
      BY <2>1
    <3> QED
      BY <2>1, <2>2, <2>3, <3>1
  <2>7. DOMAIN ShownTexts(p) = 1 .. n /\ DOMAIN ShownTexts(p)' = 1 .. n + l
    BY <2>2
  <2> QED
    BY <2>1, <2>4, <2>5, <2>6, <2>7, BlanksBehind
<1>2. ASSUME incoming[p] \in Seq(S), incoming'[p] = incoming[p] \o r,
             Blanks([i \in 1 .. Len(r) |-> Text(r[i])], texts)
      PROVE  Longer(IncomingTexts(p), IncomingTexts(p)', texts)
  <2> DEFINE n == Len(incoming[p])
             l == Len(r)
             b == [i \in 1 .. l |-> Text(r[i])]
  <2>1. /\ n \in Nat /\ l \in Nat /\ Len(incoming'[p]) = n + l
        /\ \A i \in 1 .. n : incoming'[p][i] = incoming[p][i]
        /\ \A i \in 1 .. l : incoming'[p][n + i] = r[i]
    BY <1>2, QueueGrows
  <2>2. /\ IncomingTexts(p) = [i \in 1 .. n |-> Text(incoming[p][i])]
        /\ IncomingTexts(p)' = [i \in 1 .. n + l |-> Text(incoming'[p][i])]
    BY <2>1 DEF IncomingTexts
  <2>3. \A i \in 1 .. l : b[i] = Text(r[i])
    OBVIOUS
  <2>4. Blanks(b, texts) /\ DOMAIN b = 1 .. l
    BY <1>2
  <2> HIDE DEF n, l, b
  <2>5. \A i \in 1 .. n : IncomingTexts(p)'[i] = IncomingTexts(p)[i]
    <3> TAKE i \in 1 .. n
    <3>1. i \in 1 .. n + l
      BY <2>1
    <3> QED
      BY <2>1, <2>2, <3>1
  <2>6. \A i \in 1 .. l : IncomingTexts(p)'[n + i] = b[i]
    <3> TAKE i \in 1 .. l
    <3>1. n + i \in 1 .. n + l
      BY <2>1
    <3> QED
      BY <2>1, <2>2, <2>3, <3>1
  <2>7. /\ DOMAIN IncomingTexts(p) = 1 .. n
        /\ DOMAIN IncomingTexts(p)' = 1 .. n + l
    BY <2>2
  <2> QED
    BY <2>1, <2>4, <2>5, <2>6, <2>7, BlanksBehind
<1>3. ASSUME wire[p] \in Seq(S), wire'[p] = wire[p] \o r,
             Blanks([i \in 1 .. Len(r) |-> SealedIn(r[i])], texts)
      PROVE  Longer(WireTexts(p), WireTexts(p)', texts)
  <2> DEFINE n == Len(wire[p])
             l == Len(r)
             b == [i \in 1 .. l |-> SealedIn(r[i])]
  <2>1. /\ n \in Nat /\ l \in Nat /\ Len(wire'[p]) = n + l
        /\ \A i \in 1 .. n : wire'[p][i] = wire[p][i]
        /\ \A i \in 1 .. l : wire'[p][n + i] = r[i]
    BY <1>3, QueueGrows
  <2>2. /\ WireTexts(p) = [i \in 1 .. n |-> SealedIn(wire[p][i])]
        /\ WireTexts(p)' = [i \in 1 .. n + l |-> SealedIn(wire'[p][i])]
    BY <2>1 DEF WireTexts
  <2>3. \A i \in 1 .. l : b[i] = SealedIn(r[i])
    OBVIOUS
  <2>4. Blanks(b, texts) /\ DOMAIN b = 1 .. l
    BY <1>3
  <2> HIDE DEF n, l, b
  <2>5. \A i \in 1 .. n : WireTexts(p)'[i] = WireTexts(p)[i]
    <3> TAKE i \in 1 .. n
    <3>1. i \in 1 .. n + l
      BY <2>1
    <3> QED
      BY <2>1, <2>2, <3>1
  <2>6. \A i \in 1 .. l : WireTexts(p)'[n + i] = b[i]
    <3> TAKE i \in 1 .. l
    <3>1. n + i \in 1 .. n + l
      BY <2>1
    <3> QED
      BY <2>1, <2>2, <2>3, <3>1
  <2>7. DOMAIN WireTexts(p) = 1 .. n /\ DOMAIN WireTexts(p)' = 1 .. n + l
    BY <2>2
  <2> QED
    BY <2>1, <2>4, <2>5, <2>6, <2>7, BlanksBehind
<1>4. ASSUME out \in Seq(S), out' = out \o r,
             Blanks([i \in 1 .. Len(r) |-> TextFor(r[i], p)], texts)
      PROVE  Longer(OutTexts(p), OutTexts(p)', texts)
  <2> DEFINE n == Len(out)
             l == Len(r)
             b == [i \in 1 .. l |-> TextFor(r[i], p)]
  <2>1. /\ n \in Nat /\ l \in Nat /\ Len(out') = n + l
        /\ \A i \in 1 .. n : out'[i] = out[i]
        /\ \A i \in 1 .. l : out'[n + i] = r[i]
    BY <1>4, QueueGrows
  <2>2. /\ OutTexts(p) = [i \in 1 .. n |-> TextFor(out[i], p)]
        /\ OutTexts(p)' = [i \in 1 .. n + l |-> TextFor(out'[i], p)]
    BY <2>1 DEF OutTexts
  <2>3. \A i \in 1 .. l : b[i] = TextFor(r[i], p)
    OBVIOUS
  <2>4. Blanks(b, texts) /\ DOMAIN b = 1 .. l
    BY <1>4
  <2> HIDE DEF n, l, b
  <2>5. \A i \in 1 .. n : OutTexts(p)'[i] = OutTexts(p)[i]
    <3> TAKE i \in 1 .. n
    <3>1. i \in 1 .. n + l
      BY <2>1
    <3> QED
      BY <2>1, <2>2, <3>1
  <2>6. \A i \in 1 .. l : OutTexts(p)'[n + i] = b[i]
    <3> TAKE i \in 1 .. l
    <3>1. n + i \in 1 .. n + l
      BY <2>1
    <3> QED
      BY <2>1, <2>2, <2>3, <3>1
  <2>7. DOMAIN OutTexts(p) = 1 .. n /\ DOMAIN OutTexts(p)' = 1 .. n + l
    BY <2>2
  <2> QED
    BY <2>1, <2>4, <2>5, <2>6, <2>7, BlanksBehind
<1> QED
  BY <1>1, <1>2, <1>3, <1>4

LEMMA OneBlank ==
    ASSUME NEW b, NEW texts, DOMAIN b = 1 .. 1, b[1] \subseteq texts
    PROVE  Blanks(b, texts)
BY DEF Blanks

\* Of the frames of a command one at most goes to p, when it was said to p.
LEMMA CmdBlanks ==
    ASSUME SenderInv, NEW p \in Peers, NEW cmd \in Cmds,
           NEW targets \in Targets(cmd),
           NEW order \in Bijection(1 .. Cardinality(targets), targets),
           NEW q, q = CmdFrames(order, cmd.text),
           NEW texts, texts = IF cmd.to \in {p, ALL} THEN {cmd.text} ELSE {},
           NEW b, b = [i \in 1 .. Len(q) |-> TextFor(q[i], p)]
    PROVE  Blanks(b, texts)
<1> DEFINE n == Cardinality(targets)
<1>1. /\ order \in [1 .. n -> targets]
      /\ \A i, j \in 1 .. n : order[i] = order[j] => i = j
  BY TargetsOrdered
<1>2. /\ Len(q) = n
      /\ \A i \in 1 .. n : /\ q[i].dst = order[i] /\ q[i].type = "APP_MESSAGE"
                           /\ q[i].payload = cmd.text
  <2>1. /\ Len(q) = Cardinality(targets)
        /\ \A i \in 1 .. Len(q) : /\ q[i].dst = order[i]
                                  /\ q[i].type = "APP_MESSAGE"
                                  /\ q[i].payload = cmd.text
    BY CmdFramesQueue
  <2> QED
    BY <2>1
<1>3. p \in targets => cmd.to \in {p, ALL}
  BY DEF Targets
<1>4. \A i \in 1 .. n : b[i] = IF order[i] = p THEN {cmd.text} ELSE {}
  BY <1>2 DEF Text, TextFor
<1>5. DOMAIN b = 1 .. n
  BY <1>2
<1> HIDE DEF n
<1>6. \A i \in 1 .. n : b[i] \subseteq texts
  <2> TAKE i \in 1 .. n
  <2>1. CASE order[i] = p
    <3>1. texts = {cmd.text} /\ b[i] = {cmd.text}
      BY <1>1, <1>3, <1>4, <2>1
    <3> QED
      BY <3>1
  <2>2. CASE order[i] # p
    <3>1. b[i] = {}
      BY <1>4, <2>2
    <3> QED
      BY <3>1
  <2> QED
    BY <2>1, <2>2
<1>7. \A i, j \in 1 .. n : i < j => b[i] = {} \/ b[j] = {}
  <2> SUFFICES ASSUME NEW i \in 1 .. n, NEW j \in 1 .. n, i < j
               PROVE  b[i] = {} \/ b[j] = {}
    OBVIOUS
  <2>1. i # j
    OBVIOUS
  <2>2. order[i] # p \/ order[j] # p
    BY <1>1, <2>1
  <2> QED
    BY <1>4, <2>2
<1> QED
  BY <1>5, <1>6, <1>7 DEF Blanks

LEMMA TrailOnCmd ==
    ASSUME QueuesInv, TrailInv, OnCmd
    PROVE  TrailInv'
<1>1. /\ cmds \in Seq(Cmds) /\ cmds # <<>> /\ cmds' = Tail(cmds)
      /\ Head(cmds) = cmds[1] /\ Head(cmds) \in Cmds
      /\ out \in Seq(OutFrames)
  BY QueueTakes DEF OnCmd, QueuesInv, SenderInv
<1>2. PICK targets \in Targets(Head(cmds)) :
        \E order \in Bijection(1 .. Cardinality(targets), targets) :
            out' = out \o CmdFrames(order, Head(cmds).text)
  BY DEF OnCmd, CmdFrames
<1>3. PICK order \in Bijection(1 .. Cardinality(targets), targets) :
            out' = out \o CmdFrames(order, Head(cmds).text)
  BY <1>2
<1> DEFINE r == CmdFrames(order, Head(cmds).text)
<1>4. r \in Seq(OutFrames)
  BY <1>1, CmdFramesQueue DEF QueuesInv
<1> SUFFICES ASSUME NEW p \in Peers
             PROVE  Follows(Trail(p)', said', p)
  BY DEF TrailInv
<1> DEFINE texts == CmdTexts(p)[1]
<1>5. texts = IF Head(cmds).to \in {p, ALL} THEN {Head(cmds).text} ELSE {}
  <2>1. 1 \in 1 .. Len(cmds)
    BY <1>1, QueueTakes
  <2> QED
    BY <1>1, <2>1 DEF CmdTexts, SaidTo
<1>6. Blanks([i \in 1 .. Len(r) |-> TextFor(r[i], p)], texts)
  <2> DEFINE cmd == Head(cmds)
  <2>1. SenderInv /\ cmd \in Cmds
    BY <1>1 DEF QueuesInv
  <2> DEFINE b == [i \in 1 .. Len(r) |-> TextFor(r[i], p)]
  <2> HIDE DEF cmd, r, texts, b
  <2>2. /\ targets \in Targets(cmd) /\ r = CmdFrames(order, cmd.text)
        /\ texts = IF cmd.to \in {p, ALL} THEN {cmd.text} ELSE {}
        /\ b = [i \in 1 .. Len(r) |-> TextFor(r[i], p)]
    BY <1>5 DEF cmd, r, b
  <2>3. Blanks(b, texts)
    BY <2>1, <2>2, CmdBlanks
  <2> QED
    BY <2>3 DEF b
<1> HIDE DEF r, texts
<1>7. Longer(OutTexts(p), OutTexts(p)', texts)
  BY <1>1, <1>3, <1>4, <1>6, QueuesLonger DEF r
<1>8. Shorter(CmdTexts(p), CmdTexts(p)')
  BY <1>1, QueuesShorter
<1>9. UNCHANGED <<said, shown, events, stream, scheduled, incoming, wire>>
  BY DEF OnCmd, receiverVars, uiVars
<1>10. \A j \in 1 .. 8 : j # 8 /\ j # 8 - 1 => Trail(p)'[j] = Trail(p)[j]
  BY <1>9, SameQueues
<1>11. /\ Shorter(Trail(p)[8], Trail(p)'[8])
       /\ Longer(Trail(p)[8 - 1], Trail(p)'[8 - 1], Trail(p)[8][1])
  <2>1. 8 - 1 = 7
    OBVIOUS
  <2> QED
    BY <1>7, <1>8, <2>1, SameQueues DEF texts
<1>12. Len(said) \in Nat /\ Follows(Trail(p), said, p) /\ 8 \in 2 .. 8
  BY DEF TrailInv, QueuesInv, SenderInv
<1> QED
  BY <1>9, <1>10, <1>11, <1>12, TrailMoves

LEMMA TrailHello ==
    ASSUME QueuesInv, TrailInv, NEW peer \in Askers, Hello(peer)
    PROVE  TrailInv'
<1> DEFINE f == Frame(Me, peer, "DISCOVER_REPLY", 0, Alias)
           r == <<f>>
<1>1. /\ out \in Seq(OutFrames) /\ f \in OutFrames
      /\ out' = Append(out, f)
  BY MessagesAssumption DEF Hello, OutFrames, QueuesInv, SenderInv
<1>2. f.type = "DISCOVER_REPLY"
  BY DEF Frame
<1> HIDE DEF f
<1>3. out' = out \o r /\ r \in Seq(OutFrames) /\ Len(r) = 1 /\ r[1] = f
  BY <1>1, AppendIsConcat
<1> SUFFICES ASSUME NEW p \in Peers
             PROVE  Follows(Trail(p)', said', p)
  BY DEF TrailInv
<1> HIDE DEF r
<1>4. Blanks([i \in 1 .. Len(r) |-> TextFor(r[i], p)], {})
  <2> DEFINE b == [i \in 1 .. Len(r) |-> TextFor(r[i], p)]
  <2>1. DOMAIN b = 1 .. 1 /\ b[1] = {}
    BY <1>2, <1>3 DEF Text, TextFor
  <2> HIDE DEF b
  <2>2. Blanks(b, {})
    BY <2>1, OneBlank
  <2> QED
    BY <2>2 DEF b
<1>5. Longer(OutTexts(p), OutTexts(p)', {})
  BY <1>1, <1>3, <1>4, QueuesLonger
<1>6. UNCHANGED <<said, cmds, shown, events, stream, scheduled, incoming,
                  wire>>
  BY DEF Hello, receiverVars, uiVars
<1>7. \A j \in 1 .. 8 : j # 7 => Trail(p)'[j] = Trail(p)[j]
  BY <1>6, SameQueues
<1>8. Longer(Trail(p)[7], Trail(p)'[7], {})
  BY <1>5, SameQueues
<1>9. Len(said) \in Nat /\ Follows(Trail(p), said, p) /\ 7 \in 1 .. 8
  BY DEF TrailInv, QueuesInv, SenderInv
<1> QED
  BY <1>6, <1>7, <1>8, <1>9, TrailBlank

LEMMA TrailTransmit ==
    ASSUME QueuesInv, TrailInv, Transmit
    PROVE  TrailInv'
<1> DEFINE f == Head(out)
           g == Protected(f)
           r == <<Sent(f)>>
<1>1. /\ out \in Seq(OutFrames) /\ out # <<>> /\ out' = Tail(out)
      /\ f = out[1] /\ f \in OutFrames /\ f.dst \in Macs /\ 1 \in 1 .. Len(out)
  <2>1. out \in Seq(OutFrames) /\ out # <<>> /\ out' = Tail(out)
    BY DEF Transmit, QueuesInv, SenderInv
  <2>2. f = out[1] /\ f \in OutFrames /\ 1 \in 1 .. Len(out)
    BY <2>1, QueueTakes
  <2> QED
    BY <2>1, <2>2, OutFields DEF Peers
<1>2. wire' = IF Len(g.payload) <= Mtu
              THEN [wire EXCEPT ![f.dst] = Append(@, Sent(f))] ELSE wire
  <2>1. g.dst = f.dst
    <3>1. g = Frame(f.src, f.dst, f.type, f.sequence, g.payload)
      BY <1>1, RawFrame
    <3> QED
      BY <3>1 DEF Frame
  <2> QED
    BY <2>1 DEF Transmit, Protected, Sent
<1>3. SealedIn(Sent(f)) = Text(f)
  BY <1>1, TextOnWire
<1> HIDE DEF f, g
<1> SUFFICES ASSUME NEW p \in Peers
             PROVE  Follows(Trail(p)', said', p)
  BY DEF TrailInv
<1>4. p \in Macs
  BY DEF Peers
<1> DEFINE texts == OutTexts(p)[1]
<1>5. texts = IF f.dst = p THEN Text(f) ELSE {}
  BY <1>1 DEF OutTexts, TextFor
<1> HIDE DEF texts
<1>6. Longer(Trail(p)[7 - 1], Trail(p)'[7 - 1], texts)
  <2>1. CASE wire'[p] = wire[p]
    <3>1. Trail(p)'[6] = Trail(p)[6]
      BY <2>1, SameQueues
    <3>2. \E n \in Nat : DOMAIN Trail(p)[6] = 1 .. n
      BY TrailQueues
    <3> QED
      BY <3>1, <3>2, QueueStays
  <2>2. CASE wire'[p] # wire[p]
    <3>1. /\ f.dst = p /\ wire'[p] = Append(wire[p], Sent(f))
          /\ Len(g.payload) <= Mtu
      BY <1>1, <1>2, <1>4, <2>2 DEF QueuesInv, NetworkInv
    <3>2. Sent(f) \in WireFrames(p) /\ wire[p] \in Seq(WireFrames(p))
      BY <1>1, <1>4, <3>1 DEF WireFrames, QueuesInv, NetworkInv, g
    <3>3. wire'[p] = wire[p] \o r
      BY <3>1, <3>2, AppendIsConcat
    <3>4. r \in Seq(WireFrames(p)) /\ Len(r) = 1 /\ r[1] = Sent(f)
      BY <3>2
    <3> HIDE DEF r
    <3> DEFINE b == [i \in 1 .. Len(r) |-> SealedIn(r[i])]
    <3>5. DOMAIN b = 1 .. 1 /\ b[1] \subseteq texts
      BY <1>3, <1>5, <3>1, <3>4
    <3> HIDE DEF b
    <3>6. Blanks(b, texts)
      BY <3>5, OneBlank
    <3>7. Longer(WireTexts(p), WireTexts(p)', texts)
      BY <3>2, <3>3, <3>4, <3>6, QueuesLonger DEF b
    <3> QED
      BY <3>7, SameQueues
  <2> QED
    BY <2>1, <2>2
<1>7. Shorter(OutTexts(p), OutTexts(p)')
  BY <1>1, QueuesShorter
<1>8. Shorter(Trail(p)[7], Trail(p)'[7]) /\ texts = Trail(p)[7][1]
  BY <1>7, SameQueues DEF texts
<1>9. UNCHANGED <<said, cmds, shown, events, stream, scheduled, incoming>>
  BY DEF Transmit, receiverVars, uiVars
<1>10. \A j \in 1 .. 8 : j # 7 /\ j # 7 - 1 => Trail(p)'[j] = Trail(p)[j]
  BY <1>9, SameQueues
<1>11. Len(said) \in Nat /\ Follows(Trail(p), said, p) /\ 7 \in 2 .. 8
  BY DEF TrailInv, QueuesInv, SenderInv
<1> QED
  BY <1>6, <1>8, <1>9, <1>10, <1>11, TrailMoves

\* A raw frame leaves the wire to m: nothing passes, or a frame does that
\* carries to n no other text than it did.
LEMMA TrailArrives ==
    ASSUME QueuesInv, TrailInv, NEW m \in Macs, wire[m] # <<>>,
           wire' = [wire EXCEPT ![m] = Tail(@)],
           UNCHANGED <<said, cmds, out, uiVars>>,
           \/ UNCHANGED incoming
           \/ \E f \in OutFrames : \E raw :
                /\ Head(wire[m]) = Sent(f) /\ f.dst = m /\ raw \in Arriving(f)
                /\ raw.dst \in Macs
                /\ incoming' = [incoming EXCEPT
                        ![raw.dst] = @ \o SetToSeq(Passed(raw.dst, raw))]
    PROVE  TrailInv'
<1> SUFFICES ASSUME NEW p \in Peers
             PROVE  Follows(Trail(p)', said', p)
  BY DEF TrailInv
<1>1. /\ p \in Macs /\ wire[m] \in Seq(WireFrames(m))
      /\ incoming[p] \in Seq(InFrames(p)) /\ DOMAIN incoming = Macs
      /\ wire'[m] = Tail(wire[m]) /\ \A n \in Macs \ {m} : wire'[n] = wire[n]
  BY DEF Peers, QueuesInv, NetworkInv, ReceiverInv
<1>2. Len(said) \in Nat /\ Follows(Trail(p), said, p)
  BY DEF TrailInv, QueuesInv, SenderInv
<1>3. \A j \in {1, 2, 3, 4, 7, 8} : Trail(p)'[j] = Trail(p)[j]
  BY SameQueues DEF uiVars
<1> DEFINE texts == IF p = m THEN WireTexts(p)[1] ELSE {}
<1>4. Longer(Trail(p)[5], Trail(p)'[5], texts)
  <2>1. CASE incoming'[p] = incoming[p]
    <3>1. Trail(p)'[5] = Trail(p)[5]
      BY <2>1, SameQueues
    <3>2. \E n \in Nat : DOMAIN Trail(p)[5] = 1 .. n
      BY TrailQueues
    <3> QED
      BY <3>1, <3>2, QueueStays
  <2>2. CASE incoming'[p] # incoming[p]
    <3>1. PICK f \in OutFrames : \E raw :
                /\ Head(wire[m]) = Sent(f) /\ f.dst = m /\ raw \in Arriving(f)
                /\ raw.dst \in Macs
                /\ incoming' = [incoming EXCEPT
                        ![raw.dst] = @ \o SetToSeq(Passed(raw.dst, raw))]
      BY <2>2
    <3>2. PICK raw :
                /\ Head(wire[m]) = Sent(f) /\ f.dst = m /\ raw \in Arriving(f)
                /\ raw.dst \in Macs
                /\ incoming' = [incoming EXCEPT
                        ![raw.dst] = @ \o SetToSeq(Passed(raw.dst, raw))]
      BY <3>1
    <3> DEFINE q == SetToSeq(Passed(p, raw))
    <3>3. raw.dst = p /\ incoming'[p] = incoming[p] \o q
      BY <1>1, <2>2, <3>2
    <3>4. /\ q \in Seq(InFrames(p))
          /\ \/ q = <<>>
             \/ /\ Len(q) = 1 /\ q[1].type = f.type
                /\ q[1].type = "APP_MESSAGE" => q[1] = f
      BY <1>1, <3>2, <3>3, PassedQueue
    <3> HIDE DEF q
    <3> DEFINE b == [i \in 1 .. Len(q) |-> Text(q[i])]
    <3>5. Blanks(b, texts)
      <4>1. CASE q = <<>>
        <5>1. Len(q) = 0 /\ DOMAIN b = {}
          BY <4>1
        <5> QED
          BY <5>1 DEF Blanks
      <4>2. CASE Len(q) = 1 /\ q[1].type # "APP_MESSAGE"
        <5>1. DOMAIN b = 1 .. 1 /\ b[1] = {}
          BY <4>2 DEF Text
        <5> HIDE DEF b, texts
        <5> QED
          BY <5>1, OneBlank
      <4>3. CASE Len(q) = 1 /\ q[1].type = "APP_MESSAGE" /\ q[1] = f
        <5>1. q[1] \in InFrames(p)
          <6>1. 1 \in 1 .. Len(q)
            BY <4>3
          <6> QED
            BY <3>4, <6>1, ElementOfSeq
        <5>2. f.dst = p
          BY <4>3, <5>1 DEF InFrames, Frame
        <5>3. p = m
          BY <3>2, <5>2
        <5>4. wire[m][1] = Sent(f) /\ 1 \in 1 .. Len(wire[m])
          BY <1>1, <3>2, QueueTakes
        <5>5. WireTexts(p)[1] = SealedIn(Sent(f))
          BY <5>3, <5>4 DEF WireTexts
        <5>6. texts = Text(f)
          BY <5>3, <5>5, TextOnWire
        <5>7. DOMAIN b = 1 .. 1 /\ b[1] = Text(f)
          BY <4>3
        <5> HIDE DEF b, texts
        <5> QED
          BY <5>6, <5>7, OneBlank
      <4> QED
        BY <3>4, <4>1, <4>2, <4>3
    <3> HIDE DEF b, texts
    <3>6. Longer(IncomingTexts(p), IncomingTexts(p)', texts)
      BY <1>1, <3>3, <3>4, <3>5, QueuesLonger DEF b
    <3> QED
      BY <3>6, SameQueues
  <2> QED
    BY <2>1, <2>2
<1>5. CASE p = m
  <2>1. Shorter(WireTexts(p), WireTexts(p)')
    BY <1>1, <1>5, QueuesShorter
  <2>2. /\ Shorter(Trail(p)[6], Trail(p)'[6])
        /\ Longer(Trail(p)[6 - 1], Trail(p)'[6 - 1], Trail(p)[6][1])
    BY <1>4, <1>5, <2>1, SameQueues
  <2>3. \A j \in 1 .. 8 : j # 6 /\ j # 6 - 1 => Trail(p)'[j] = Trail(p)[j]
    BY <1>3
  <2>4. 6 \in 2 .. 8
    OBVIOUS
  <2> QED
    BY <1>2, <2>2, <2>3, <2>4, TrailMoves
<1>6. CASE p # m
  <2>1. Longer(Trail(p)[5], Trail(p)'[5], {})
    BY <1>4, <1>6
  <2>2. wire'[p] = wire[p]
    BY <1>1, <1>6
  <2>3. \A j \in 1 .. 8 : j # 5 => Trail(p)'[j] = Trail(p)[j]
    BY <1>3, <2>2, SameQueues
  <2>4. 5 \in 1 .. 8
    OBVIOUS
  <2> QED
    BY <1>2, <2>1, <2>3, <2>4, TrailBlank
<1> QED
  BY <1>5, <1>6

\* Nothing changes on the way to p.
LEMMA TrailSame ==
    ASSUME QueuesInv, TrailInv, NEW p \in Peers, said' = said,
           \A j \in 1 .. 8 : Trail(p)'[j] = Trail(p)[j]
    PROVE  Follows(Trail(p)', said', p)
<1>1. Len(said) \in Nat /\ Follows(Trail(p), said, p)
  BY DEF TrailInv, QueuesInv, SenderInv
<1>2. 1 \in 1 .. 8 /\ Trail(p)'[1] = Trail(p)[1]
  OBVIOUS
<1>3. \E n \in Nat : DOMAIN Trail(p)[1] = 1 .. n
  BY <1>2, TrailQueues
<1>4. Longer(Trail(p)[1], Trail(p)'[1], {})
  BY <1>2, <1>3, QueueStays
<1> QED
  BY <1>1, <1>2, <1>4, TrailBlank

LEMMA TrailDispatch ==
    ASSUME QueuesInv, TrailInv, NEW m \in Macs, incoming[m] # <<>>,
           incoming' = [incoming EXCEPT ![m] = Tail(@)],
           UNCHANGED <<said, cmds, out, wire, stream, events, shown>>,
           \/ UNCHANGED scheduled
           \/ /\ Head(incoming[m]).type = "APP_MESSAGE"
              /\ scheduled' = [scheduled EXCEPT ![m] =
                    Append(@, [src |-> Head(incoming[m]).src,
                               text |-> Head(incoming[m]).payload])]
    PROVE  TrailInv'
<1> SUFFICES ASSUME NEW p \in Peers
             PROVE  Follows(Trail(p)', said', p)
  BY DEF TrailInv
<1>1. /\ p \in Macs
      /\ incoming[p] \in Seq(InFrames(p)) /\ DOMAIN incoming = Macs
      /\ scheduled[p] \in Seq(ChatEvents(p)) /\ DOMAIN scheduled = Macs
  BY DEF Peers, QueuesInv, ReceiverInv
<1>2. Len(said) \in Nat /\ Follows(Trail(p), said, p)
  BY DEF TrailInv, QueuesInv, SenderInv
<1>3. \A j \in {1, 2, 3, 6, 7, 8} : Trail(p)'[j] = Trail(p)[j]
  BY SameQueues
<1>4. CASE p # m
  <2>1. incoming'[p] = incoming[p] /\ scheduled'[p] = scheduled[p]
    BY <1>1, <1>4
  <2>2. \A j \in 1 .. 8 : Trail(p)'[j] = Trail(p)[j]
    BY <1>3, <2>1, SameQueues
  <2> QED
    BY <2>2, TrailSame
<1>5. CASE p = m
  <2> DEFINE f == Head(incoming[p])
             e == [src |-> f.src, text |-> f.payload]
             texts == IncomingTexts(p)[1]
  <2>1. f = incoming[p][1] /\ f \in InFrames(p) /\ 1 \in 1 .. Len(incoming[p])
    BY <1>1, <1>5, QueueTakes
  <2>2. texts = Text(f)
    BY <2>1 DEF IncomingTexts
  <2>3. incoming'[p] = Tail(incoming[p]) /\ incoming[p] # <<>>
    BY <1>1, <1>5
  <2>4. \/ scheduled'[p] = scheduled[p]
        \/ f.type = "APP_MESSAGE" /\ scheduled'[p] = Append(scheduled[p], e)
    BY <1>1, <1>5
  <2> HIDE DEF f
  <2>5. e.text = f.payload
    OBVIOUS
  <2> HIDE DEF e, texts
  <2>6. Longer(Trail(p)[4], Trail(p)'[4], texts)
    <3>1. CASE scheduled'[p] = scheduled[p]
      <4>1. Trail(p)'[4] = Trail(p)[4]
        BY <3>1, SameQueues
      <4>2. \E n \in Nat : DOMAIN Trail(p)[4] = 1 .. n
        BY TrailQueues
      <4> QED
        BY <4>1, <4>2, QueueStays
    <3>2. CASE /\ f.type = "APP_MESSAGE"
               /\ scheduled'[p] = Append(scheduled[p], e)
      <4> DEFINE S == ChatEvents(p) \union {e}
      <4>1. scheduled[p] \in Seq(S) /\ e \in S
        BY <1>1
      <4> HIDE DEF S
      <4>2. e.text \in texts
        BY <2>2, <2>5, <3>2 DEF Text
      <4>3. Longer(ChatTexts(scheduled[p]), ChatTexts(scheduled'[p]), texts)
        BY <3>2, <4>1, <4>2, ChatLonger
      <4> QED
        BY <4>3, SameQueues
    <3> QED
      BY <2>4, <3>1, <3>2
  <2>7. Shorter(IncomingTexts(p), IncomingTexts(p)')
    BY <1>1, <2>3, QueuesShorter
  <2>8. /\ Shorter(Trail(p)[5], Trail(p)'[5])
        /\ Longer(Trail(p)[5 - 1], Trail(p)'[5 - 1], Trail(p)[5][1])
    BY <2>6, <2>7, SameQueues DEF texts
  <2>9. \A j \in 1 .. 8 : j # 5 /\ j # 5 - 1 => Trail(p)'[j] = Trail(p)[j]
    BY <1>3
  <2>10. 5 \in 2 .. 8
    OBVIOUS
  <2> QED
    BY <1>2, <2>8, <2>9, <2>10, TrailMoves
<1> QED
  BY <1>4, <1>5

\* The head of a queue of chat events goes into the next or to nobody.
LEMMA ChatPassed ==
    ASSUME NEW S, NEW q \in Seq(S), q # <<>>, NEW r \in Seq(S), NEW t,
           t = r \/ t = Append(r, Head(q))
    PROVE  /\ Shorter(ChatTexts(q), ChatTexts(Tail(q)))
           /\ Longer(ChatTexts(r), ChatTexts(t), ChatTexts(q)[1])
<1>1. Head(q) \in S
  BY QueueTakes
<1>2. Shorter(ChatTexts(q), ChatTexts(Tail(q)))
      /\ ChatTexts(q)[1] = {Head(q).text}
  BY ChatShorter
<1>3. Longer(ChatTexts(r), ChatTexts(t), ChatTexts(q)[1])
  <2>1. CASE t = r
    <3>1. Len(r) \in Nat /\ DOMAIN ChatTexts(r) = 1 .. Len(r)
      BY LenProperties DEF ChatTexts
    <3> QED
      BY <2>1, <3>1, QueueStays
  <2>2. CASE t = Append(r, Head(q))
    <3>1. Head(q).text \in ChatTexts(q)[1]
      BY <1>2
    <3> QED
      BY <1>1, <2>2, <3>1, ChatLonger
  <2> QED
    BY <2>1, <2>2
<1> QED
  BY <1>2, <1>3

LEMMA TrailBroadcast ==
    ASSUME QueuesInv, TrailInv, NEW m \in Macs, Broadcast(m)
    PROVE  TrailInv'
<1> SUFFICES ASSUME NEW p \in Peers
             PROVE  Follows(Trail(p)', said', p)
  BY DEF TrailInv
<1>1. /\ p \in Macs /\ DOMAIN scheduled = Macs /\ DOMAIN stream = Macs
      /\ scheduled[p] \in Seq(ChatEvents(p)) /\ stream[p] \in Seq(ChatEvents(p))
  BY DEF Peers, QueuesInv, ReceiverInv
<1>2. /\ scheduled[m] # <<>>
      /\ scheduled' = [scheduled EXCEPT ![m] = Tail(@)]
      /\ \/ UNCHANGED stream
         \/ stream' = [stream EXCEPT ![m] = Append(@, Head(scheduled[m]))]
      /\ UNCHANGED <<said, cmds, out, wire, incoming, events, shown>>
  BY DEF Broadcast, senderVars
<1>3. \A j \in {1, 2, 5, 6, 7, 8} : Trail(p)'[j] = Trail(p)[j]
  BY <1>2, SameQueues
<1>4. CASE p # m
  <2>1. scheduled'[p] = scheduled[p] /\ stream'[p] = stream[p]
    BY <1>1, <1>2, <1>4
  <2>2. \A j \in 1 .. 8 : Trail(p)'[j] = Trail(p)[j]
    BY <1>3, <2>1, SameQueues
  <2> QED
    BY <1>2, <2>2, TrailSame
<1>5. CASE p = m
  <2>1. /\ scheduled'[p] = Tail(scheduled[p]) /\ scheduled[p] # <<>>
        /\ \/ stream'[p] = stream[p]
           \/ stream'[p] = Append(stream[p], Head(scheduled[p]))
    BY <1>1, <1>2, <1>5
  <2>2. /\ Shorter(ChatTexts(scheduled[p]), ChatTexts(scheduled'[p]))
        /\ Longer(ChatTexts(stream[p]), ChatTexts(stream'[p]),
                  ChatTexts(scheduled[p])[1])
    BY <1>1, <2>1, ChatPassed
  <2>3. /\ Shorter(Trail(p)[4], Trail(p)'[4])
        /\ Longer(Trail(p)[4 - 1], Trail(p)'[4 - 1], Trail(p)[4][1])
    BY <2>2, SameQueues
  <2>4. \A j \in 1 .. 8 : j # 4 /\ j # 4 - 1 => Trail(p)'[j] = Trail(p)[j]
    BY <1>3
  <2>5. Len(said) \in Nat /\ Follows(Trail(p), said, p) /\ said' = said
    BY <1>2 DEF TrailInv, QueuesInv, SenderInv
  <2>6. 4 \in 2 .. 8
    OBVIOUS
  <2> QED
    BY <2>3, <2>4, <2>5, <2>6, TrailMoves
<1> QED
  BY <1>4, <1>5

LEMMA TrailReadEvent ==
    ASSUME QueuesInv, TrailInv, NEW m \in Macs, ReadEvent(m)
    PROVE  TrailInv'
<1> SUFFICES ASSUME NEW p \in Peers
             PROVE  Follows(Trail(p)', said', p)
  BY DEF TrailInv
<1>1. /\ p \in Macs /\ DOMAIN stream = Macs /\ DOMAIN events = Macs
      /\ stream[p] \in Seq(ChatEvents(p)) /\ events[p] \in Seq(ChatEvents(p))
  BY DEF Peers, QueuesInv, ReceiverInv
<1>2. /\ stream[m] # <<>>
      /\ stream' = [stream EXCEPT ![m] = Tail(@)]
      /\ events' = [events EXCEPT ![m] = Append(@, Head(stream[m]))]
      /\ UNCHANGED <<said, cmds, out, wire, incoming, scheduled, shown>>
  BY DEF ReadEvent, senderVars
<1>3. \A j \in {1, 4, 5, 6, 7, 8} : Trail(p)'[j] = Trail(p)[j]
  BY <1>2, SameQueues
<1>4. CASE p # m
  <2>1. stream'[p] = stream[p] /\ events'[p] = events[p]
    BY <1>1, <1>2, <1>4
  <2>2. \A j \in 1 .. 8 : Trail(p)'[j] = Trail(p)[j]
    BY <1>3, <2>1, SameQueues
  <2> QED
    BY <1>2, <2>2, TrailSame
<1>5. CASE p = m
  <2>1. /\ stream'[p] = Tail(stream[p]) /\ stream[p] # <<>>
        /\ events'[p] = Append(events[p], Head(stream[p]))
    BY <1>1, <1>2, <1>5
  <2>2. /\ Shorter(ChatTexts(stream[p]), ChatTexts(stream'[p]))
        /\ Longer(ChatTexts(events[p]), ChatTexts(events'[p]),
                  ChatTexts(stream[p])[1])
    BY <1>1, <2>1, ChatPassed
  <2>3. /\ Shorter(Trail(p)[3], Trail(p)'[3])
        /\ Longer(Trail(p)[3 - 1], Trail(p)'[3 - 1], Trail(p)[3][1])
    BY <2>2, SameQueues
  <2>4. \A j \in 1 .. 8 : j # 3 /\ j # 3 - 1 => Trail(p)'[j] = Trail(p)[j]
    BY <1>3
  <2>5. Len(said) \in Nat /\ Follows(Trail(p), said, p) /\ said' = said
    BY <1>2 DEF TrailInv, QueuesInv, SenderInv
  <2>6. 3 \in 2 .. 8
    OBVIOUS
  <2> QED
    BY <2>3, <2>4, <2>5, <2>6, TrailMoves
<1> QED
  BY <1>4, <1>5

\* What was not read goes with the connection, and commands with the handler.
LEMMA TrailThrownAway ==
    ASSUME QueuesInv, TrailInv,
           (\E m \in Macs : Disconnect(m)) \/ EndHandler
    PROVE  TrailInv'
<1> SUFFICES ASSUME NEW p \in Peers
             PROVE  Follows(Trail(p)', said', p)
  BY DEF TrailInv
<1>1. Follows(Trail(p), said, p)
  BY DEF TrailInv
<1>2. ASSUME EndHandler PROVE Follows(Trail(p)', said', p)
  <2>1. /\ UNCHANGED <<said, out, wire, incoming, scheduled, stream, events,
                       shown>>
        /\ cmds' = <<>>
    BY <1>2 DEF EndHandler, receiverVars, uiVars
  <2>2. \A j \in 1 .. 8 : j # 8 => Trail(p)'[j] = Trail(p)[j]
    BY <2>1, SameQueues
  <2>3. DOMAIN CmdTexts(p)' = {}
    BY <2>1 DEF CmdTexts
  <2>4. DOMAIN Trail(p)'[8] = {} /\ 8 \in 1 .. 8
    BY <2>3, SameQueues
  <2> QED
    BY <1>1, <2>1, <2>2, <2>4, TrailEmptied
<1>3. ASSUME NEW m \in Macs, Disconnect(m)
      PROVE  Follows(Trail(p)', said', p)
  <2>1. /\ UNCHANGED <<said, cmds, out, wire, incoming, scheduled, events,
                       shown>>
        /\ stream' = [stream EXCEPT ![m] = <<>>]
        /\ DOMAIN stream = Macs /\ p \in Macs
    BY <1>3 DEF Disconnect, senderVars, QueuesInv, ReceiverInv, Peers
  <2>2. \A j \in 1 .. 8 : j # 3 => Trail(p)'[j] = Trail(p)[j]
    BY <2>1, SameQueues
  <2>3. CASE p = m
    <3>1. stream'[p] = <<>>
      BY <2>1, <2>3
    <3>2. DOMAIN ChatTexts(stream'[p]) = {}
      BY <3>1 DEF ChatTexts
    <3>3. DOMAIN Trail(p)'[3] = {} /\ 3 \in 1 .. 8
      BY <3>2, SameQueues
    <3> QED
      BY <1>1, <2>1, <2>2, <3>3, TrailEmptied
  <2>4. CASE p # m
    <3>1. stream'[p] = stream[p]
      BY <2>1, <2>4
    <3>2. \A j \in 1 .. 8 : Trail(p)'[j] = Trail(p)[j]
      BY <2>2, <3>1, SameQueues
    <3> QED
      BY <2>1, <3>2, TrailSame
  <2> QED
    BY <2>3, <2>4
<1> QED
  BY <1>2, <1>3

LEMMA TrailOnChat ==
    ASSUME QueuesInv, TrailInv, NEW m \in Macs, OnChat(m)
    PROVE  TrailInv'
<1> SUFFICES ASSUME NEW p \in Peers
             PROVE  Follows(Trail(p)', said', p)
  BY DEF TrailInv
<1> DEFINE e == Head(events[m])
           r == <<e.text>>
           texts == ChatTexts(events[p])[1]
<1>1. /\ p \in Macs /\ Me \in Macs /\ p # Me
      /\ events[m] \in Seq(ChatEvents(m)) /\ events[m] # <<>>
      /\ events' = [events EXCEPT ![m] = Tail(@)] /\ DOMAIN events = Macs
      /\ shown' = [shown EXCEPT ![m][e.src] = Append(@, e.text)]
      /\ shown \in [Macs -> [Macs -> Seq(Seq(ClearBytes))]]
      /\ UNCHANGED <<said, cmds, out, wire, incoming, scheduled, stream>>
  BY MessagesAssumption DEF OnChat, senderVars, Peers, QueuesInv, ReceiverInv,
     ThreadsInv
<1>2. /\ e = events[m][1] /\ 1 \in 1 .. Len(events[m])
      /\ e.src = Me /\ e.text \in Seq(ClearBytes)
  <2>1. e = events[m][1] /\ e \in ChatEvents(m) /\ 1 \in 1 .. Len(events[m])
    BY <1>1, QueueTakes
  <2> QED
    BY <2>1 DEF ChatEvents
<1> HIDE DEF e
<1>3. Len(said) \in Nat /\ Follows(Trail(p), said, p)
  BY DEF TrailInv, QueuesInv, SenderInv
<1>4. \A j \in {3, 4, 5, 6, 7, 8} : Trail(p)'[j] = Trail(p)[j]
  BY ZenonT(40), <1>1, SameQueues
<1>5. CASE p # m
  <2>1. events'[p] = events[p] /\ shown'[p] = shown[p]
    BY <1>1, <1>5
  <2>2. \A j \in 1 .. 8 : Trail(p)'[j] = Trail(p)[j]
    BY <1>4, <2>1, SameQueues
  <2> QED
    BY <1>1, <2>2, TrailSame
<1>6. CASE p = m
  <2>1. texts = {e.text}
    BY <1>2, <1>6 DEF ChatTexts
  <2>2. /\ shown[p][Me] \in Seq(Seq(ClearBytes))
        /\ shown'[p][Me] = Append(shown[p][Me], e.text)
    BY <1>1, <1>2, <1>6
  <2>3. /\ shown'[p][Me] = shown[p][Me] \o r /\ r \in Seq(Seq(ClearBytes))
        /\ Len(r) = 1 /\ r[1] = e.text
    <3>1. Append(shown[p][Me], e.text) = shown[p][Me] \o r
      BY <1>2, <2>2, AppendIsConcat
    <3>2. r \in Seq(Seq(ClearBytes)) /\ Len(r) = 1 /\ r[1] = e.text
      BY <1>2
    <3> HIDE DEF r
    <3> QED
      BY <2>2, <3>1, <3>2
  <2> HIDE DEF r, texts
  <2> DEFINE b == [i \in 1 .. Len(r) |-> {r[i]}]
  <2>4. DOMAIN b = 1 .. 1 /\ b[1] \subseteq texts
    BY <2>1, <2>3
  <2> HIDE DEF b
  <2>5. Blanks(b, texts)
    BY <2>4, OneBlank
  <2>6. Longer(ShownTexts(p), ShownTexts(p)', texts)
    BY <2>2, <2>3, <2>5, QueuesLonger DEF b
  <2>7. Shorter(ChatTexts(events[p]), ChatTexts(events'[p]))
    <3>1. events'[p] = Tail(events[p])
      BY <1>1, <1>6
    <3> QED
      BY <1>1, <1>6, <3>1, ChatShorter
  <2>8. /\ Shorter(Trail(p)[2], Trail(p)'[2])
        /\ Longer(Trail(p)[2 - 1], Trail(p)'[2 - 1], Trail(p)[2][1])
    BY <2>6, <2>7, SameQueues DEF texts
  <2>9. \A j \in 1 .. 8 : j # 2 /\ j # 2 - 1 => Trail(p)'[j] = Trail(p)[j]
    BY <1>4
  <2>10. 2 \in 2 .. 8
    OBVIOUS
  <2> QED
    BY <1>1, <1>3, <2>8, <2>9, <2>10, TrailMoves
<1> QED
  BY <1>5, <1>6

LEMMA TrailStep ==
    ASSUME QueuesInv, TrailInv, [Next]_vars
    PROVE  TrailInv'
<1>1. ASSUME UNCHANGED <<senderVars, wire, receiverVars>> PROVE TrailInv'
  <2> SUFFICES ASSUME NEW p \in Peers PROVE Follows(Trail(p)', said', p)
    BY DEF TrailInv
  <2>1. \A j \in 1 .. 8 : Trail(p)'[j] = Trail(p)[j]
    BY <1>1, SameQueues DEF senderVars, receiverVars, uiVars
  <2> QED
    BY <1>1, <2>1, TrailSame DEF senderVars
<1>2. ASSUME NEW m \in Macs, Connect(m) \/ HandleClient(m) \/ Disconnect(m)
      PROVE  TrailInv'
  BY <1>1, <1>2, TrailThrownAway DEF Connect, HandleClient
<1>3. ASSUME NEW to \in Peers \union {ALL}, SendText(to) PROVE TrailInv'
  BY <1>3, TrailSendText
<1>4. ASSUME NEW peer \in Askers, Hello(peer) PROVE TrailInv'
  BY <1>4, TrailHello
<1>5. ASSUME OnCmd \/ EndHandler \/ Transmit PROVE TrailInv'
  BY <1>5, TrailOnCmd, TrailThrownAway, TrailTransmit
<1>6. ASSUME NEW m \in Macs, Lose(m) PROVE TrailInv'
  <2>1. /\ wire[m] # <<>> /\ wire' = [wire EXCEPT ![m] = Tail(@)]
        /\ UNCHANGED <<said, cmds, out, uiVars>> /\ UNCHANGED incoming
    BY <1>6 DEF Lose, senderVars, receiverVars
  <2> QED
    BY <2>1, TrailArrives
<1>7. ASSUME NEW m \in Macs, Receive(m) PROVE TrailInv'
  <2>1. /\ wire[m] # <<>> /\ wire' = [wire EXCEPT ![m] = Tail(@)]
        /\ UNCHANGED <<said, cmds, out, uiVars>>
        /\ incoming' = [incoming EXCEPT
                            ![m] = @ \o SetToSeq(Passed(m, Head(wire[m])))]
    BY <1>7 DEF Receive, senderVars
  <2>2. PICK f \in OutFrames :
            /\ Head(wire[m]) = Sent(f) /\ f.dst = m
            /\ Head(wire[m]) \in Arriving(f) /\ Head(wire[m]).dst = m
    BY <2>1, HeadOfWire
  <2>3. \E raw : /\ Head(wire[m]) = Sent(f) /\ f.dst = m /\ raw \in Arriving(f)
                 /\ raw.dst \in Macs
                 /\ incoming' = [incoming EXCEPT
                        ![raw.dst] = @ \o SetToSeq(Passed(raw.dst, raw))]
    BY <2>1, <2>2
  <2> QED
    BY <2>1, <2>3, TrailArrives
<1>8. ASSUME NEW m \in Macs, ReceiveDamaged(m) PROVE TrailInv'
  <2>1. /\ wire[m] # <<>> /\ wire' = [wire EXCEPT ![m] = Tail(@)]
        /\ UNCHANGED <<said, cmds, out, uiVars>>
    BY <1>8 DEF ReceiveDamaged, senderVars
  <2>2. PICK f \in OutFrames :
            /\ Head(wire[m]) = Sent(f) /\ f.dst = m
            /\ \A raw \in Corruptions(Head(wire[m])) :
                    raw \in Arriving(f) /\ raw.dst \in Macs
    BY <2>1, HeadOfWire
  <2>3. \E raw : /\ Head(wire[m]) = Sent(f) /\ f.dst = m /\ raw \in Arriving(f)
                 /\ raw.dst \in Macs
                 /\ incoming' = [incoming EXCEPT
                        ![raw.dst] = @ \o SetToSeq(Passed(raw.dst, raw))]
    BY <1>8, <2>2 DEF ReceiveDamaged
  <2> QED
    BY <2>1, <2>3, TrailArrives
<1>9. ASSUME NEW m \in Macs, DispatchMessage(m) \/ DispatchAlias(m)
      PROVE  TrailInv'
  <2>1. /\ incoming[m] # <<>> /\ incoming' = [incoming EXCEPT ![m] = Tail(@)]
        /\ UNCHANGED <<said, cmds, out, wire, stream, events, shown>>
        /\ \/ UNCHANGED scheduled
           \/ /\ Head(incoming[m]).type = "APP_MESSAGE"
              /\ scheduled' = [scheduled EXCEPT ![m] =
                    Append(@, [src |-> Head(incoming[m]).src,
                               text |-> Head(incoming[m]).payload])]
    BY <1>9 DEF DispatchMessage, DispatchAlias, senderVars, uiVars
  <2> QED
    BY <2>1, TrailDispatch
<1>10. ASSUME NEW m \in Macs, Broadcast(m) \/ ReadEvent(m) \/ OnChat(m)
       PROVE  TrailInv'
  BY <1>10, TrailBroadcast, TrailReadEvent, TrailOnChat
<1>11. ASSUME UNCHANGED vars PROVE TrailInv'
  BY <1>1, <1>11 DEF vars
<1> QED
  BY <1>2, <1>3, <1>4, <1>5, <1>6, <1>7, <1>8, <1>9, <1>10, <1>11,
     ViewersAreNodes
  DEF Next, Worker

LEMMA TrailInit ==
    ASSUME Init PROVE TrailInv
<1> SUFFICES ASSUME NEW p \in Peers PROVE Follows(Trail(p), said, p)
  BY DEF TrailInv
<1>1. /\ p \in Macs /\ Me \in Macs
  BY MessagesAssumption DEF Peers
<1>2. /\ DOMAIN ShownTexts(p) = {} /\ DOMAIN ChatTexts(events[p]) = {}
      /\ DOMAIN ChatTexts(stream[p]) = {}
      /\ DOMAIN ChatTexts(scheduled[p]) = {}
      /\ DOMAIN IncomingTexts(p) = {} /\ DOMAIN WireTexts(p) = {}
      /\ DOMAIN OutTexts(p) = {} /\ DOMAIN CmdTexts(p) = {}
      /\ Len(said) = 0
  BY <1>1 DEF Init, ShownTexts, ChatTexts, IncomingTexts, WireTexts,
     OutTexts, CmdTexts
<1>3. \A k \in 1 .. 8 : DOMAIN Trail(p)[k] = {}
  BY <1>2 DEF Trail
<1>4. \A k \in 1 .. 8 : Within(Trail(p)[k], said, p, 0, 0)
  <2> TAKE k \in 1 .. 8
  <2>1. <<>> \in [DOMAIN Trail(p)[k] -> 0 .. Len(said)]
    BY <1>3
  <2> QED
    BY <1>3, <2>1 DEF Within
<1> DEFINE cut == [k \in 0 .. 8 |-> 0]
<1>5. cut \in [0 .. 8 -> 0 .. Len(said)]
  BY <1>2
<1>6. \A k \in 1 .. 8 : cut[k - 1] = 0 /\ cut[k] = 0
  OBVIOUS
<1> HIDE DEF cut
<1> QED
  BY <1>4, <1>5, <1>6 DEF Follows

-----------------------------------------------------------------------------
(***************************************************************************)
(* The texts for one peer are counted                                      *)
(*                                                                         *)
(* The texts handed to Messaging for p are compared with those in the      *)
(* queues of p, those shown and those missed: each step moves a text from  *)
(* one place to the next, or counts what it takes away.                    *)
(***************************************************************************)
\* How many elements of a queue are in S.
Picked(queue, S) == Cardinality({i \in DOMAIN queue : queue[i] \in S})

LEMMA PickedNat ==
    ASSUME NEW T, NEW q \in Seq(T), NEW S
    PROVE  /\ Picked(q, S) \in Nat
           /\ IsFiniteSet({i \in DOMAIN q : q[i] \in S})
<1>1. DOMAIN q = 1 .. Len(q) /\ Len(q) \in Nat
  OBVIOUS
<1>2. IsFiniteSet(1 .. Len(q))
  BY <1>1, FS_Interval
<1>3. {i \in DOMAIN q : q[i] \in S} \subseteq 1 .. Len(q)
  BY <1>1
<1>4. IsFiniteSet({i \in DOMAIN q : q[i] \in S})
  BY <1>2, <1>3, FS_Subset
<1> QED
  BY <1>4, FS_CardinalityType DEF Picked

\* One element is counted as one or not at all.
LEMMA PickedSingle ==
    ASSUME NEW T, NEW x \in T, NEW S
    PROVE  Picked(<<x>>, S) = IF x \in S THEN 1 ELSE 0
<1>1. DOMAIN <<x>> = {1} /\ <<x>>[1] = x
  OBVIOUS
<1>2. CASE x \in S
  <2>1. {i \in DOMAIN <<x>> : <<x>>[i] \in S} = {1}
    BY <1>1, <1>2
  <2> QED
    BY <1>2, <2>1, FS_Singleton DEF Picked
<1>3. CASE x \notin S
  <2>1. {i \in DOMAIN <<x>> : <<x>>[i] \in S} = {}
    BY <1>1, <1>3
  <2> QED
    BY <1>3, <2>1, FS_EmptySet DEF Picked
<1> QED
  BY <1>2, <1>3

\* The elements of two queues, one behind the other, are those of both.
LEMMA PickedBoth ==
    ASSUME NEW T, NEW q \in Seq(T), NEW r \in Seq(T), NEW S
    PROVE  /\ Picked(q \o r, S) = Picked(q, S) + Picked(r, S)
           /\ Picked(q, S) \in Nat /\ Picked(r, S) \in Nat
<1> DEFINE n == Len(q)
           k == Len(r)
           A == {i \in 1 .. n : q[i] \in S}
           R == {i \in 1 .. k : r[i] \in S}
           B == {i \in n + 1 .. n + k : r[i - n] \in S}
           w == q \o r
<1>1. /\ n \in Nat /\ k \in Nat /\ DOMAIN q = 1 .. n /\ DOMAIN r = 1 .. k
      /\ w \in Seq(T) /\ Len(w) = n + k /\ DOMAIN w = 1 .. n + k
      /\ \A i \in 1 .. n : w[i] = q[i]
      /\ \A i \in 1 .. k : w[n + i] = r[i]
  BY QueueGrows
<1>2. /\ Picked(q, S) = Cardinality(A) /\ Picked(r, S) = Cardinality(R)
      /\ Cardinality(A) \in Nat /\ Cardinality(R) \in Nat
      /\ IsFiniteSet(A) /\ IsFiniteSet(R)
  BY <1>1, PickedNat DEF Picked
<1>3. {i \in DOMAIN w : w[i] \in S} = A \union B
  <2>1. ASSUME NEW i \in 1 .. n + k, ~(i \in 1 .. n)
        PROVE  i \in n + 1 .. n + k /\ i - n \in 1 .. k /\ w[i] = r[i - n]
    <3>1. i - n \in 1 .. k /\ n + (i - n) = i
      BY <1>1, <2>1
    <3> QED
      BY <1>1, <2>1, <3>1
  <2>2. ASSUME NEW i \in n + 1 .. n + k
        PROVE  i \in 1 .. n + k /\ i \notin 1 .. n
    BY <1>1, <2>2
  <2>3. 1 .. n \subseteq 1 .. n + k
    BY <1>1
  <2> HIDE DEF w, n, k
  <2> QED
    BY <1>1, <2>1, <2>2, <2>3
<1>4. IsFiniteSet(B) /\ Cardinality(B) = Cardinality(R)
  <2> DEFINE shift == [i \in R |-> n + i]
  <2>1. shift \in Bijection(R, B)
    <3>1. \A i \in R : n + i \in B
      <4> TAKE i \in R
      <4>1. i \in 1 .. k /\ n + i \in n + 1 .. n + k /\ (n + i) - n = i
        BY <1>1
      <4> QED
        BY <4>1
    <3>2. shift \in [R -> B]
      BY <3>1
    <3>3. \A i, j \in R : shift[i] = shift[j] => i = j
      BY <1>1
    <3>4. \A b \in B : \E i \in R : shift[i] = b
      <4> TAKE b \in B
      <4>1. b - n \in 1 .. k /\ n + (b - n) = b
        BY <1>1
      <4>2. b - n \in R
        BY <4>1
      <4> QED
        BY <4>1, <4>2
    <3> HIDE DEF shift
    <3>5. shift \in Injection(R, B) /\ shift \in Surjection(R, B)
      BY <3>2, <3>3, <3>4 DEF Injection, IsInjective, Surjection
    <3> QED
      BY <3>5 DEF Bijection
  <2>2. ExistsBijection(R, B)
    BY <2>1 DEF ExistsBijection
  <2> QED
    BY <1>2, <2>2, FS_Bijection
<1>5. A \cap B = {}
  BY <1>1
<1> HIDE DEF A, B, R
<1>6. Cardinality(A \union B) = Cardinality(A) + Cardinality(B)
  <2>1. Cardinality(A \union B)
            = Cardinality(A) + Cardinality(B) - Cardinality(A \cap B)
    BY <1>2, <1>4, FS_Union
  <2>2. Cardinality(A \cap B) = 0
    BY <1>5, FS_EmptySet
  <2> QED
    BY <1>2, <1>4, <2>1, <2>2
<1>7. Picked(w, S) = Cardinality(A \union B)
  BY <1>3 DEF Picked
<1> QED
  BY <1>2, <1>4, <1>6, <1>7

\* What is put at the end of a queue, and what is taken from its head.
LEMMA PickedAppend ==
    ASSUME NEW T, NEW q \in Seq(T), NEW x \in T, NEW S
    PROVE  /\ Picked(Append(q, x), S) = Picked(q, S) + IF x \in S THEN 1 ELSE 0
           /\ Picked(q, S) \in Nat
<1>1. <<x>> \in Seq(T)
  OBVIOUS
<1>2. Append(q, x) = q \o <<x>>
  <2>1. /\ q \o <<x>> \in Seq(T) /\ Len(q \o <<x>>) = Len(q) + 1
        /\ \A i \in 1 .. Len(q) : (q \o <<x>>)[i] = q[i]
        /\ (q \o <<x>>)[Len(q) + 1] = x
    BY <1>1, ConcatProperties
  <2>2. /\ Append(q, x) \in Seq(T) /\ Len(Append(q, x)) = Len(q) + 1
        /\ Len(q) \in Nat
        /\ \A i \in 1 .. Len(q) : Append(q, x)[i] = q[i]
        /\ Append(q, x)[Len(q) + 1] = x
    BY QueueAppends
  <2> QED
    BY <2>1, <2>2, SeqEqual
<1>3. /\ Picked(q \o <<x>>, S) = Picked(q, S) + Picked(<<x>>, S)
      /\ Picked(q, S) \in Nat
  BY <1>1, PickedBoth
<1>4. Picked(<<x>>, S) = IF x \in S THEN 1 ELSE 0
  BY PickedSingle
<1> QED
  BY <1>2, <1>3, <1>4

LEMMA PickedTail ==
    ASSUME NEW T, NEW q \in Seq(T), q # <<>>, NEW S
    PROVE  /\ Picked(q, S)
                = Picked(Tail(q), S) + IF Head(q) \in S THEN 1 ELSE 0
           /\ Picked(Tail(q), S) \in Nat /\ Picked(q, S) \in Nat
<1>1. /\ Head(q) \in T /\ Tail(q) \in Seq(T) /\ <<Head(q)>> \in Seq(T)
      /\ q = <<Head(q)>> \o Tail(q)
  <2> DEFINE h == Head(q)
             t == Tail(q)
  <2>1. /\ h \in T /\ h = q[1] /\ t \in Seq(T)
        /\ Len(q) \in Nat \ {0} /\ Len(t) = Len(q) - 1
        /\ \A i \in 1 .. Len(q) - 1 : t[i] = q[i + 1]
    BY QueueTakes
  <2> HIDE DEF h, t
  <2>2. <<h>> \in Seq(T) /\ Len(<<h>>) = 1 /\ <<h>>[1] = h
    BY <2>1
  <2>3. /\ <<h>> \o t \in Seq(T) /\ Len(<<h>> \o t) = 1 + Len(t)
        /\ (<<h>> \o t)[1] = h
        /\ \A i \in 1 .. Len(t) : (<<h>> \o t)[1 + i] = t[i]
    BY <2>1, <2>2, QueueGrows
  <2>4. \A i \in 1 .. Len(q) : q[i] = (<<h>> \o t)[i]
    <3> TAKE i \in 1 .. Len(q)
    <3>1. CASE i = 1
      BY <2>1, <2>3, <3>1
    <3>2. CASE i # 1
      <4>1. i - 1 \in 1 .. Len(t) /\ 1 + (i - 1) = i /\ (i - 1) + 1 = i
        BY <2>1, <3>2
      <4> QED
        BY <2>1, <2>3, <4>1
    <3> QED
      BY <3>1, <3>2
  <2>5. Len(<<h>> \o t) = Len(q)
    BY <2>1, <2>3
  <2>6. q = <<h>> \o t
    BY <2>3, <2>4, <2>5, SeqEqual
  <2> QED
    BY <2>1, <2>2, <2>6 DEF h, t
<1>2. /\ Picked(q, S) = Picked(<<Head(q)>>, S) + Picked(Tail(q), S)
      /\ Picked(Tail(q), S) \in Nat
  <2> DEFINE h == <<Head(q)>>
             t == Tail(q)
  <2>1. h \in Seq(T) /\ t \in Seq(T) /\ q = h \o t
    BY <1>1
  <2> HIDE DEF h, t
  <2>2. /\ Picked(h \o t, S) = Picked(h, S) + Picked(t, S)
        /\ Picked(t, S) \in Nat
    BY <2>1, PickedBoth
  <2>3. Picked(q, S) = Picked(h, S) + Picked(t, S)
    BY <2>1, <2>2
  <2> QED
    BY <2>2, <2>3 DEF h, t
<1>3. Picked(<<Head(q)>>, S) = IF Head(q) \in S THEN 1 ELSE 0
  BY <1>1, PickedSingle
<1> QED
  BY <1>2, <1>3

LEMMA PickedSome ==
    ASSUME NEW T, NEW q \in Seq(T), NEW S, NEW i \in DOMAIN q, q[i] \in S
    PROVE  Picked(q, S) \in Nat \ {0}
<1> DEFINE A == {k \in DOMAIN q : q[k] \in S}
<1>1. IsFiniteSet(A) /\ Picked(q, S) \in Nat
  BY PickedNat
<1>2. i \in A
  OBVIOUS
<1>3. Cardinality(A) # 0
  BY <1>1, <1>2, FS_EmptySet
<1> QED
  BY <1>1, <1>3 DEF Picked

\* The texts for p in each queue.
OutTo(p) ==
    {f \in OutFrames : f.type = "APP_MESSAGE" /\ f.dst = p /\ Fits(f.payload)}
WireTo(p) == {raw \in WireFrames(p) : raw.type = "APP_MESSAGE"}
InTo(p) == {f \in InFrames(p) : f.type = "APP_MESSAGE"}
FitTexts == {text \in Seq(ClearBytes) : Fits(text)}

\* Its chat events, from the dispatcher to its user interface.
Waiting(p) == Len(scheduled[p]) + Len(stream[p]) + Len(events[p])

\* What became of the texts for p, in the places they pass through.
Traced(p) ==
    Picked(out, OutTo(p)) + Picked(wire[p], WireTo(p))
        + Picked(incoming[p], InTo(p)) + Waiting(p)
        + Len(shown[p][Me]) + missed[p] + faults

HandedInv ==
    /\ handed \in [Peers -> Seq(Seq(ClearBytes))]
    /\ missed \in [Macs -> Nat]

CountInv ==
    \A p \in Peers :
        Key[p] = Key[Me] => Picked(handed[p], FitTexts) <= Traced(p)

\* Each place holds a number of texts.
PlacesNat(p) ==
    /\ Picked(handed[p], FitTexts) \in Nat
    /\ Picked(out, OutTo(p)) \in Nat /\ Picked(wire[p], WireTo(p)) \in Nat
    /\ Picked(incoming[p], InTo(p)) \in Nat /\ Waiting(p) \in Nat
    /\ Len(scheduled[p]) \in Nat /\ Len(stream[p]) \in Nat
    /\ Len(events[p]) \in Nat
    /\ Len(shown[p][Me]) \in Nat /\ missed[p] \in Nat /\ faults \in Nat

LEMMA SumOfThree ==
    ASSUME NEW x \in Nat, NEW y \in Nat, NEW z \in Nat
    PROVE  x + y + z \in Nat
  OBVIOUS

LEMMA PlacesAreNumbers ==
    ASSUME QueuesInv, HandedInv, NEW p \in Peers
    PROVE  PlacesNat(p)
<1>1. p \in Macs /\ Me \in Macs
  BY MessagesAssumption DEF Peers
<1>2. /\ out \in Seq(OutFrames) /\ wire[p] \in Seq(WireFrames(p))
      /\ incoming[p] \in Seq(InFrames(p)) /\ events[p] \in Seq(ChatEvents(p))
      /\ scheduled[p] \in Seq(ChatEvents(p)) /\ stream[p] \in Seq(ChatEvents(p))
      /\ shown[p][Me] \in Seq(Seq(ClearBytes))
      /\ handed[p] \in Seq(Seq(ClearBytes))
      /\ missed[p] \in Nat /\ faults \in Nat
  BY <1>1, MessagesAssumption
  DEF QueuesInv, SenderInv, NetworkInv, ReceiverInv, ThreadsInv, HandedInv
<1>3. /\ Len(events[p]) \in Nat /\ Len(shown[p][Me]) \in Nat
      /\ Len(scheduled[p]) \in Nat /\ Len(stream[p]) \in Nat
  BY <1>2, LenProperties
<1>5. Waiting(p) \in Nat
  BY <1>3, SumOfThree DEF Waiting
<1>4. /\ Picked(handed[p], FitTexts) \in Nat
      /\ Picked(out, OutTo(p)) \in Nat /\ Picked(wire[p], WireTo(p)) \in Nat
      /\ Picked(incoming[p], InTo(p)) \in Nat
  BY <1>2, PickedNat
<1> QED
  BY <1>2, <1>3, <1>4, <1>5 DEF PlacesNat

LEMMA HandedStep ==
    ASSUME QueuesInv, HandedInv, [Next]_vars
    PROVE  HandedInv'
<1>1. ASSUME OnCmd PROVE HandedInv'
  <2>1. Head(cmds).text \in Seq(ClearBytes)
    <3>1. Head(cmds) \in Cmds
      BY <1>1, QueueTakes DEF OnCmd, QueuesInv, SenderInv
    <3> QED
      BY <3>1 DEF Cmds
  <2>2. \A p \in Peers :
            Append(handed[p], Head(cmds).text) \in Seq(Seq(ClearBytes))
    BY <2>1, QueueAppends DEF HandedInv
  <2>3. PICK targets : handed' = [p \in Peers |->
                            IF p \in targets
                            THEN Append(handed[p], Head(cmds).text)
                            ELSE handed[p]]
    BY <1>1 DEF OnCmd
  <2>4. missed' = missed
    BY <1>1 DEF OnCmd, receiverVars, uiVars
  <2> QED
    BY <2>2, <2>3, <2>4 DEF HandedInv
<1>2. ASSUME NEW m \in Macs, Broadcast(m) \/ Disconnect(m) PROVE HandedInv'
  <2>1. Len(stream[m]) \in Nat
    <3>1. stream[m] \in Seq(ChatEvents(m))
      BY DEF QueuesInv, ReceiverInv
    <3> QED
      BY <3>1, LenProperties
  <2>2. /\ UNCHANGED handed
        /\ \/ UNCHANGED missed
           \/ missed' = [missed EXCEPT ![m] = @ + 1]
           \/ missed' = [missed EXCEPT ![m] = @ + Len(stream[m])]
    BY <1>2 DEF Broadcast, Disconnect, senderVars
  <2> QED
    BY <2>1, <2>2 DEF HandedInv
<1>3. ASSUME UNCHANGED <<handed, missed>> PROVE HandedInv'
  BY <1>3 DEF HandedInv
<1>4. ASSUME NEW m \in Macs,
             \/ Connect(m) \/ HandleClient(m) \/ Lose(m) \/ Receive(m)
             \/ ReceiveDamaged(m) \/ DispatchMessage(m) \/ DispatchAlias(m)
             \/ ReadEvent(m) \/ OnChat(m)
      PROVE  HandedInv'
  BY <1>3, <1>4 DEF Connect, HandleClient, Lose, Receive, ReceiveDamaged,
     DispatchMessage, DispatchAlias, ReadEvent, OnChat, senderVars,
     receiverVars, uiVars
<1>5. ASSUME \/ Transmit \/ EndHandler \/ UNCHANGED vars
             \/ \E to \in Peers \union {ALL} : SendText(to)
             \/ \E p \in Askers : Hello(p)
      PROVE  HandedInv'
  BY <1>3, <1>5 DEF Transmit, EndHandler, SendText, Hello, vars, senderVars,
     receiverVars, uiVars
<1> QED
  BY <1>1, <1>2, <1>4, <1>5, ViewersAreNodes DEF Next, Worker

\* A command adds a text for p, and a frame that carries it.
LEMMA CountOnCmd ==
    ASSUME QueuesInv, HandedInv, NEW p \in Peers, OnCmd
    PROVE  Picked(handed'[p], FitTexts) - Picked(handed[p], FitTexts)
                <= Picked(out', OutTo(p)) - Picked(out, OutTo(p))
<1> DEFINE text == Head(cmds).text
<1>1. Head(cmds) \in Cmds /\ text \in Seq(ClearBytes)
  <2>1. Head(cmds) \in Cmds
    BY QueueTakes DEF OnCmd, QueuesInv, SenderInv
  <2> QED
    BY <2>1 DEF Cmds
<1>2. PICK targets \in Targets(Head(cmds)) :
        \E order \in Bijection(1 .. Cardinality(targets), targets) :
          /\ out' = out \o CmdFrames(order, text)
          /\ handed' = [r \in Peers |-> IF r \in targets
                                        THEN Append(handed[r], text)
                                        ELSE handed[r]]
  BY DEF OnCmd, CmdFrames
<1>3. PICK order \in Bijection(1 .. Cardinality(targets), targets) :
          /\ out' = out \o CmdFrames(order, text)
          /\ handed' = [r \in Peers |-> IF r \in targets
                                        THEN Append(handed[r], text)
                                        ELSE handed[r]]
  BY <1>2
<1> DEFINE q == CmdFrames(order, text)
<1> HIDE DEF q
<1>4. /\ q \in Seq(OutFrames) /\ Len(q) = Cardinality(targets)
      /\ \A i \in 1 .. Len(q) : /\ q[i].dst = order[i]
                                /\ q[i].type = "APP_MESSAGE"
                                /\ q[i].payload = text
  BY <1>1, CmdFramesQueue DEF QueuesInv, q
<1>5. /\ Picked(out', OutTo(p)) = Picked(out, OutTo(p)) + Picked(q, OutTo(p))
      /\ Picked(out, OutTo(p)) \in Nat /\ Picked(q, OutTo(p)) \in Nat
  BY <1>3, <1>4, PickedBoth DEF QueuesInv, SenderInv, q
<1>6. handed[p] \in Seq(Seq(ClearBytes))
  BY DEF HandedInv
<1>7. Picked(handed[p], FitTexts) \in Nat
  BY <1>6, PickedNat
<1>8. CASE p \in targets /\ Fits(text)
  <2>1. PICK i \in 1 .. Len(q) : order[i] = p
    BY <1>4, <1>8 DEF Bijection, Surjection
  <2>2. DOMAIN q = 1 .. Len(q) /\ q[i] \in OutFrames
    BY <1>4, <2>1
  <2>3. q[i] \in OutTo(p)
    BY <1>4, <1>8, <2>1, <2>2 DEF OutTo
  <2>4. Picked(q, OutTo(p)) \in Nat \ {0}
    BY <1>4, <2>1, <2>2, <2>3, PickedSome
  <2>5. Picked(handed'[p], FitTexts) = Picked(handed[p], FitTexts) + 1
    <3>1. text \in FitTexts /\ handed'[p] = Append(handed[p], text)
      BY <1>1, <1>3, <1>8 DEF FitTexts
    <3> HIDE DEF text
    <3> QED
      BY <1>1, <1>6, <3>1, PickedAppend
  <2> QED
    BY <1>5, <1>7, <2>4, <2>5
<1>9. CASE p \in targets /\ ~Fits(text)
  <2>1. text \notin FitTexts /\ handed'[p] = Append(handed[p], text)
    BY <1>3, <1>9 DEF FitTexts
  <2>2. Picked(handed'[p], FitTexts) = Picked(handed[p], FitTexts)
    <3> HIDE DEF text
    <3>1. Picked(handed'[p], FitTexts) = Picked(handed[p], FitTexts) + 0
      BY <1>1, <1>6, <2>1, PickedAppend
    <3> QED
      BY <1>7, <3>1
  <2> QED
    BY <1>5, <1>7, <2>2
<1>10. CASE p \notin targets
  <2>1. handed'[p] = handed[p]
    BY <1>3, <1>10
  <2> QED
    BY <1>5, <1>7, <2>1
<1> QED
  BY <1>8, <1>9, <1>10

\* The sender thread puts a text for p that fits on the wire to p.
LEMMA CountTransmit ==
    ASSUME QueuesInv, NEW p \in Peers, Transmit
    PROVE  Picked(out, OutTo(p)) + Picked(wire[p], WireTo(p))
                <= Picked(out', OutTo(p)) + Picked(wire'[p], WireTo(p))
<1> DEFINE f == Head(out)
           g == Protected(f)
<1>1. /\ f \in OutFrames /\ p \in Macs /\ f.dst \in Macs
      /\ out \in Seq(OutFrames) /\ out # <<>> /\ out' = Tail(out)
      /\ wire[p] \in Seq(WireFrames(p))
  BY QueueTakes, OutFields
  DEF Transmit, QueuesInv, SenderInv, NetworkInv, Peers
<1>2. /\ g = Frame(f.src, f.dst, f.type, f.sequence, g.payload)
      /\ Sent(f).type = f.type
  BY <1>1, RawFrame
<1>3. wire' = IF Len(g.payload) <= Mtu
              THEN [wire EXCEPT ![f.dst] = Append(@, Sent(f))] ELSE wire
  <2>1. g.dst = f.dst
    BY <1>2 DEF Frame
  <2> QED
    BY <2>1 DEF Transmit, Protected, Sent
<1> HIDE DEF f
<1>4. /\ Picked(out, OutTo(p)) = Picked(out', OutTo(p))
                                    + IF f \in OutTo(p) THEN 1 ELSE 0
      /\ Picked(out', OutTo(p)) \in Nat /\ Picked(out, OutTo(p)) \in Nat
  BY <1>1, PickedTail DEF f
<1>5. Picked(wire[p], WireTo(p)) \in Nat
  BY <1>1, PickedNat
<1>6. CASE f.dst = p /\ Len(g.payload) <= Mtu
  <2>1. Sent(f) \in WireFrames(p)
    BY <1>1, <1>6 DEF WireFrames
  <2>2. wire'[p] = Append(wire[p], Sent(f))
    BY <1>1, <1>3, <1>6 DEF QueuesInv, NetworkInv
  <2>3. Picked(wire'[p], WireTo(p)) = Picked(wire[p], WireTo(p))
                                + IF Sent(f) \in WireTo(p) THEN 1 ELSE 0
    BY <1>1, <2>1, <2>2, PickedAppend
  <2>4. f \in OutTo(p) => Sent(f) \in WireTo(p)
    BY <1>2, <2>1 DEF OutTo, WireTo
  <2> QED
    BY <1>4, <1>5, <2>3, <2>4
<1>7. CASE ~(f.dst = p /\ Len(g.payload) <= Mtu)
  <2>1. wire'[p] = wire[p]
    BY <1>1, <1>3, <1>7 DEF QueuesInv, NetworkInv
  <2>2. f \notin OutTo(p)
    <3> SUFFICES ASSUME f \in OutTo(p) PROVE FALSE
      OBVIOUS
    <3>1. /\ f.type = "APP_MESSAGE" /\ f.dst = p
          /\ Len(f.payload) + 3 <= Mtu
      BY DEF OutTo, Fits
    <3>2. Len(g.payload) = Len(f.payload) + 3
      BY <1>1, <3>1, SealedText
    <3> QED
      BY <1>7, <3>1, <3>2
  <2> QED
    BY <1>4, <1>5, <2>1, <2>2
<1> QED
  BY <1>6, <1>7

\* What is taken from the wire to m costs p one text at most.
LEMMA CountFromWire ==
    ASSUME QueuesInv, NEW p \in Peers, NEW m \in Macs, wire[m] # <<>>,
           wire' = [wire EXCEPT ![m] = Tail(@)]
    PROVE  /\ Picked(wire[p], WireTo(p)) \in Nat
           /\ Picked(wire'[p], WireTo(p)) \in Nat
           /\ Picked(wire[p], WireTo(p))
                <= Picked(wire'[p], WireTo(p))
                    + IF m = p /\ Head(wire[m]).type = "APP_MESSAGE"
                      THEN 1 ELSE 0
<1>1. p \in Macs /\ DOMAIN wire = Macs /\ wire[p] \in Seq(WireFrames(p))
  BY DEF Peers, QueuesInv, NetworkInv
<1>2. Picked(wire[p], WireTo(p)) \in Nat
  BY <1>1, PickedNat
<1>3. CASE m = p
  <2>1. wire'[p] = Tail(wire[p])
    BY <1>1, <1>3
  <2>2. /\ Picked(wire[p], WireTo(p)) = Picked(wire'[p], WireTo(p))
                        + IF Head(wire[p]) \in WireTo(p) THEN 1 ELSE 0
        /\ Picked(wire'[p], WireTo(p)) \in Nat
    BY <1>1, <1>3, <2>1, PickedTail
  <2>3. Head(wire[p]) \in WireTo(p) => Head(wire[p]).type = "APP_MESSAGE"
    BY DEF WireTo
  <2> QED
    BY <1>2, <1>3, <2>2, <2>3
<1>4. CASE m # p
  <2>1. wire'[p] = wire[p]
    BY <1>1, <1>4
  <2> QED
    BY <1>2, <1>4, <2>1
<1> QED
  BY <1>3, <1>4

\* The receiver thread of p queues an undamaged text for p.
LEMMA CountReceive ==
    ASSUME QueuesInv, NEW p \in Peers, Key[p] = Key[Me], NEW m \in Macs,
           Receive(m)
    PROVE  Picked(wire[p], WireTo(p)) + Picked(incoming[p], InTo(p))
                <= Picked(wire'[p], WireTo(p)) + Picked(incoming'[p], InTo(p))
<1> DEFINE raw == Head(wire[m])
           q == SetToSeq(Passed(m, raw))
<1>1. /\ wire[m] # <<>> /\ wire' = [wire EXCEPT ![m] = Tail(@)]
      /\ incoming' = [incoming EXCEPT ![m] = @ \o q]
  BY DEF Receive
<1>2. PICK f \in OutFrames :
        raw = Sent(f) /\ f.dst = m /\ raw \in Arriving(f) /\ raw.dst = m
  BY <1>1, HeadOfWire
<1>3. raw.type = f.type
  BY <1>2, RawFrame
<1> HIDE DEF raw
<1>4. q \in Seq(InFrames(m))
  BY <1>2, PassedQueue
<1>5. /\ p \in Macs /\ DOMAIN incoming = Macs
      /\ incoming[p] \in Seq(InFrames(p))
  BY DEF Peers, QueuesInv, ReceiverInv
<1>6. Picked(incoming[p], InTo(p)) \in Nat
  BY <1>5, PickedNat
<1>7. /\ Picked(wire[p], WireTo(p)) \in Nat
      /\ Picked(wire'[p], WireTo(p)) \in Nat
      /\ Picked(wire[p], WireTo(p)) <= Picked(wire'[p], WireTo(p))
            + IF m = p /\ raw.type = "APP_MESSAGE" THEN 1 ELSE 0
  BY <1>1, CountFromWire DEF raw
<1>8. CASE m = p
  <2>1. incoming'[p] = incoming[p] \o q
    BY <1>1, <1>5, <1>8
  <2>2. /\ Picked(incoming'[p], InTo(p))
                = Picked(incoming[p], InTo(p)) + Picked(q, InTo(p))
        /\ Picked(q, InTo(p)) \in Nat
    <3> HIDE DEF q
    <3> QED
      BY <1>4, <1>5, <1>8, <2>1, PickedBoth
  <2>3. ASSUME f.type = "APP_MESSAGE" PROVE Picked(q, InTo(p)) = 1
    <3> DEFINE h == Frame(f.src, f.dst, f.type, f.sequence,
                          Protected(f).payload)
    <3>1. DecodeEthernetFrame(raw) = {h}
      BY <1>2, DecodedAsSent
    <3>2. /\ h.src = f.src /\ h.dst = f.dst
          /\ h = Frame(h.src, h.dst, f.type, f.sequence,
                       Protected(f).payload)
      BY DEF Frame
    <3> HIDE DEF h
    <3>3. AcceptIncoming(h, Key[m]) = {f}
      BY <1>8, <2>3, <3>2, OpensOnlyAsSent
    <3>4. Passed(m, raw) = {f}
      BY <3>1, <3>3 DEF Passed
    <3>5. q = <<f>>
      BY <3>4, SequenceOfOne
    <3>6. f \in InTo(p)
      BY <1>2, <1>8, <2>3 DEF InTo, InFrames
    <3> QED
      BY <3>5, <3>6, PickedSingle
  <2> QED
    BY <1>3, <1>6, <1>7, <1>8, <2>2, <2>3
<1>9. CASE m # p
  <2>1. incoming'[p] = incoming[p]
    BY <1>1, <1>5, <1>9
  <2> QED
    BY <1>6, <1>7, <1>9, <2>1
<1> QED
  BY <1>8, <1>9

\* A damaged frame, wherever it arrives, takes nothing from a queue.
LEMMA CountDamaged ==
    ASSUME QueuesInv, NEW p \in Peers, NEW m \in Macs, ReceiveDamaged(m)
    PROVE  Picked(incoming[p], InTo(p)) <= Picked(incoming'[p], InTo(p))
<1>1. PICK f \in OutFrames : \A raw \in Corruptions(Head(wire[m])) :
                                raw \in Arriving(f) /\ raw.dst \in Macs
  BY HeadOfWire DEF ReceiveDamaged
<1>2. PICK raw \in Corruptions(Head(wire[m])) :
        incoming' = [incoming EXCEPT
                        ![raw.dst] = @ \o SetToSeq(Passed(raw.dst, raw))]
  BY DEF ReceiveDamaged
<1> DEFINE n == raw.dst
           q == SetToSeq(Passed(n, raw))
<1>3. q \in Seq(InFrames(n)) /\ n \in Macs
  BY <1>1, <1>2, PassedQueue
<1>4. /\ p \in Macs /\ DOMAIN incoming = Macs
      /\ incoming[p] \in Seq(InFrames(p))
  BY DEF Peers, QueuesInv, ReceiverInv
<1>5. Picked(incoming[p], InTo(p)) \in Nat
  BY <1>4, PickedNat
<1> HIDE DEF q, n
<1>6. incoming' = [incoming EXCEPT ![n] = @ \o q]
  BY <1>2 DEF q, n
<1>7. CASE n = p
  <2>1. incoming'[p] = incoming[p] \o q
    BY <1>4, <1>6, <1>7
  <2>2. /\ Picked(incoming'[p], InTo(p))
                = Picked(incoming[p], InTo(p)) + Picked(q, InTo(p))
        /\ Picked(q, InTo(p)) \in Nat
    BY <1>3, <1>4, <1>7, <2>1, PickedBoth
  <2> QED
    BY <1>5, <2>2
<1>8. CASE n # p
  <2>1. incoming'[p] = incoming[p]
    BY <1>4, <1>6, <1>8
  <2> QED
    BY <1>5, <2>1
<1> QED
  BY <1>7, <1>8

\* The dispatcher takes an alias, or takes a text and emits it.
LEMMA CountDispatch ==
    ASSUME QueuesInv, NEW p \in Peers, NEW m \in Macs,
           DispatchMessage(m) \/ DispatchAlias(m)
    PROVE  Picked(incoming[p], InTo(p)) + Len(scheduled[p])
                <= Picked(incoming'[p], InTo(p)) + Len(scheduled'[p])
<1>1. /\ p \in Macs /\ DOMAIN incoming = Macs /\ DOMAIN scheduled = Macs
      /\ incoming[p] \in Seq(InFrames(p))
      /\ scheduled[p] \in Seq(ChatEvents(p)) /\ incoming[m] # <<>>
      /\ incoming' = [incoming EXCEPT ![m] = Tail(@)]
  BY DEF Peers, QueuesInv, ReceiverInv, DispatchMessage, DispatchAlias
<1>2. Picked(incoming[p], InTo(p)) \in Nat /\ Len(scheduled[p]) \in Nat
  <2>1. Len(scheduled[p]) \in Nat
    BY <1>1, LenProperties
  <2>2. Picked(incoming[p], InTo(p)) \in Nat
    BY <1>1, PickedNat
  <2> QED
    BY <2>1, <2>2
<1>3. CASE m # p
  <2>1. scheduled'[p] = scheduled[p]
    BY <1>1, <1>3 DEF DispatchMessage, DispatchAlias, uiVars
  <2>2. incoming'[p] = incoming[p]
    BY <1>1, <1>3
  <2> QED
    BY <1>2, <2>1, <2>2
<1>4. CASE m = p
  <2>1. incoming'[p] = Tail(incoming[p])
    BY <1>1, <1>4
  <2>2. /\ Picked(incoming[p], InTo(p)) = Picked(incoming'[p], InTo(p))
                        + IF Head(incoming[p]) \in InTo(p) THEN 1 ELSE 0
        /\ Picked(incoming'[p], InTo(p)) \in Nat
    BY <1>1, <1>4, <2>1, PickedTail
  <2>3. CASE DispatchAlias(m)
    <3>1. UNCHANGED scheduled /\ Head(incoming[p]).type = "DISCOVER_REPLY"
      BY <1>4, <2>3 DEF DispatchAlias, uiVars
    <3>2. Head(incoming[p]) \notin InTo(p)
      BY <3>1 DEF InTo
    <3> QED
      BY <1>2, <2>2, <3>1, <3>2
  <2>4. CASE DispatchMessage(m)
    <3> DEFINE e == [src |-> Head(incoming[m]).src,
                     text |-> Head(incoming[m]).payload]
    <3>1. scheduled'[p] = Append(scheduled[p], e)
      BY <1>1, <1>4, <2>4 DEF DispatchMessage
    <3> HIDE DEF e
    <3>2. Len(Append(scheduled[p], e)) = Len(scheduled[p]) + 1
      BY <1>1, AppendProperties
    <3> DEFINE i == Picked(incoming[p], InTo(p))
               i1 == Picked(incoming'[p], InTo(p))
               l == Len(scheduled[p])
               l1 == Len(scheduled'[p])
    <3>3. i \in Nat /\ i1 \in Nat /\ l \in Nat /\ i <= i1 + 1 /\ l1 = l + 1
      BY <1>2, <2>2, <3>1, <3>2
    <3> HIDE DEF i, i1, l, l1
    <3>4. i + l <= i1 + l1
      BY <3>3
    <3> QED
      BY <3>4 DEF i, i1, l, l1
  <2> QED
    BY <2>3, <2>4
<1> QED
  BY <1>3, <1>4

\* The IPC loop and the reader hand an event on, or it is counted as missed;
\* so are those that stand unread when the connection ends.
LEMMA CountEvents ==
    ASSUME QueuesInv, HandedInv, NEW p \in Peers, NEW m \in Macs,
           Broadcast(m) \/ ReadEvent(m) \/ Disconnect(m)
    PROVE  Waiting(p) + missed[p] <= Waiting(p)' + missed'[p]
<1> DEFINE a == Len(scheduled[p])
           b == Len(stream[p])
           c == Len(events[p])
           d == missed[p]
           a1 == Len(scheduled'[p])
           b1 == Len(stream'[p])
           c1 == Len(events'[p])
           d1 == missed'[p]
<1>1. /\ p \in Macs /\ DOMAIN scheduled = Macs /\ DOMAIN stream = Macs
      /\ DOMAIN events = Macs /\ missed \in [Macs -> Nat]
      /\ scheduled[p] \in Seq(ChatEvents(p)) /\ stream[p] \in Seq(ChatEvents(p))
      /\ events[p] \in Seq(ChatEvents(p))
      /\ scheduled[m] \in Seq(ChatEvents(m)) /\ stream[m] \in Seq(ChatEvents(m))
  BY DEF Peers, QueuesInv, ReceiverInv, HandedInv
<1>2. a \in Nat /\ b \in Nat /\ c \in Nat /\ d \in Nat
  BY <1>1, LenProperties
<1>3. a + b + c + d <= a1 + b1 + c1 + d1
  <2>1. CASE m # p
    <3>1. /\ scheduled'[p] = scheduled[p] /\ stream'[p] = stream[p]
          /\ events'[p] = events[p] /\ missed'[p] = missed[p]
      BY <1>1, <2>1 DEF Broadcast, ReadEvent, Disconnect
    <3>2. a1 = a /\ b1 = b /\ c1 = c /\ d1 = d
      BY <3>1
    <3> HIDE DEF a, b, c, d, a1, b1, c1, d1
    <3> QED
      BY <1>2, <3>2
  <2>2. CASE m = p /\ Broadcast(m)
    <3>1. /\ scheduled[p] # <<>> /\ scheduled'[p] = Tail(scheduled[p])
          /\ events'[p] = events[p]
          /\ \/ /\ stream'[p] = Append(stream[p], Head(scheduled[p]))
                /\ missed'[p] = missed[p]
             \/ stream'[p] = stream[p] /\ missed'[p] = missed[p] + 1
      BY <1>1, <2>2 DEF Broadcast
    <3>2. a1 = a - 1 /\ Head(scheduled[p]) \in ChatEvents(p)
      BY <1>1, <3>1, QueueTakes
    <3>3. Len(Append(stream[p], Head(scheduled[p]))) = b + 1
      BY <1>1, <3>2, QueueAppends
    <3>4. /\ c1 = c
          /\ \/ b1 = b + 1 /\ d1 = d
             \/ b1 = b /\ d1 = d + 1
      BY <3>1, <3>3
    <3> HIDE DEF a, b, c, d, a1, b1, c1, d1
    <3> QED
      BY <1>2, <3>2, <3>4
  <2>3. CASE m = p /\ ReadEvent(m)
    <3>1. /\ stream[p] # <<>> /\ stream'[p] = Tail(stream[p])
          /\ events'[p] = Append(events[p], Head(stream[p]))
          /\ scheduled'[p] = scheduled[p] /\ missed'[p] = missed[p]
      BY <1>1, <2>3 DEF ReadEvent
    <3>2. b1 = b - 1 /\ Head(stream[p]) \in ChatEvents(p)
      BY <1>1, <3>1, QueueTakes
    <3>3. c1 = c + 1
      BY <1>1, <3>1, <3>2, QueueAppends
    <3>4. a1 = a /\ d1 = d
      BY <3>1
    <3> HIDE DEF a, b, c, d, a1, b1, c1, d1
    <3> QED
      BY <1>2, <3>2, <3>3, <3>4
  <2>4. CASE m = p /\ Disconnect(m)
    <3>1. /\ stream'[p] = <<>> /\ missed'[p] = missed[p] + Len(stream[p])
          /\ scheduled'[p] = scheduled[p] /\ events'[p] = events[p]
      BY <1>1, <2>4 DEF Disconnect
    <3>2. a1 = a /\ b1 = 0 /\ c1 = c /\ d1 = d + b
      BY <3>1
    <3> HIDE DEF a, b, c, d, a1, b1, c1, d1
    <3> QED
      BY <1>2, <3>2
  <2> QED
    BY <2>1, <2>2, <2>3, <2>4
<1> QED
  BY <1>3 DEF Waiting

\* The user interface shows what it takes from its queue.
LEMMA CountOnChat ==
    ASSUME QueuesInv, NEW p \in Peers, NEW m \in Macs, OnChat(m)
    PROVE  Len(events[p]) + Len(shown[p][Me])
                <= Len(events'[p]) + Len(shown'[p][Me])
<1> DEFINE e == Head(events[m])
<1>1. /\ p \in Macs /\ Me \in Macs /\ DOMAIN events = Macs
      /\ shown \in [Macs -> [Macs -> Seq(Seq(ClearBytes))]]
      /\ events[p] \in Seq(ChatEvents(p)) /\ Len(events[p]) \in Nat
      /\ shown[p][Me] \in Seq(Seq(ClearBytes)) /\ Len(shown[p][Me]) \in Nat
  <2>1. /\ p \in Macs /\ Me \in Macs /\ DOMAIN events = Macs
        /\ shown \in [Macs -> [Macs -> Seq(Seq(ClearBytes))]]
        /\ events[p] \in Seq(ChatEvents(p))
    BY MessagesAssumption DEF Peers, QueuesInv, ReceiverInv, ThreadsInv
  <2>2. shown[p][Me] \in Seq(Seq(ClearBytes))
    BY <2>1
  <2> QED
    BY <2>1, <2>2, LenProperties
<1>2. e \in ChatEvents(m) /\ events[m] # <<>>
  BY QueueTakes DEF OnChat, QueuesInv, ReceiverInv
<1>3. /\ events' = [events EXCEPT ![m] = Tail(@)]
      /\ shown' = [shown EXCEPT ![m][e.src] = Append(@, e.text)]
  BY DEF OnChat
<1>4. e.src = Me /\ e.text \in Seq(ClearBytes)
  BY <1>2 DEF ChatEvents
<1> HIDE DEF e
<1>5. CASE m = p
  <2>1. events'[p] = Tail(events[p]) /\ Len(events'[p]) = Len(events[p]) - 1
    BY <1>1, <1>2, <1>3, <1>5, QueueTakes
  <2>2. shown'[p][Me] = Append(shown[p][Me], e.text)
    BY <1>1, <1>3, <1>4, <1>5
  <2>3. Len(shown'[p][Me]) = Len(shown[p][Me]) + 1
    BY <1>1, <1>4, <2>2, QueueAppends
  <2> DEFINE a == Len(events[p])
             b == Len(shown[p][Me])
             a1 == Len(events'[p])
             b1 == Len(shown'[p][Me])
  <2>4. a \in Nat /\ b \in Nat /\ a1 = a - 1 /\ b1 = b + 1
    BY <1>1, <2>1, <2>3
  <2> HIDE DEF a, b, a1, b1
  <2>5. a + b <= a1 + b1
    BY <2>4
  <2> QED
    BY <2>5 DEF a, b, a1, b1
<1>6. CASE m # p
  <2>1. events'[p] = events[p] /\ shown'[p] = shown[p]
    BY <1>1, <1>3, <1>6
  <2> QED
    BY <1>1, <2>1
<1> QED
  BY <1>5, <1>6

LEMMA CountStep ==
    ASSUME QueuesInv, QueuesInv', HandedInv, HandedInv', CountInv, [Next]_vars
    PROVE  CountInv'
<1> SUFFICES ASSUME NEW p \in Peers, Key[p] = Key[Me]
             PROVE  Picked(handed'[p], FitTexts) <= Traced(p)'
  BY DEF CountInv
<1> DEFINE h == Picked(handed[p], FitTexts)
           o == Picked(out, OutTo(p))
           w == Picked(wire[p], WireTo(p))
           i == Picked(incoming[p], InTo(p))
           e == Waiting(p)
           s == Len(shown[p][Me])
           h1 == Picked(handed'[p], FitTexts)
           o1 == Picked(out', OutTo(p))
           w1 == Picked(wire'[p], WireTo(p))
           i1 == Picked(incoming'[p], InTo(p))
           e1 == Waiting(p)'
           s1 == Len(shown'[p][Me])
           Goal == h1 <= o1 + w1 + i1 + e1 + s1 + missed'[p] + faults'
<1> SUFFICES Goal
  BY DEF Traced
<1>1. h <= o + w + i + e + s + missed[p] + faults
  BY DEF CountInv, Traced
<1>2. /\ h \in Nat /\ o \in Nat /\ w \in Nat /\ i \in Nat /\ e \in Nat
      /\ s \in Nat /\ missed[p] \in Nat /\ faults \in Nat
  BY PlacesAreNumbers DEF PlacesNat
<1>3. /\ h1 \in Nat /\ o1 \in Nat /\ w1 \in Nat /\ i1 \in Nat /\ e1 \in Nat
      /\ s1 \in Nat /\ missed'[p] \in Nat /\ faults' \in Nat
  <2>1. p \in Macs /\ Me \in Macs
    BY MessagesAssumption DEF Peers
  <2>2. /\ out' \in Seq(OutFrames) /\ wire'[p] \in Seq(WireFrames(p))
        /\ incoming'[p] \in Seq(InFrames(p))
        /\ scheduled'[p] \in Seq(ChatEvents(p))
        /\ stream'[p] \in Seq(ChatEvents(p))
        /\ events'[p] \in Seq(ChatEvents(p))
        /\ shown'[p][Me] \in Seq(Seq(ClearBytes))
        /\ handed'[p] \in Seq(Seq(ClearBytes))
        /\ missed'[p] \in Nat /\ faults' \in Nat
    BY <2>1, MessagesAssumption
    DEF QueuesInv, SenderInv, NetworkInv, ReceiverInv, ThreadsInv, HandedInv
  <2>3. /\ Len(events'[p]) \in Nat /\ Len(shown'[p][Me]) \in Nat
        /\ Len(scheduled'[p]) \in Nat /\ Len(stream'[p]) \in Nat
    BY <2>2, LenProperties
  <2>5. Waiting(p)' \in Nat
    BY <2>3, SumOfThree DEF Waiting
  <2>4. /\ Picked(handed'[p], FitTexts) \in Nat
        /\ Picked(out', OutTo(p)) \in Nat
        /\ Picked(wire'[p], WireTo(p)) \in Nat
        /\ Picked(incoming'[p], InTo(p)) \in Nat
    BY <2>2, PickedNat
  <2> QED
    BY <2>2, <2>3, <2>4, <2>5
<1> HIDE DEF h, o, w, i, e, s, h1, o1, w1, i1, e1, s1
<1>4. CASE OnCmd
  <2>1. w1 = w /\ i1 = i /\ e1 = e /\ s1 = s
        /\ missed'[p] = missed[p] /\ faults' = faults
    BY <1>4 DEF OnCmd, receiverVars, uiVars, Waiting, w, w1, i, i1, e, e1,
       s, s1
  <2>2. h1 - h <= o1 - o
    BY <1>4, CountOnCmd DEF h, h1, o, o1
  <2> QED
    BY <1>1, <1>2, <1>3, <2>1, <2>2
<1>5. CASE Transmit
  <2>1. h1 = h /\ i1 = i /\ e1 = e /\ s1 = s
        /\ missed'[p] = missed[p] /\ faults' = faults
    BY <1>5 DEF Transmit, receiverVars, uiVars, Waiting, h, h1, i, i1, e, e1,
       s, s1
  <2>2. o + w <= o1 + w1
    BY <1>5, CountTransmit DEF o, o1, w, w1
  <2> QED
    BY <1>1, <1>2, <1>3, <2>1, <2>2
<1>6. ASSUME NEW r \in Askers, Hello(r) PROVE Goal
  <2>1. h1 = h /\ w1 = w /\ i1 = i /\ e1 = e /\ s1 = s
        /\ missed'[p] = missed[p] /\ faults' = faults
    BY <1>6 DEF Hello, receiverVars, uiVars, Waiting, h, h1, w, w1, i, i1,
       e, e1, s, s1
  <2> DEFINE alias == Frame(Me, r, "DISCOVER_REPLY", 0, Alias)
  <2>2. out' = Append(out, alias) /\ alias \in OutFrames
    BY <1>6, MessagesAssumption DEF Hello, OutFrames
  <2> HIDE DEF alias
  <2>3. o1 = o + IF alias \in OutTo(p) THEN 1 ELSE 0
    BY <2>2, PickedAppend DEF QueuesInv, SenderInv, o, o1
  <2> QED
    BY <1>1, <1>2, <1>3, <2>1, <2>3
<1>7. ASSUME NEW m \in Macs, Lose(m) \/ ReceiveDamaged(m) PROVE Goal
  <2>1. /\ wire[m] # <<>> /\ wire' = [wire EXCEPT ![m] = Tail(@)]
        /\ faults' = faults + 1
        /\ UNCHANGED <<handed, out, scheduled, stream, events, shown, missed>>
    BY <1>7 DEF Lose, ReceiveDamaged, senderVars, receiverVars, uiVars
  <2>2. h1 = h /\ o1 = o /\ e1 = e /\ s1 = s /\ missed'[p] = missed[p]
    BY <2>1 DEF Waiting, h, h1, o, o1, e, e1, s, s1
  <2>3. w <= w1 + IF m = p /\ Head(wire[m]).type = "APP_MESSAGE"
                  THEN 1 ELSE 0
    BY <2>1, CountFromWire DEF w, w1
  <2>4. i <= i1
    <3>1. CASE Lose(m)
      <4>1. i1 = i
        BY <3>1 DEF Lose, receiverVars, i, i1
      <4> QED
        BY <1>2, <4>1
    <3>2. CASE ReceiveDamaged(m)
      BY <3>2, CountDamaged DEF i, i1
    <3> QED
      BY <1>7, <3>1, <3>2
  <2>5. w <= w1 + 1
    BY <1>2, <1>3, <2>3
  <2>6. faults' = faults + 1
    BY <2>1
  <2> QED
    BY <1>1, <1>2, <1>3, <2>2, <2>4, <2>5, <2>6
<1>8. ASSUME NEW m \in Macs, Receive(m) PROVE Goal
  <2>1. h1 = h /\ o1 = o /\ e1 = e /\ s1 = s
        /\ missed'[p] = missed[p] /\ faults' = faults
    BY <1>8 DEF Receive, senderVars, uiVars, Waiting, h, h1, o, o1, e, e1,
       s, s1
  <2>2. w + i <= w1 + i1
    BY <1>8, CountReceive DEF w, w1, i, i1
  <2> QED
    BY <1>1, <1>2, <1>3, <2>1, <2>2
<1>9. ASSUME NEW m \in Macs, DispatchMessage(m) \/ DispatchAlias(m)
      PROVE  Goal
  <2>1. h1 = h /\ o1 = o /\ w1 = w /\ s1 = s /\ faults' = faults
        /\ missed'[p] = missed[p]
    BY <1>9
    DEF DispatchMessage, DispatchAlias, senderVars, uiVars, h, h1, o, o1, w, w1,
        s, s1
  <2> DEFINE a == Len(scheduled[p])
             a1 == Len(scheduled'[p])
             b == Len(stream[p])
             c == Len(events[p])
  <2>2. a \in Nat /\ b \in Nat /\ c \in Nat /\ a1 \in Nat
    <3>1. p \in Macs
      BY DEF Peers
    <3>2. scheduled'[p] \in Seq(ChatEvents(p))
      BY <3>1 DEF QueuesInv, ReceiverInv
    <3> QED
      BY <3>2, PlacesAreNumbers, LenProperties DEF PlacesNat
  <2>3. e = a + b + c /\ e1 = a1 + b + c
    BY <1>9 DEF DispatchMessage, DispatchAlias, uiVars, Waiting, e, e1
  <2>4. i + a <= i1 + a1
    BY <1>9, CountDispatch DEF i, i1
  <2> HIDE DEF a, a1, b, c
  <2>5. i + e <= i1 + e1
    BY <1>2, <1>3, <2>2, <2>3, <2>4
  <2> QED
    BY <1>1, <1>2, <1>3, <2>1, <2>5
<1>10. ASSUME NEW m \in Macs, OnChat(m) PROVE Goal
  <2>1. h1 = h /\ o1 = o /\ w1 = w /\ i1 = i
        /\ missed'[p] = missed[p] /\ faults' = faults
    BY <1>10 DEF OnChat, senderVars, h, h1, o, o1, w, w1, i, i1
  <2> DEFINE a == Len(scheduled[p])
             b == Len(stream[p])
             c == Len(events[p])
             c1 == Len(events'[p])
  <2>2. a \in Nat /\ b \in Nat /\ c \in Nat /\ c1 \in Nat
    <3>1. p \in Macs
      BY DEF Peers
    <3>2. events'[p] \in Seq(ChatEvents(p))
      BY <3>1 DEF QueuesInv, ReceiverInv
    <3> QED
      BY <3>2, PlacesAreNumbers, LenProperties DEF PlacesNat
  <2>3. e = a + b + c /\ e1 = a + b + c1
    BY <1>10 DEF OnChat, Waiting, e, e1
  <2>4. c + s <= c1 + s1
    BY <1>10, CountOnChat DEF s, s1
  <2> HIDE DEF a, b, c, c1
  <2>5. e + s <= e1 + s1
    BY <1>2, <1>3, <2>2, <2>3, <2>4
  <2> QED
    BY <1>1, <1>2, <1>3, <2>1, <2>5
<1>11. ASSUME UNCHANGED <<handed, out, wire, faults, receiverVars>>
       PROVE  Goal
  <2>1. h1 = h /\ o1 = o /\ w1 = w /\ i1 = i /\ e1 = e /\ s1 = s
        /\ missed'[p] = missed[p] /\ faults' = faults
    BY <1>11
    DEF receiverVars, uiVars, Waiting, h, h1, o, o1, w, w1, i, i1, e, e1, s, s1
  <2> QED
    BY <1>1, <2>1
<1>12. ASSUME \/ UNCHANGED vars \/ EndHandler
              \/ \E to \in Peers \union {ALL} : SendText(to)
              \/ \E m \in Macs : Connect(m) \/ HandleClient(m)
       PROVE  Goal
  BY <1>11, <1>12 DEF vars, EndHandler, SendText, Connect, HandleClient,
     senderVars
<1>13. ASSUME NEW m \in Macs, Broadcast(m) \/ ReadEvent(m) \/ Disconnect(m)
       PROVE  Goal
  <2>1. h1 = h /\ o1 = o /\ w1 = w /\ i1 = i /\ s1 = s /\ faults' = faults
    BY <1>13 DEF Broadcast, ReadEvent, Disconnect, senderVars,
       h, h1, o, o1, w, w1, i, i1, s, s1
  <2>2. e + missed[p] <= e1 + missed'[p]
    BY <1>13, CountEvents DEF e, e1
  <2> QED
    BY <1>1, <1>2, <1>3, <2>1, <2>2
<1> HIDE DEF Goal
<1> QED
  BY <1>4, <1>5, <1>6, <1>7, <1>8, <1>9, <1>10, <1>12, <1>13,
     ViewersAreNodes DEF Next, Worker

LEMMA CountInit ==
    ASSUME Init, QueuesInv PROVE HandedInv /\ CountInv
<1>1. /\ handed = [p \in Peers |-> <<>>] /\ missed = [m \in Macs |-> 0]
  BY DEF Init
<1>2. HandedInv
  <2>1. <<>> \in Seq(Seq(ClearBytes))
    OBVIOUS
  <2> QED
    BY <1>1, <2>1 DEF HandedInv
<1>3. ASSUME NEW p \in Peers PROVE Picked(handed[p], FitTexts) <= Traced(p)
  <2>1. PlacesNat(p)
    BY <1>2, PlacesAreNumbers
  <2>2. Picked(handed[p], FitTexts) = 0
    <3>1. {i \in DOMAIN <<>> : <<>>[i] \in FitTexts} = {}
      OBVIOUS
    <3> QED
      BY <1>1, <3>1, FS_EmptySet DEF Picked
  <2> DEFINE o == Picked(out, OutTo(p))
             w == Picked(wire[p], WireTo(p))
             i == Picked(incoming[p], InTo(p))
             e == Waiting(p)
             s == Len(shown[p][Me])
  <2>3. /\ o \in Nat /\ w \in Nat /\ i \in Nat /\ e \in Nat /\ s \in Nat
        /\ missed[p] \in Nat /\ faults \in Nat
    BY <2>1 DEF PlacesNat
  <2> HIDE DEF o, w, i, e, s
  <2>4. 0 <= o + w + i + e + s + missed[p] + faults
    BY <2>3
  <2> QED
    BY <2>2, <2>4 DEF Traced, o, w, i, e, s
<1> QED
  BY <1>2, <1>3 DEF CountInv

-----------------------------------------------------------------------------
(***************************************************************************)
(* Theorems                                                                *)
(***************************************************************************)
\* The queues of Me, of the network and of the receiving nodes hold what they
\* should, the texts in them follow the history, and each is in its place or
\* counted: the inductive invariant from which the three below follow.
MessagesInv == QueuesInv /\ TrailInv /\ HandedInv /\ CountInv

THEOREM MessagesInvariance == Spec => []MessagesInv
<1>1. Init => MessagesInv
  BY QueuesInit, TrailInit, CountInit DEF MessagesInv
<1>2. MessagesInv /\ [Next]_vars => MessagesInv'
  <2> SUFFICES ASSUME MessagesInv, [Next]_vars PROVE MessagesInv'
    OBVIOUS
  <2>1. QueuesInv'
    BY SenderQueues, NetworkQueues, ReceiverQueues DEF MessagesInv, QueuesInv
  <2>2. TrailInv'
    BY TrailStep DEF MessagesInv
  <2>3. HandedInv'
    BY HandedStep DEF MessagesInv
  <2>4. CountInv'
    BY <2>1, <2>3, CountStep DEF MessagesInv
  <2> QED
    BY <2>1, <2>2, <2>3, <2>4 DEF MessagesInv
<1> QED
  BY <1>1, <1>2, PTL DEF Spec

\* Frames leave the receiver threads with a known type and clear text of the
\* right length, the wire holds what fits the interface, and the numbers of
\* Messaging keep to 16 bits.
THEOREM MessagesTypeCorrect == Spec => []MessagesTypeOK
<1>1. MessagesInv => MessagesTypeOK
  <2> SUFFICES ASSUME QueuesInv PROVE MessagesTypeOK
    BY DEF MessagesInv
  <2> USE DEF QueuesInv
  <2>1. \A i \in DOMAIN said : said[i].to \in Peers \union {ALL}
    <3>1. \A i \in DOMAIN said : said[i] \in Cmds
      BY DEF SenderInv
    <3> QED
      BY <3>1 DEF Cmds
  <2>2. ASSUME NEW m \in Macs, NEW i \in DOMAIN wire[m]
        PROVE  wire[m][i].dst = m /\ Len(wire[m][i].data) <= Mtu + MinPayload
    <3>1. wire[m][i] \in WireFrames(m)
      BY <2>2 DEF NetworkInv
    <3>2. PICK f \in OutFrames :
            /\ f.dst = m /\ Len(Protected(f).payload) <= Mtu
            /\ wire[m][i] = Sent(f)
      BY <3>1 DEF WireFrames
    <3> DEFINE n == Len(Protected(f).payload)
    <3>3. /\ n \in Nat /\ Sent(f).dst = m
          /\ Len(Sent(f).data) = IF n < MinPayload THEN MinPayload ELSE n
      BY <3>2, RawFrame
    <3> QED
      BY <3>2, <3>3, FramesAssumption, MessagesAssumption
  <2>3. ASSUME NEW m \in Macs, NEW i \in DOMAIN incoming[m]
        PROVE  /\ incoming[m][i].type \in MessageType
               /\ incoming[m][i].payload \in Seq(ClearBytes)
               /\ incoming[m][i].payload_len = Len(incoming[m][i].payload)
    <3> DEFINE f == incoming[m][i]
    <3>1. f \in InFrames(m)
      BY <2>3 DEF ReceiverInv
    <3> HIDE DEF f
    <3>2. CASE f \in OutFrames
      BY <3>2, OutFields DEF f, MessageType
    <3>3. CASE \E src \in Macs : f = Frame(src, m, "DISCOVER_REPLY", 0, Alias)
      <4>1. /\ f.type = "DISCOVER_REPLY" /\ f.payload = Alias
            /\ f.payload_len = Len(Alias)
        BY <3>3 DEF Frame
      <4> QED
        BY <4>1, MessagesAssumption DEF f, MessageType
    <3> QED
      BY <3>1, <3>2, <3>3 DEF InFrames
  <2>5. \A m \in Macs : stream[m] # <<>> => ui[m] = "up"
    BY DEF ReceiverInv
  <2>4. /\ ui \in [Macs -> {"down", "open", "up", "lost"}]
        /\ sequence \in 0 .. Wrap - 1 /\ faults \in 0 .. MaxFaults
    BY DEF SenderInv, NetworkInv, ReceiverInv
  <2> QED
    BY <2>1, <2>2, <2>3, <2>4, <2>5 DEF MessagesTypeOK
<1> QED
  BY <1>1, MessagesInvariance, PTL

\* Whatever the wire loses, damages or leads to another node, and whichever
\* interfaces come and go, a node shows of Me only texts the user of Me wrote
\* to it, in their order, unchanged and each once at most; nodes with another
\* key raise no event, and the aliases heard are undamaged.
THEOREM ShownWasSent == Spec => []ShownIsSent
<1>1. MessagesInv => ShownIsSent
  <2> SUFFICES ASSUME QueuesInv, TrailInv, NEW p \in Peers
               PROVE  /\ \A src \in Macs \ {Me} : shown[p][src] = <<>>
                      /\ Key[p] # Key[Me] =>
                            scheduled[p] = <<>> /\ shown[p][Me] = <<>>
                      /\ Retold(shown[p][Me], p)
                      /\ heard[p] \subseteq {Alias}
    BY DEF MessagesInv, ShownIsSent
  <2>1. /\ p \in Macs /\ Me \in Macs
        /\ shown[p][Me] \in Seq(Seq(ClearBytes)) /\ heard[p] \subseteq {Alias}
        /\ \A src \in Macs \ {Me} : shown[p][src] = <<>>
        /\ Key[p] # Key[Me] => shown[p][Me] = <<>>
    BY SMTT(30), MessagesAssumption
    DEF Peers, QueuesInv, ThreadsInv, ReceiverInv
  <2>10. Key[p] # Key[Me] => scheduled[p] = <<>>
    <3>1. scheduled[p] \in Seq(ChatEvents(p))
      BY <2>1 DEF QueuesInv, ReceiverInv
    <3>2. Key[p] # Key[Me] => ChatEvents(p) = {}
      BY DEF ChatEvents
    <3>3. scheduled[p] # <<>> => Head(scheduled[p]) \in ChatEvents(p)
      BY <3>1
    <3> QED
      BY <3>2, <3>3
  <2>2. /\ said \in Seq(Cmds) /\ Len(said) \in Nat
        /\ DOMAIN said = 1 .. Len(said)
    BY DEF QueuesInv, SenderInv
  <2>3. PICK cut \in [0 .. 8 -> 0 .. Len(said)] :
            \A k \in 1 .. 8 : /\ cut[k - 1] <= cut[k]
                              /\ Within(Trail(p)[k], said, p,
                                        cut[k - 1], cut[k])
    BY DEF TrailInv, Follows
  <2>4. /\ cut[0] \in Nat /\ cut[1] \in 0 .. Len(said)
        /\ Within(ShownTexts(p), said, p, cut[0], cut[1])
    <3>1. 1 \in 1 .. 8 /\ 1 - 1 = 0
      OBVIOUS
    <3> QED
      BY SMTT(30), <2>3, <3>1, SameQueues
  <2>5. PICK at \in [DOMAIN ShownTexts(p) -> 0 .. Len(said)] :
            /\ \A i \in DOMAIN ShownTexts(p) : ShownTexts(p)[i] # {} =>
                    /\ cut[0] < at[i] /\ at[i] <= cut[1]
                    /\ Entry(said, at[i], p, ShownTexts(p)[i])
            /\ \A i, j \in DOMAIN ShownTexts(p) :
                    i < j /\ ShownTexts(p)[i] # {} /\ ShownTexts(p)[j] # {}
                        => at[i] < at[j]
    BY <2>4 DEF Within
  <2>6. /\ DOMAIN ShownTexts(p) = DOMAIN shown[p][Me]
        /\ \A i \in DOMAIN shown[p][Me] : ShownTexts(p)[i] = {shown[p][Me][i]}
    <3>1. DOMAIN shown[p][Me] = 1 .. Len(shown[p][Me])
      BY SMTT(30), <2>1
    <3> QED
      BY <3>1 DEF ShownTexts
  <2>7. \A i \in DOMAIN shown[p][Me] :
            /\ at[i] \in DOMAIN said
            /\ said[at[i]].to \in {p, ALL} /\ said[at[i]].text = shown[p][Me][i]
    <3> TAKE i \in DOMAIN shown[p][Me]
    <3>1. ShownTexts(p)[i] = {shown[p][Me][i]} /\ ShownTexts(p)[i] # {}
      BY <2>6
    <3>2. /\ cut[0] < at[i] /\ at[i] <= cut[1] /\ at[i] \in 0 .. Len(said)
          /\ Entry(said, at[i], p, ShownTexts(p)[i])
      BY <2>5, <2>6, <3>1
    <3>3. at[i] \in 1 .. Len(said)
      BY SMTT(30), <2>2, <2>4, <3>2
    <3> QED
      BY <2>2, <3>1, <3>2, <3>3 DEF Entry
  <2>8. \A i, j \in DOMAIN shown[p][Me] : i < j => at[i] < at[j]
    BY <2>5, <2>6
  <2>9. at \in [DOMAIN shown[p][Me] -> DOMAIN said]
    BY <2>5, <2>6, <2>7
  <2> QED
    BY <2>1, <2>7, <2>8, <2>9, <2>10 DEF Retold
<1> QED
  BY <1>1, MessagesInvariance, PTL

\* No thread or loop drops a text that Messaging was given and that fits a
\* frame: it is in a queue or shown, or the wire is to blame, or the user
\* interface of p was missing when it was broadcast or left it unread, for
\* every size of frame and any number of texts.
THEOREM NoTextDropped == Spec => []NoneDropped
<1>1. MessagesInv => NoneDropped
  <2> SUFFICES ASSUME QueuesInv, HandedInv, CountInv,
                      NEW p \in Peers, Key[p] = Key[Me]
               PROVE  Fitting(handed[p]) <= UnderWay(p) + Len(shown[p][Me])
                                                + missed[p] + faults
    BY DEF MessagesInv, NoneDropped
  <2>1. /\ p \in Macs /\ out \in Seq(OutFrames)
        /\ wire[p] \in Seq(WireFrames(p)) /\ incoming[p] \in Seq(InFrames(p))
        /\ handed[p] \in Seq(Seq(ClearBytes))
    BY DEF Peers, QueuesInv, SenderInv, NetworkInv, ReceiverInv, HandedInv
  <2>2. Fitting(handed[p]) = Picked(handed[p], FitTexts)
    <3>1. \A i \in DOMAIN handed[p] : handed[p][i] \in Seq(ClearBytes)
      BY <2>1
    <3>2. {i \in DOMAIN handed[p] : Fits(handed[p][i])}
            = {i \in DOMAIN handed[p] : handed[p][i] \in FitTexts}
      BY <3>1 DEF FitTexts
    <3> QED
      BY <3>2 DEF Fitting, Picked
  <2>3. Cardinality({i \in TextsTo(p, out) : Fits(out[i].payload)})
            = Picked(out, OutTo(p))
    <3>1. \A i \in DOMAIN out : out[i] \in OutFrames
      BY <2>1
    <3>2. {i \in TextsTo(p, out) : Fits(out[i].payload)}
            = {i \in DOMAIN out : out[i] \in OutTo(p)}
      BY <3>1 DEF TextsTo, OutTo
    <3> QED
      BY <3>2 DEF Picked
  <2>4. Cardinality(TextsTo(p, wire[p])) = Picked(wire[p], WireTo(p))
    <3>1. \A i \in DOMAIN wire[p] :
            wire[p][i] \in WireFrames(p) /\ wire[p][i].dst = p
      <4> TAKE i \in DOMAIN wire[p]
      <4>1. wire[p][i] \in WireFrames(p)
        BY <2>1
      <4>2. PICK f \in OutFrames : f.dst = p /\ wire[p][i] = Sent(f)
        BY <4>1 DEF WireFrames
      <4>3. Sent(f).dst = f.dst
        BY RawFrame
      <4> QED
        BY <4>1, <4>2, <4>3
    <3>2. TextsTo(p, wire[p])
            = {i \in DOMAIN wire[p] : wire[p][i] \in WireTo(p)}
      BY <3>1 DEF TextsTo, WireTo
    <3> QED
      BY <3>2 DEF Picked
  <2>5. Cardinality(TextsTo(p, incoming[p])) = Picked(incoming[p], InTo(p))
    <3>1. \A i \in DOMAIN incoming[p] :
            incoming[p][i] \in InFrames(p) /\ incoming[p][i].dst = p
      <4>1. \A src : Frame(src, p, "DISCOVER_REPLY", 0, Alias).dst = p
        BY DEF Frame
      <4> QED
        BY <2>1, <4>1 DEF InFrames
    <3>2. TextsTo(p, incoming[p])
            = {i \in DOMAIN incoming[p] : incoming[p][i] \in InTo(p)}
      BY <3>1 DEF TextsTo, InTo
    <3> QED
      BY <3>2 DEF Picked
  <2>6. Picked(handed[p], FitTexts) <= Traced(p) /\ PlacesNat(p)
    BY PlacesAreNumbers DEF CountInv
  <2> DEFINE s == Len(scheduled[p])
             t == Len(stream[p])
             e == Len(events[p])
  <2>7. UnderWay(p) = Picked(out, OutTo(p)) + Picked(wire[p], WireTo(p))
                        + Picked(incoming[p], InTo(p)) + s + t + e
    BY <2>3, <2>4, <2>5 DEF UnderWay
  <2>8. /\ Picked(handed[p], FitTexts)
            <= Picked(out, OutTo(p)) + Picked(wire[p], WireTo(p))
                + Picked(incoming[p], InTo(p)) + (s + t + e)
                + Len(shown[p][Me]) + missed[p] + faults
        /\ s \in Nat /\ t \in Nat /\ e \in Nat
    BY <2>6 DEF Traced, Waiting, PlacesNat
  <2> HIDE DEF s, t, e
  <2> QED
    BY <2>2, <2>6, <2>7, <2>8 DEF PlacesNat
<1> QED
  BY <1>1, MessagesInvariance, PTL

=============================================================================
