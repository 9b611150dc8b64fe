---------------------------- MODULE SentCardsProofs ----------------------------
(***************************************************************************)
(* Theorems about SentCards, for any uploads and bounds.                   *)
(***************************************************************************)
EXTENDS SentCards, WellFoundedInduction, TLAPS

CardRecords == [upload : Uploads, subtitle : Subtitles, posted : BOOLEAN]

\* The shape of the cards, the entries and the history.
CardsShape ==
    /\ cards \in Seq(CardRecords) /\ Len(cards) <= MaxSends
    /\ progress_index_tx \in [last_tick_tx -> DOMAIN cards]
    /\ last_tick_tx \subseteq EntryIds
    /\ clock \in 0 .. Len(cards)
    /\ unwatched \subseteq DOMAIN cards
    /\ progress \in [Transfers -> Nat]
    /\ ended \subseteq Transfers
    /\ \A t \in ended : Sent(t)

\* An entry under an id of the backend was found by the name of that file.
EntriesNamed ==
    \A t \in Transfers : FileId(t) \in last_tick_tx =>
        \E k \in DOMAIN cards : \E f \in cards[k].upload.files :
            /\ f.id = t[2].id
            /\ f.name = cards[progress_index_tx[FileId(t)]].upload.name

SentCardsInv == CardsShape /\ EntriesNamed /\ FinishedShown

-----------------------------------------------------------------------------
\* The last of some positions is one of them.
LEMMA LastPosition ==
    ASSUME NEW n \in Nat, NEW S \in SUBSET (1 .. n), S # {}
    PROVE  Max(S) \in S
<1> DEFINE T == {m \in Nat : n - m \in S}
           R == {ss \in Nat \X Nat : ss[1] < ss[2]}
<1>1. IsWellFoundedOn(R, Nat)
  BY NatLessThanWellFounded DEF OpToRel
<1>2. T \subseteq Nat /\ T # {}
  <2>1. PICK x \in S : TRUE
    OBVIOUS
  <2>2. n - x \in Nat /\ n - (n - x) = x
    OBVIOUS
  <2> QED
    BY <2>1, <2>2
<1>3. PICK m \in T : \A y \in T : ~(<<y, m>> \in R)
  <2> HIDE DEF R, T
  <2> QED
    BY <1>1, <1>2, WFMin
<1>4. ASSUME NEW y \in T PROVE m <= y
  <2>1. y \in Nat /\ m \in Nat /\ <<y, m>> \in Nat \X Nat
    OBVIOUS
  <2>2. ~(y < m)
    BY <1>3, <2>1
  <2> QED
    BY <2>1, <2>2
<1>5. ASSUME NEW y \in S PROVE n - m >= y
  <2>1. y \in Nat /\ m \in Nat /\ n - y \in Nat /\ n - (n - y) = y
    OBVIOUS
  <2>2. m <= n - y
    BY <1>4, <2>1
  <2> QED
    BY <2>1, <2>2
<1> QED
  BY <1>5 DEF Max

\* The cards are numbered from one.
LEMMA PositionsOfCards ==
    ASSUME CardsShape
    PROVE  /\ Len(cards) \in Nat /\ DOMAIN cards = 1 .. Len(cards)
           /\ \A n \in DOMAIN cards : cards[n] \in CardRecords
  BY DEF CardsShape

\* An event finds one card or none.
LEMMA OneResolved ==
    ASSUME CardsShape, NEW t \in Transfers, Resolved(t) # {}
    PROVE  /\ Max(Resolved(t)) \in DOMAIN cards
           /\ Resolved(t) = {Max(Resolved(t))}
<1>1. PICK n \in DOMAIN cards : Resolved(t) = {n}
  <2>1. CASE FileId(t) \in DOMAIN progress_index_tx
    BY <2>1 DEF Resolved, CardsShape
  <2>2. CASE FileId(t) \notin DOMAIN progress_index_tx
    <3>1. /\ Resolved(t) = {Max(Named(t[2].name))}
          /\ Named(t[2].name) # {}
      BY <2>2 DEF Resolved
    <3>2. Named(t[2].name) \in SUBSET (1 .. Len(cards)) /\ Len(cards) \in Nat
      BY PositionsOfCards DEF Named
    <3>3. Max(Named(t[2].name)) \in Named(t[2].name)
      BY <3>1, <3>2, LastPosition
    <3> QED
      BY <3>1, <3>3 DEF Named
  <2> QED
    BY <2>1, <2>2
<1>2. Max({n}) = n
  BY PositionsOfCards DEF Max
<1> QED
  BY <1>1, <1>2

\* An event that finds its card by name finds one of that name.
LEMMA ResolvedName ==
    ASSUME CardsShape, NEW t \in Transfers, Resolved(t) # {},
           FileId(t) \notin last_tick_tx
    PROVE  cards[Max(Resolved(t))].upload.name = t[2].name
<1>1. /\ Resolved(t) = {Max(Named(t[2].name))}
      /\ Named(t[2].name) # {}
  BY DEF Resolved, CardsShape
<1>2. Named(t[2].name) \in SUBSET (1 .. Len(cards)) /\ Len(cards) \in Nat
  BY PositionsOfCards DEF Named
<1>3. Max(Named(t[2].name)) \in Named(t[2].name)
  BY <1>1, <1>2, LastPosition
<1>4. Max(Resolved(t)) = Max(Named(t[2].name))
  BY <1>1, OneResolved
<1> QED
  BY <1>3, <1>4 DEF Named

-----------------------------------------------------------------------------
(***************************************************************************)
(* Steps that make no card                                                 *)
(***************************************************************************)
\* The cards are the same but for their subtitles.
Retitled ==
    /\ cards' \in Seq(CardRecords) /\ Len(cards') = Len(cards)
    /\ \A n \in DOMAIN cards : /\ cards'[n].upload = cards[n].upload
                               /\ cards'[n].posted = cards[n].posted

\* Showing changes the subtitle of the resolved cards and nothing else.
LEMMA ShowingRetitles ==
    ASSUME CardsShape, NEW t \in Transfers, NEW subtitle \in Subtitles,
           cards' = Showing(t, subtitle)
    PROVE  /\ Retitled
           /\ \A n \in DOMAIN cards :
                cards'[n].subtitle = IF n \in Resolved(t) THEN subtitle
                                                          ELSE cards[n].subtitle
<1>1. \A n \in DOMAIN cards :
        /\ cards[n] \in CardRecords
        /\ [cards[n] EXCEPT !.subtitle = subtitle] \in CardRecords
  BY PositionsOfCards DEF CardRecords
<1>2. /\ DOMAIN cards' = 1 .. Len(cards) /\ Len(cards) \in Nat
      /\ \A n \in 1 .. Len(cards) : cards'[n] \in CardRecords
  BY <1>1, PositionsOfCards DEF Showing
<1>3. cards' = [n \in 1 .. Len(cards) |-> cards'[n]]
  BY PositionsOfCards DEF Showing
<1>4. cards' \in Seq(CardRecords) /\ Len(cards') = Len(cards)
  BY <1>2, <1>3
<1>5. \A n \in DOMAIN cards :
        /\ cards'[n].upload = cards[n].upload
        /\ cards'[n].posted = cards[n].posted
        /\ cards'[n].subtitle = IF n \in Resolved(t) THEN subtitle
                                                     ELSE cards[n].subtitle
  BY <1>1 DEF Showing, CardRecords
<1> QED
  BY <1>4, <1>5 DEF Retitled

\* Shown changes the subtitle of one card and nothing else.
LEMMA ShownRetitles ==
    ASSUME CardsShape, NEW k \in DOMAIN cards, NEW subtitle \in Subtitles,
           cards' = Shown(k, subtitle)
    PROVE  /\ Retitled
           /\ \A n \in DOMAIN cards :
                cards'[n].subtitle = IF n = k THEN subtitle
                                              ELSE cards[n].subtitle
<1>1. \A n \in DOMAIN cards :
        /\ cards[n] \in CardRecords
        /\ [cards[n] EXCEPT !.subtitle = subtitle] \in CardRecords
  BY PositionsOfCards DEF CardRecords
<1>2. cards' \in Seq(CardRecords) /\ Len(cards') = Len(cards)
  BY <1>1 DEF Shown, CardsShape
<1>3. \A n \in DOMAIN cards :
        /\ cards'[n].upload = cards[n].upload
        /\ cards'[n].posted = cards[n].posted
        /\ cards'[n].subtitle = IF n = k THEN subtitle ELSE cards[n].subtitle
  BY <1>1, PositionsOfCards DEF Shown, CardRecords
<1> QED
  BY <1>2, <1>3 DEF Retitled

\* What says nothing of subtitles stays as it was.
LEMMA RetitledKeeps ==
    ASSUME CardsShape, Retitled
    PROVE  /\ DOMAIN cards' = DOMAIN cards
           /\ \A n \in DOMAIN cards : Alone(n)' => Alone(n)
           /\ \A t \in Transfers : Sent(t) => Sent(t)'
<1>1. DOMAIN cards' = DOMAIN cards
  BY PositionsOfCards DEF Retitled
<1> QED
  BY <1>1 DEF Retitled, Alone, Sent

\* An event enters the card it finds.
LEMMA EnteredKeeps ==
    ASSUME CardsShape, EntriesNamed, Retitled,
           NEW t \in Transfers, Sent(t), Entered(t)
    PROVE  /\ progress_index_tx' \in [last_tick_tx' -> DOMAIN cards']
           /\ last_tick_tx' \subseteq EntryIds
           /\ unwatched' \subseteq DOMAIN cards'
           /\ EntriesNamed'
<1>1. DOMAIN cards' = DOMAIN cards
  BY RetitledKeeps
<1>2. unwatched' \subseteq DOMAIN cards'
  BY <1>1 DEF Entered, CardsShape
<1>3. CASE Resolved(t) = {}
  BY ZenonT(60), <1>1, <1>2, <1>3 DEF Entered, CardsShape, EntriesNamed, Retitled
<1>4. CASE Resolved(t) # {}
  <2> DEFINE n == Max(Resolved(t))
  <2>1. n \in DOMAIN cards /\ Resolved(t) = {n}
    BY <1>4, OneResolved
  <2>2. /\ progress_index_tx' = With(FileId(t), n)
        /\ last_tick_tx' = last_tick_tx \union {FileId(t)}
    BY <1>4 DEF Entered, Touched
  <2> HIDE DEF n
  <2>3. progress_index_tx' \in [last_tick_tx' -> DOMAIN cards']
    BY <1>1, <2>1, <2>2 DEF With, CardsShape
  <2>4. last_tick_tx' \subseteq EntryIds
    BY <2>2 DEF EntryIds, CardsShape
  <2>5. ASSUME NEW u \in Transfers, FileId(u) \in last_tick_tx'
        PROVE  \E k \in DOMAIN cards : \E f \in cards[k].upload.files :
                  /\ f.id = u[2].id
                  /\ f.name = cards[progress_index_tx'[FileId(u)]].upload.name
    <3>1. CASE FileId(u) # FileId(t)
      BY <2>2, <2>5, <3>1 DEF With, EntriesNamed, CardsShape
    <3>2. CASE FileId(u) = FileId(t) /\ FileId(t) \in last_tick_tx
      <4>1. n = progress_index_tx[FileId(t)]
        BY <2>1, <3>2 DEF Resolved, CardsShape
      <4> QED
        BY <2>2, <3>2, <4>1 DEF With, EntriesNamed
    <3>3. CASE FileId(u) = FileId(t) /\ FileId(t) \notin last_tick_tx
      <4>1. cards[n].upload.name = t[2].name
        BY <1>4, <3>3, ResolvedName DEF n
      <4>2. progress_index_tx'[FileId(u)] = n
        BY <2>2, <3>3 DEF With
      <4>3. t[2].id = u[2].id
        BY <3>3 DEF FileId
      <4>4. t[1] \in DOMAIN cards /\ t[2] \in cards[t[1]].upload.files
        BY DEF Sent
      <4> QED
        BY <4>1, <4>2, <4>3, <4>4
    <3> QED
      BY <3>1, <3>2, <3>3
  <2>6. \A u \in Transfers : FileId(u) \in last_tick_tx' =>
            progress_index_tx'[FileId(u)] \in DOMAIN cards
    BY <1>1, <2>3
  <2>7. EntriesNamed'
    BY <1>1, <2>5, <2>6 DEF EntriesNamed, Retitled, FileId
  <2> QED
    BY <1>2, <2>3, <2>4, <2>7
<1> QED
  BY <1>3, <1>4

\* The card an event finds has the name of its file.
LEMMA FoundByName ==
    ASSUME CardsShape, EntriesNamed, NEW t \in Transfers, Sent(t),
           Resolved(t) # {}
    PROVE  cards[Max(Resolved(t))].upload.name = t[2].name
<1>1. CASE FileId(t) \notin last_tick_tx
  BY <1>1, ResolvedName
<1>2. CASE FileId(t) \in last_tick_tx
  <2>1. Max(Resolved(t)) = progress_index_tx[FileId(t)]
    BY <1>2, OneResolved DEF Resolved, CardsShape
  <2>2. PICK k \in DOMAIN cards : \E f \in cards[k].upload.files :
            /\ f.id = t[2].id
            /\ f.name = cards[progress_index_tx[FileId(t)]].upload.name
    BY <1>2 DEF EntriesNamed
  <2>3. /\ t[1] \in DOMAIN cards /\ t[2] \in cards[t[1]].upload.files
        /\ cards[t[1]].upload \in Uploads /\ cards[k].upload \in Uploads
    BY PositionsOfCards DEF Sent, CardRecords
  <2> QED
    BY <2>1, <2>2, <2>3, SentCardsAssumption
<1> QED
  BY <1>1, <1>2

\* The only events that find the card of a file that stands alone are its own,
\* and those do.
LEMMA OwnEvents ==
    ASSUME CardsShape, EntriesNamed,
           NEW t \in Transfers, Sent(t), Alone(t[1]),
           ~cards[t[1]].upload.folder
    PROVE  /\ Resolved(t) = {t[1]}
           /\ \A u \in Transfers : Sent(u) /\ t[1] \in Resolved(u) => u = t
<1>1. /\ t[1] \in DOMAIN cards
      /\ cards[t[1]].upload.files = {t[2]}
      /\ cards[t[1]].upload.name = t[2].name
  BY PositionsOfCards, SentCardsAssumption DEF Sent, CardRecords
<1>2. Resolved(t) # {}
  BY <1>1 DEF Resolved, Named
<1>3. Resolved(t) = {t[1]}
  BY <1>1, <1>2, OneResolved, FoundByName DEF Alone
<1>4. ASSUME NEW u \in Transfers, Sent(u), t[1] \in Resolved(u)
      PROVE  u = t
  <2>1. cards[t[1]].upload.name = u[2].name
    BY <1>4, OneResolved, FoundByName
  <2>2. u[1] \in DOMAIN cards /\ u[2] \in cards[u[1]].upload.files
    BY <1>4 DEF Sent
  <2>3. u[1] = t[1]
    BY <2>1, <2>2 DEF Alone
  <2> QED
    BY <1>1, <2>2, <2>3 DEF Transfers
<1> QED
  BY <1>3, <1>4

\* An event, or the watchdog, that takes "Enviado" from no card of its own.
LEMMA FinishedKept ==
    ASSUME CardsShape, FinishedShown, Retitled, ended' = ended,
           \A t \in ended : Alone(t[1]) /\ ~cards[t[1]].upload.folder =>
                cards'[t[1]].subtitle \in {cards[t[1]].subtitle, "Enviado"}
    PROVE  FinishedShown'
<1>1. \A t \in ended : t[1] \in DOMAIN cards
  BY DEF CardsShape, Sent
<1> QED
  BY <1>1, RetitledKeeps DEF FinishedShown, Retitled

-----------------------------------------------------------------------------
(***************************************************************************)
(* The steps                                                               *)
(***************************************************************************)
LEMMA InitialCards == Init => SentCardsInv
  BY SentCardsAssumption
  DEF Init, SentCardsInv, CardsShape, EntriesNamed, FinishedShown, Transfers

\* A file the user sends gets a card behind the others.
LEMMA NewCard ==
    ASSUME SentCardsInv, NEW u \in Uploads, SendPath(u) \/ SendPathRaises(u)
    PROVE  SentCardsInv'
<1> USE SentCardsAssumption DEF SentCardsInv
<1>1. PICK posted \in BOOLEAN : cards' = Append(cards, Card(u, posted))
  BY DEF SendPath, SendPathRaises
<1>2. /\ Card(u, posted) \in CardRecords
      /\ cards' \in Seq(CardRecords) /\ Len(cards') = Len(cards) + 1
      /\ Len(cards') <= MaxSends
      /\ \A n \in DOMAIN cards : n \in DOMAIN cards' /\ cards'[n] = cards[n]
      /\ Len(cards') \in DOMAIN cards'
  BY <1>1 DEF Card, CardRecords, Subtitles, SendPath, SendPathRaises, CardsShape
<1>3. /\ \A n \in DOMAIN cards : Alone(n)' => Alone(n)
      /\ \A t \in Transfers : Sent(t) => Sent(t)'
  BY <1>2 DEF Alone, Sent
<1>4. /\ progress' = progress /\ ended' = ended
  BY DEF SendPath, SendPathRaises, backendVars
<1>5. FinishedShown'
  BY <1>2, <1>3, <1>4 DEF FinishedShown, CardsShape, Sent
<1>6. /\ progress_index_tx' \in [last_tick_tx' -> DOMAIN cards']
      /\ last_tick_tx' \subseteq EntryIds
      /\ clock' \in 0 .. Len(cards')
      /\ unwatched' \subseteq DOMAIN cards'
      /\ \A t \in Transfers : FileId(t) \in last_tick_tx' =>
            /\ FileId(t) \in last_tick_tx
            /\ progress_index_tx'[FileId(t)] = progress_index_tx[FileId(t)]
  <2>1. CASE SendPath(u)
    <3> DEFINE tid == <<IF u.folder THEN "fx" ELSE "tx", clock'>>
    <3>1. /\ clock' \in {clock, clock + 1}
          /\ progress_index_tx' = With(tid, Len(cards'))
          /\ last_tick_tx' = last_tick_tx \union {tid}
          /\ unwatched' \subseteq unwatched \union
                {progress_index_tx[i] : i \in DOMAIN progress_index_tx}
      BY <2>1 DEF SendPath, Touched
    <3>2. clock' \in 0 .. Len(cards') /\ clock' \in 0 .. MaxSends
      BY <1>2, <3>1 DEF CardsShape
    <3>3. tid \in EntryIds
      BY <3>2 DEF EntryIds
    <3>4. \A t \in Transfers : FileId(t) # tid
      BY DEF FileId
    <3> HIDE DEF tid
    <3>5. progress_index_tx' \in [last_tick_tx' -> DOMAIN cards']
      BY <1>2, <3>1 DEF With, CardsShape
    <3>6. unwatched' \subseteq DOMAIN cards'
      BY <1>2, <3>1 DEF CardsShape
    <3> QED
      BY <3>1, <3>2, <3>3, <3>4, <3>5, <3>6 DEF With, CardsShape
  <2>2. CASE SendPathRaises(u)
    BY <1>2, <2>2 DEF SendPathRaises, CardsShape
  <2> QED
    BY <2>1, <2>2
<1>7. CardsShape'
  BY <1>2, <1>3, <1>4, <1>6 DEF CardsShape
<1>8. EntriesNamed'
  <2>1. ASSUME NEW t \in Transfers, FileId(t) \in last_tick_tx'
        PROVE  \E k \in DOMAIN cards' : \E f \in cards'[k].upload.files :
            /\ f.id = t[2].id
            /\ f.name = cards'[progress_index_tx'[FileId(t)]].upload.name
    <3>1. /\ FileId(t) \in last_tick_tx
          /\ progress_index_tx'[FileId(t)] = progress_index_tx[FileId(t)]
          /\ progress_index_tx[FileId(t)] \in DOMAIN cards
      BY <1>6, <2>1 DEF CardsShape
    <3>2. PICK k \in DOMAIN cards : \E f \in cards[k].upload.files :
            /\ f.id = t[2].id
            /\ f.name = cards[progress_index_tx[FileId(t)]].upload.name
      BY <3>1 DEF EntriesNamed
    <3> QED
      BY <1>2, <3>1, <3>2
  <2> QED
    BY <2>1 DEF EntriesNamed, FileId
<1> QED
  BY <1>5, <1>7, <1>8

\* The three handlers keep the invariant.
LEMMA EventStep ==
    ASSUME SentCardsInv, NEW t \in Transfers,
           OnFileTxStarted(t) \/ OnFileTxProgress(t) \/ OnFileTxFinished(t)
    PROVE  SentCardsInv'
<1> USE DEF SentCardsInv
<1>1. Sent(t)
  BY DEF OnFileTxStarted, OnFileTxProgress, OnFileTxFinished
<1>2. CASE OnFileTxStarted(t)
  <2>1. /\ cards' = cards /\ Entered(t) /\ Retitled
        /\ UNCHANGED <<clock, progress, ended>>
    BY <1>2 DEF OnFileTxStarted, StartedLeaves, Retitled, CardsShape
  <2>2. CardsShape' /\ EntriesNamed'
    BY <1>1, <2>1, EnteredKeeps, RetitledKeeps DEF CardsShape
  <2>3. FinishedShown'
    BY <2>1, FinishedKept
  <2> QED
    BY <2>2, <2>3
<1>3. CASE OnFileTxProgress(t)
  <2>1. /\ cards' = Showing(t, "%") /\ Entered(t) /\ t \notin ended
        /\ progress' = [progress EXCEPT ![t] = @ + 1]
        /\ UNCHANGED <<clock, ended>>
    BY <1>3 DEF OnFileTxProgress
  <2>2. /\ Retitled
        /\ \A n \in DOMAIN cards : n \notin Resolved(t) =>
                cards'[n].subtitle = cards[n].subtitle
    BY <2>1, ShowingRetitles DEF Subtitles
  <2>3. CardsShape' /\ EntriesNamed'
    <3>1. progress' \in [Transfers -> Nat]
      BY <2>1 DEF CardsShape
    <3> QED
      BY <1>1, <2>1, <2>2, <3>1, EnteredKeeps, RetitledKeeps
      DEF CardsShape, Retitled
  <2>4. ASSUME NEW u \in ended, Alone(u[1]), ~cards[u[1]].upload.folder
        PROVE  cards'[u[1]].subtitle = cards[u[1]].subtitle
    <3>1. u \in Transfers /\ Sent(u) /\ u # t
      BY <2>1, <2>4 DEF CardsShape
    <3>2. u[1] \in DOMAIN cards /\ u[1] \notin Resolved(t)
      BY <1>1, <2>4, <3>1, OwnEvents DEF Sent
    <3> QED
      BY <2>2, <3>2
  <2>5. FinishedShown'
    BY <2>1, <2>2, <2>4, FinishedKept
  <2> QED
    BY <2>3, <2>5
<1>4. CASE OnFileTxFinished(t)
  <2>1. /\ cards' = Showing(t, "Enviado") /\ ended' = ended \union {t}
        /\ progress_index_tx' = Without(FileId(t))
        /\ last_tick_tx' = last_tick_tx \ {FileId(t)}
        /\ UNCHANGED <<clock, unwatched, progress>>
    BY <1>4 DEF OnFileTxFinished
  <2>2. /\ Retitled
        /\ \A n \in DOMAIN cards :
                cards'[n].subtitle = IF n \in Resolved(t) THEN "Enviado"
                                     ELSE cards[n].subtitle
    BY <2>1, ShowingRetitles DEF Subtitles
  <2>3. /\ DOMAIN cards' = DOMAIN cards
        /\ \A n \in DOMAIN cards : Alone(n)' => Alone(n)
        /\ \A u \in Transfers : Sent(u) => Sent(u)'
    BY <2>2, RetitledKeeps
  <2>4. /\ progress_index_tx' \in [last_tick_tx' -> DOMAIN cards]
        /\ \A id \in last_tick_tx' : /\ id \in last_tick_tx
                                     /\ progress_index_tx'[id]
                                            = progress_index_tx[id]
    BY <2>1 DEF Without, CardsShape
  <2>5. CardsShape'
    BY <1>1, <2>1, <2>2, <2>3, <2>4 DEF CardsShape, Retitled
  <2>6. EntriesNamed'
    <3>1. ASSUME NEW u \in Transfers, FileId(u) \in last_tick_tx'
          PROVE  \E k \in DOMAIN cards' : \E f \in cards'[k].upload.files :
            /\ f.id = u[2].id
            /\ f.name = cards'[progress_index_tx'[FileId(u)]].upload.name
      BY <2>2, <2>3, <2>4, <3>1 DEF EntriesNamed, Retitled
    <3> QED
      BY <3>1 DEF EntriesNamed, FileId
  <2>7. FinishedShown'
    <3>1. ASSUME NEW u \in ended', Alone(u[1])', ~cards'[u[1]].upload.folder
          PROVE  cards'[u[1]].subtitle = "Enviado"
      <4>1. u \in Transfers /\ Sent(u) /\ u[1] \in DOMAIN cards
        BY <1>1, <2>1 DEF CardsShape, Sent
      <4>2. Alone(u[1]) /\ ~cards[u[1]].upload.folder
        BY <2>2, <2>3, <3>1, <4>1 DEF Retitled
      <4>3. CASE u = t
        BY <2>2, <4>1, <4>2, <4>3, OwnEvents
      <4>4. CASE u \in ended
        BY <2>2, <4>1, <4>2, <4>4 DEF FinishedShown
      <4> QED
        BY <2>1, <4>3, <4>4
    <3> QED
      BY <3>1 DEF FinishedShown
  <2> QED
    BY <2>5, <2>6, <2>7
<1> QED
  BY <1>2, <1>3, <1>4

\* The watchdog keeps it too.
LEMMA WatchdogStep ==
    ASSUME SentCardsInv, NEW id \in EntryIds, Watchdog(id)
    PROVE  SentCardsInv'
<1> USE DEF SentCardsInv
<1> DEFINE k == progress_index_tx[id]
<1>1. /\ k \in DOMAIN cards /\ cards' = Shown(k, "Enviado")
      /\ progress_index_tx' = Without(id)
      /\ last_tick_tx' = last_tick_tx \ {id}
      /\ UNCHANGED <<clock, unwatched, progress, ended>>
  BY DEF Watchdog, backendVars, CardsShape
<1> HIDE DEF k
<1>2. /\ Retitled
      /\ \A n \in DOMAIN cards :
            cards'[n].subtitle = IF n = k THEN "Enviado" ELSE cards[n].subtitle
  BY <1>1, ShownRetitles DEF Subtitles
<1>3. /\ DOMAIN cards' = DOMAIN cards
      /\ \A u \in Transfers : Sent(u) => Sent(u)'
  BY <1>2, RetitledKeeps
<1>4. /\ progress_index_tx' \in [last_tick_tx' -> DOMAIN cards]
      /\ \A i \in last_tick_tx' :
            i \in last_tick_tx /\ progress_index_tx'[i] = progress_index_tx[i]
  BY <1>1 DEF Without, CardsShape
<1>5. CardsShape'
  BY <1>1, <1>2, <1>3, <1>4 DEF CardsShape, Retitled
<1>6. EntriesNamed'
  BY <1>2, <1>3, <1>4 DEF EntriesNamed, Retitled, FileId
<1>7. FinishedShown'
  BY <1>1, <1>2, FinishedKept DEF CardsShape, Sent
<1> QED
  BY <1>5, <1>6, <1>7

\* The inductive invariant: FinishedShown is none alone, for it is the names
\* under which the entries were made that keep a card to its own events.
THEOREM SentCardsInvariance == Spec => []SentCardsInv
<1>1. SentCardsInv /\ UNCHANGED vars => SentCardsInv'
  BY DEF vars, uiVars, backendVars, SentCardsInv, CardsShape, EntriesNamed,
         FinishedShown, Alone, Sent, FileId
<1>2. SentCardsInv /\ [Next]_vars => SentCardsInv'
  BY <1>1, NewCard, EventStep, WatchdogStep DEF Next, Backend
<1> QED
  BY InitialCards, <1>2, PTL DEF Spec

\* Every entry has a card and a time, so that the watchdog passes over none.
THEOREM SentCardsTypeCorrect == Spec => []SentCardsTypeOK
<1>1. SentCardsInv => SentCardsTypeOK
  BY SentCardsAssumption, PositionsOfCards
  DEF SentCardsInv, CardsShape, SentCardsTypeOK, CardRecords
<1> QED
  BY SentCardsInvariance, <1>1, PTL

\* The card of a file that stands alone says "Enviado" from the report of its
\* end on, in whatever order events and watchdog come.
THEOREM FinishedIsShown == Spec => []FinishedShown
<1>1. SentCardsInv => FinishedShown
  BY DEF SentCardsInv
<1> QED
  BY SentCardsInvariance, <1>1, PTL
=============================================================================
