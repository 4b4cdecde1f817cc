--------------------------- MODULE LOLMPageProofs ---------------------------
(***************************************************************************)
(* Theorems about the draft page of LOLM, also when the page of the result *)
(* takes its place, for every number of bans and picks, every set of       *)
(* heroes and every bound on what is on its way.                           *)
(*                                                                         *)
(* The argument: a text is a part of every later one, and of the room as   *)
(* it is (Shows), so that no order of drawing them can show a hero that is *)
(* not in the slot; the texts in the socket and those that wait are in the *)
(* order in which the room made them (InOrder), and the last of them, or   *)
(* what is drawn when there are none, is the room as it is (Newest).       *)
(***************************************************************************)
EXTENDS LOLMOutput, SequenceTheorems, FiniteSetTheorems, TLAPS

Turns == 2 * BanCount + PickCount
Texts == [Status : {"WAIT", "BAN", "PICK", "END"}, List : [Slots -> Hero \cup {Empty}],
          Ready : SUBSET Teams, nowCtrl : Teams \cup {None}]
Packets == ({"SYNC"} \X Texts) \cup ({"PREVIEW"} \X Hero) \cup ({"LINK_ROOM"} \X {0, 1})

\* Text d was made before text e, or with it.
Within(d, e) == /\ d.Status # "WAIT" => e.Status # "WAIT"
                /\ \A i \in Slots : d.List[i] # Empty => e.List[i] = d.List[i]

\* A text that the room has made: its slots are filled up to some point, as in
\* the room.
Shows(d) == /\ d \in Texts
            /\ d.Status # "WAIT" <=> d.nowCtrl \in Teams
            /\ \E n \in 0 .. Turns : /\ \A i \in Slots : d.List[i] # Empty <=> i < n
                                     /\ d.Status = "WAIT" => n = 0
            /\ Within(d, Text)

\* The room, and what the check button has sent to it.
RoomRight ==
  /\ stage \in {"waiting", "drafting", "complete"} /\ slot \in [Slots -> Hero \cup {Empty}]
  /\ filled \in 0 .. Turns /\ onMove \in Teams /\ ready \subseteq Teams
  /\ stage = "waiting" => filled = 0
  /\ stage = "drafting" => filled < Turns
  /\ \A i \in Slots : slot[i] # Empty <=> i < filled
  /\ sent \subseteq ({"READY"} \X {0}) \cup ({"CHOOSE"} \X Hero)
  /\ \A packet \in sent : packet[1] = "READY" => myTeam \in Teams

\* A text is at place k of a channel.
IsText(channel, k) == k \in DOMAIN channel /\ channel[k][1] = "SYNC"
NoText(channel)    == \A k : ~IsText(channel, k)

\* Text d is older than those of the channel.
Before(d, channel) == \A k : IsText(channel, k) => Within(d, channel[k][2])

\* The texts of a channel are there in the order in which they were made.
Sorted(channel) == \A j, k : IsText(channel, j) /\ IsText(channel, k) /\ j < k
                               => Within(channel[j][2], channel[k][2])

\* The last text of a channel is d.
LastIs(channel, d) == \E k : /\ IsText(channel, k) /\ channel[k][2] = d
                             /\ \A j : IsText(channel, j) => j <= k

Channels == /\ linked \in {"no", "listed", "answered", "refused"} /\ connected \in BOOLEAN
            /\ socket \in Seq(Packets) /\ waiters \in Seq(Packets)
            /\ \A k : IsText(socket, k) => Shows(socket[k][2])
            /\ \A k : IsText(waiters, k) => Shows(waiters[k][2])

\* What waits is older than what is in the socket; what was drawn is older still,
\* unless a text was drawn before an older one.
InOrder == /\ Sorted(socket) /\ Sorted(waiters)
           /\ \A k : IsText(waiters, k) => Before(waiters[k][2], socket)
           /\ SyncData # NoSync /\ ~passed =>
                Before(SyncData, socket) /\ Before(SyncData, waiters)

Newest == Listening /\ ~gone /\ ~passed =>
            \/ LastIs(socket, Text)
            \/ NoText(socket) /\ LastIs(waiters, Text)
            \/ NoText(socket) /\ NoText(waiters) /\ SyncData = Text

PageTypes == /\ SyncData = NoSync \/ Shows(SyncData)
             /\ NowChoose \in Hero \cup {-1}
             /\ icon \in [Slots -> Hero \cup {Empty}] /\ active \cup hidden \subseteq Hero
             /\ watched \in Slots \cup {None} /\ loads \in Seq(Hero)
             /\ marked \in BOOLEAN /\ passed \in BOOLEAN /\ overtook \in BOOLEAN

Turn == SyncData.Status \in {"BAN", "PICK"}

\* The buttons agree with the text that is drawn.
Buttons == /\ active \cap hidden = {}
           /\ Turn => isChoose(SyncData) \subseteq hidden
           /\ NowChoose # -1 /\ Turn => SyncData.nowCtrl = myTeam /\ NowChoose \notin hidden

\* The icons are those of the text that is drawn.
IconsOfText ==
  ~passed => \A i \in Slots : icon[i] = IF SyncData = NoSync THEN Empty ELSE SyncData.List[i]

\* The last picture that was asked for is the one of the icon.
LastAsked == watched # None /\ ~passed /\ ~overtook /\ icon[watched] # Empty
               => IF loads = <<>> THEN pic = icon[watched]
                                  ELSE loads[Len(loads)] = icon[watched]

MarkRight == watched # None /\ ~passed => (marked <=> Turn /\ Flag(SyncData) = watched)

PageRight == /\ PageTypes /\ IconsTrue /\ Buttons /\ IconsOfText
             /\ LastAsked /\ MarkRight

IInv == RoomRight /\ Channels /\ InOrder /\ Newest /\ PageRight

USE BanCountAssumption, PickCountAssumption, HeroAssumption, TaggedAssumption,
    MyTeamAssumption, WatchedAssumption
    DEF Teams, Empty, None

-----------------------------------------------------------------------------
(* What taking one entry out of a list leaves; SequencesExt defines        *)
(* RemoveAt, which the library's theorems do not mention.                  *)

\* Without entry k: the entries before it stay, those after it move down by one.
LEMMA RemoveAtProperties ==
  ASSUME NEW S, NEW s \in Seq(S), NEW k \in 1 .. Len(s)
  PROVE  /\ RemoveAt(s, k) \in Seq(S)
         /\ Len(RemoveAt(s, k)) = Len(s) - 1
         /\ \A i \in 1 .. Len(s) - 1 : RemoveAt(s, k)[i] = s[IF i < k THEN i ELSE i + 1]
<1> DEFINE a == SubSeq(s, 1, k - 1)
           b == SubSeq(s, k + 1, Len(s))
<1>1. Len(s) \in Nat /\ k \in 1 .. Len(s) /\ \A i \in 1 .. Len(s) : s[i] \in S
  BY ElementOfSeq, LenProperties
<1>2. a \in Seq(S) /\ Len(a) = k - 1 /\ \A i \in 1 .. k - 1 : a[i] = s[i]
  BY <1>1
<1>3. b \in Seq(S) /\ Len(b) = Len(s) - k /\ \A i \in 1 .. Len(s) - k : b[i] = s[k + i]
  BY <1>1
<1>4. RemoveAt(s, k) = a \o b
  BY DEF RemoveAt
<1> HIDE DEF a, b
<1>5. /\ a \o b \in Seq(S) /\ Len(a \o b) = Len(a) + Len(b)
      /\ \A i \in 1 .. Len(a) + Len(b) :
           (a \o b)[i] = IF i <= Len(a) THEN a[i] ELSE b[i - Len(a)]
  BY ONLY <1>2, <1>3, ConcatProperties
<1>6. \A i \in 1 .. Len(s) - 1 : (a \o b)[i] = IF i < k THEN a[i] ELSE b[i - (k - 1)]
  BY ONLY <1>1, <1>2, <1>3, <1>5
<1>7. ASSUME NEW i \in 1 .. Len(s) - 1
      PROVE  (a \o b)[i] = s[IF i < k THEN i ELSE i + 1]
  <2>1. CASE i < k
    BY ONLY <1>1, <1>2, <1>6, <2>1
  <2>2. CASE ~(i < k)
    <3>1. i - (k - 1) \in 1 .. Len(s) - k /\ k + (i - (k - 1)) = i + 1
      BY ONLY <1>1, <2>2
    <3> QED  BY ONLY <1>3, <1>6, <2>2, <3>1
  <2> QED  BY <2>1, <2>2
<1> QED  BY <1>1, <1>2, <1>3, <1>4, <1>5, <1>7

-----------------------------------------------------------------------------
(* Channels. *)

\* Channel r is channel c with packet p at its end.
Longer(c, p, r) ==
  \E n \in Nat : /\ \A k : IsText(c, k) => k \in Nat /\ k < n /\ IsText(r, k) /\ r[k] = c[k]
                 /\ \A k : IsText(r, k) => IsText(c, k) \/ (k = n /\ p[1] = "SYNC")
                 /\ p[1] = "SYNC" => IsText(r, n)
                 /\ r[n] = p

\* That is what Append does.
LEMMA AppendTexts ==
  ASSUME NEW c \in Seq(Packets), NEW p \in Packets
  PROVE  Append(c, p) \in Seq(Packets) /\ Longer(c, p, Append(c, p))
<1> DEFINE r == Append(c, p)
           n == Len(c) + 1
<1>1. /\ r \in Seq(Packets) /\ Len(r) = n /\ r[n] = p
      /\ \A i \in 1 .. Len(c) : r[i] = c[i]
  BY AppendProperties
<1> HIDE DEF r
<1>2. DOMAIN c = 1 .. Len(c) /\ DOMAIN r = 1 .. n /\ n \in Nat /\ Len(c) \in Nat
  BY <1>1, LenProperties
<1>3. \A k \in DOMAIN c : k \in Nat /\ k < n /\ k \in DOMAIN r /\ r[k] = c[k]
  BY <1>1, <1>2
<1>4. \A k \in DOMAIN r : k \in DOMAIN c \/ k = n
  BY <1>1, <1>2
<1>5. n \in DOMAIN r
  BY <1>1, <1>2
<1> HIDE DEF n
<1>6. \A k : IsText(c, k) => k \in Nat /\ k < n /\ IsText(r, k) /\ r[k] = c[k]
  BY <1>3 DEF IsText
<1>7. \A k : IsText(r, k) => IsText(c, k) \/ (k = n /\ p[1] = "SYNC")
  BY <1>1, <1>3, <1>4 DEF IsText
<1>8. p[1] = "SYNC" => IsText(r, n)
  BY <1>1, <1>5 DEF IsText
<1>9. Longer(c, p, r)
  BY <1>1, <1>2, <1>6, <1>7, <1>8 DEF Longer
<1> QED  BY <1>1, <1>9 DEF r

\* Packet i is taken out.
LEMMA RemoveTexts ==
  ASSUME NEW c \in Seq(Packets), NEW i \in DOMAIN c, NEW r, r = RemoveAt(c, i)
  PROVE  /\ r \in Seq(Packets)
         /\ \A k : IsText(r, k) =>
              LET j == IF k < i THEN k ELSE k + 1
              IN  k \in Nat /\ IsText(c, j) /\ r[k] = c[j]
         /\ \A j : IsText(c, j) /\ j # i =>
              LET k == IF j < i THEN j ELSE j - 1
              IN  j \in Nat /\ IsText(r, k) /\ r[k] = c[j]
<1>1. DOMAIN c = 1 .. Len(c) /\ Len(c) \in Nat /\ i \in 1 .. Len(c)
  BY LenProperties
<1>2. /\ r \in Seq(Packets) /\ Len(r) = Len(c) - 1
      /\ \A k \in 1 .. Len(c) - 1 : r[k] = c[IF k < i THEN k ELSE k + 1]
  BY <1>1, RemoveAtProperties
<1>3. DOMAIN r = 1 .. Len(c) - 1
  BY <1>2, LenProperties
<1>4. ASSUME NEW k, IsText(r, k)
      PROVE  LET j == IF k < i THEN k ELSE k + 1
             IN  k \in Nat /\ IsText(c, j) /\ r[k] = c[j]
  <2>1. k \in 1 .. Len(c) - 1 /\ r[k][1] = "SYNC"  BY <1>3, <1>4 DEF IsText
  <2>2. (IF k < i THEN k ELSE k + 1) \in DOMAIN c  BY <1>1, <2>1
  <2> QED  BY <1>2, <2>1, <2>2 DEF IsText
<1>5. ASSUME NEW j, IsText(c, j), j # i
      PROVE  LET k == IF j < i THEN j ELSE j - 1
             IN  j \in Nat /\ IsText(r, k) /\ r[k] = c[j]
  <2>1. j \in 1 .. Len(c) /\ c[j][1] = "SYNC"  BY <1>1, <1>5 DEF IsText
  <2>2. CASE j < i
    <3>1. j \in 1 .. Len(c) - 1  BY <1>1, <2>1, <2>2
    <3> QED  BY <1>2, <1>3, <2>1, <2>2, <3>1 DEF IsText
  <2>3. CASE j > i
    <3>1. j - 1 \in 1 .. Len(c) - 1 /\ ~(j - 1 < i) /\ (j - 1) + 1 = j  BY <1>1, <2>1, <2>3
    <3>2. r[j - 1] = c[j]  BY <1>2, <3>1
    <3> QED  BY <1>3, <2>1, <2>3, <3>1, <3>2 DEF IsText
  <2> QED  BY <1>1, <1>5, <2>1, <2>2, <2>3
<1> QED  BY <1>2, <1>4, <1>5

\* Channel r is channel c without packet i: its texts are other texts of c, in the same
\* order, and its last text is the one that was last, unless that was packet i.
Shorter(c, i, r) ==
  /\ \A k : IsText(r, k) => \E j : IsText(c, j) /\ j # i /\ r[k] = c[j]
  /\ Sorted(c) => Sorted(r)
  /\ \A d : LastIs(c, d) => \/ LastIs(r, d)
                            \/ /\ IsText(c, i) /\ c[i][2] = d
                               /\ \A j : IsText(c, j) => j <= i

\* That is what RemoveAt does.
LEMMA RemoveIsShorter ==
  ASSUME NEW c \in Seq(Packets), NEW i \in DOMAIN c
  PROVE  RemoveAt(c, i) \in Seq(Packets) /\ Shorter(c, i, RemoveAt(c, i))
<1> DEFINE up(k)   == IF k < i THEN k ELSE k + 1
           down(j) == IF j < i THEN j ELSE j - 1
           r == RemoveAt(c, i)
<1>1. i \in Nat
  BY LenProperties
<1>2. /\ r \in Seq(Packets)
      /\ \A k : IsText(r, k) => k \in Nat /\ IsText(c, up(k)) /\ r[k] = c[up(k)]
  BY RemoveTexts
<1>3. \A j : IsText(c, j) /\ j # i => j \in Nat /\ IsText(r, down(j)) /\ r[down(j)] = c[j]
  BY RemoveTexts
<1> HIDE DEF r
<1>4. ASSUME Sorted(c)  PROVE Sorted(r)
  <2> SUFFICES ASSUME NEW j, NEW k, IsText(r, j), IsText(r, k), j < k
               PROVE  Within(r[j][2], r[k][2])
    BY DEF Sorted
  <2>1. up(j) < up(k)  BY <1>1, <1>2
  <2>2. IsText(c, up(j)) /\ IsText(c, up(k)) /\ r[j] = c[up(j)] /\ r[k] = c[up(k)]
    BY <1>2
  <2> HIDE DEF up
  <2> QED  BY <1>4, <2>1, <2>2 DEF Sorted
<1>5. ASSUME NEW k, IsText(r, k)
      PROVE  \E j : IsText(c, j) /\ j # i /\ r[k] = c[j]
  <2>1. up(k) # i  BY <1>1, <1>2, <1>5
  <2> QED  BY <1>2, <1>5, <2>1
<1>6. ASSUME NEW d, NEW k, IsText(c, k), c[k][2] = d, \A j : IsText(c, j) => j <= k, k # i
      PROVE  LastIs(r, d)
  <2>1. IsText(r, down(k)) /\ r[down(k)][2] = d /\ k \in Nat
    BY <1>3, <1>6
  <2>2. ASSUME NEW j, IsText(r, j)  PROVE j <= down(k)
    <3>1. up(j) <= k /\ j \in Nat  BY <1>2, <1>6, <2>2
    <3> QED  BY <1>1, <1>6, <2>1, <3>1
  <2> HIDE DEF down
  <2> QED  BY <2>1, <2>2 DEF LastIs
<1>7. \A d : LastIs(c, d) => \/ LastIs(r, d)
                            \/ /\ IsText(c, i) /\ c[i][2] = d
                               /\ \A j : IsText(c, j) => j <= i
  BY <1>6 DEF LastIs
<1>8. Shorter(c, i, r)
  BY <1>4, <1>5, <1>7 DEF Shorter
<1> QED  BY <1>2, <1>8 DEF r

\* Tail is one such case.
LEMMA TailIsRemoveAt ==
  ASSUME NEW c \in Seq(Packets), c # <<>>
  PROVE  /\ 1 \in DOMAIN c /\ Tail(c) = RemoveAt(c, 1) /\ Head(c) = c[1]
         /\ \A k : IsText(c, k) => k >= 1
<1>1. Len(c) \in Nat \ {0} /\ DOMAIN c = 1 .. Len(c)
  BY EmptySeq, LenProperties
<1>2. SubSeq(c, 1, 1 - 1) = <<>>
  BY SubSeqEmpty, 1 \in Int, 0 \in Int
<1>3. Tail(c) = SubSeq(c, 2, Len(c)) /\ Tail(c) \in Seq(Packets)
  BY TailIsSubSeq, HeadTailProperties
<1>4. <<>> \o SubSeq(c, 2, Len(c)) = Tail(c)
  BY <1>3, ConcatEmptySeq
<1>5. RemoveAt(c, 1) = <<>> \o SubSeq(c, 2, Len(c))
  BY <1>2 DEF RemoveAt
<1>6. Head(c) = c[1]
  OBVIOUS
<1>7. \A k : IsText(c, k) => k >= 1
  BY <1>1 DEF IsText
<1>8. 1 \in DOMAIN c
  BY <1>1
<1> QED  BY <1>4, <1>5, <1>6, <1>7, <1>8

-----------------------------------------------------------------------------
(* The room. *)

\* A text that is part of one that is part of a third.
LEMMA WithinOn ==
  ASSUME NEW d, NEW e, NEW f, Within(d, e), Within(e, f)
  PROVE  Within(d, f)
BY DEF Within

\* The room's text is one; it is a part of itself.
LEMMA TextShows == RoomRight => Shows(Text) /\ Within(Text, Text) /\ Text # NoSync
<1> SUFFICES ASSUME RoomRight  PROVE Shows(Text) /\ Within(Text, Text) /\ Text # NoSync
  OBVIOUS
<1>1. /\ Text.Status = IF stage = "waiting" THEN "WAIT"
                       ELSE IF stage = "complete" THEN "END"
                       ELSE IF filled < 2 * BanCount THEN "BAN" ELSE "PICK"
      /\ Text.List = slot /\ Text.nowCtrl = IF stage = "waiting" THEN None ELSE onMove
  BY DEF Text
<1>2. Text \in Texts
  BY DEF Text, Texts, RoomRight
<1>3. Text.Status # "WAIT" <=> Text.nowCtrl \in Teams
  BY <1>1 DEF RoomRight
<1>4. Within(Text, Text)
  BY DEF Within
<1>5. \E n \in 0 .. Turns : /\ \A i \in Slots : Text.List[i] # Empty <=> i < n
                            /\ Text.Status = "WAIT" => n = 0
  <2>1. filled \in 0 .. Turns /\ (\A i \in Slots : slot[i] # Empty <=> i < filled)
        /\ (stage = "waiting" => filled = 0)
    BY DEF RoomRight
  <2>2. Text.Status = "WAIT" => stage = "waiting"
    BY <1>1
  <2> HIDE DEF Text
  <2> QED  BY <1>1, <2>1, <2>2
<1>6. Text.Status # "NONE" /\ NoSync.Status = "NONE"
  BY <1>1 DEF NoSync
<1> QED  BY <1>2, <1>3, <1>4, <1>5, <1>6 DEF Shows

\* What the room has told stays true of it.
LEMMA ShowsOn ==
  ASSUME NEW d, Shows(d), Within(Text, Text')
  PROVE  Shows(d)'
<1>1. Within(d, Text')
  BY WithinOn DEF Shows
<1> QED  BY <1>1 DEF Shows, Within

\* A captain is ready.
LEMMA ReadyStep ==
  ASSUME RoomRight, NEW team \in Teams, Ready(team), sent' \subseteq sent
  PROVE  RoomRight' /\ Within(Text, Text')
<1>1. /\ stage = "waiting" /\ stage' \in {"waiting", "drafting"} /\ ready' \subseteq Teams
      /\ UNCHANGED <<slot, filled, onMove>>
  BY DEF Ready, Room!Start, RoomRight
<1>2. RoomRight'
  BY <1>1 DEF RoomRight, Turns
<1>3. Text.Status = "WAIT" /\ Text'.List = Text.List
  BY <1>1 DEF Text
<1> QED  BY <1>2, <1>3 DEF Within

\* Each slot has a team.
LEMMA OrderTeams == \A i \in Slots : Order[i] \in Teams
<1> TAKE i \in Slots
<1>1. i \in Nat /\ i % 2 \in 0 .. 1
  BY DEF Slots
<1>2. Order[i] \in {i % 2, 0, 1}
  BY DEF Order
<1> QED  BY <1>1, <1>2

\* A slot is filled, which was empty.
LEMMA FillStep ==
  ASSUME RoomRight, NEW h \in Hero, nextProcess(h), sent' \subseteq sent
  PROVE  RoomRight' /\ Within(Text, Text')
<1>1. /\ stage = "drafting" /\ filled \in 0 .. Turns - 1
      /\ slot' = [slot EXCEPT ![filled] = h] /\ filled' = filled + 1
      /\ stage' = IF filled' = Turns THEN "complete" ELSE "drafting"
      /\ onMove' = IF filled' = Turns THEN onMove ELSE Order[filled']
      /\ ready' = ready
  BY DEF nextProcess, Room!Fill, RoomRight, Turns
<1>2. slot \in [Slots -> Hero \cup {Empty}] /\ Slots = 0 .. Turns - 1
      /\ \A i \in Slots : slot[i] # Empty <=> i < filled
  BY DEF RoomRight, Slots, Turns
<1>3. /\ slot' \in [Slots -> Hero \cup {Empty}]
      /\ \A i \in Slots : slot'[i] = IF i = filled THEN h ELSE slot[i]
  BY <1>1, <1>2
<1>4. \A i \in Slots : slot'[i] # Empty <=> i < filled'
  BY <1>1, <1>2, <1>3
<1>5. onMove' \in Teams
  <2>1. CASE filled' = Turns
    BY <1>1, <2>1 DEF RoomRight
  <2>2. CASE filled' # Turns
    <3>1. filled' \in Slots  BY <1>1, <1>2, <2>2 DEF Turns
    <3>2. Order[filled'] \in Teams  BY <3>1, OrderTeams
    <3> QED  BY <1>1, <2>2, <3>2
  <2> QED  BY <2>1, <2>2
<1>6. filled' \in 0 .. Turns /\ (stage' = "drafting" => filled' < Turns)
      /\ stage' \in {"drafting", "complete"}
  BY <1>1 DEF Turns
<1>7. RoomRight'
  BY <1>1, <1>3, <1>4, <1>5, <1>6 DEF RoomRight
<1>8. Text'.Status # "WAIT" /\ Text'.List = slot' /\ Text.List = slot
  BY <1>1 DEF Text
<1>9. \A i \in Slots : slot[i] # Empty => slot'[i] = slot[i]
  BY <1>1, <1>2, <1>3
<1> QED  BY <1>7, <1>8, <1>9 DEF Within

-----------------------------------------------------------------------------
(* Steps of the room, of the server and of the network. *)

\* The page does nothing, while the room goes on.
LEMMA PageKept ==
  ASSUME PageRight, Within(Text, Text'), UNCHANGED <<SyncData, NowChoose, shown, passed>>
  PROVE  PageRight'
<1> USE DEF shown, picture
<1>1. \A i \in Slots : slot[i] # Empty => slot'[i] = slot[i]
  BY DEF Within, Text
<1>2. PageTypes'
  <2>1. Shows(SyncData) => Shows(SyncData)'
    BY ShowsOn DEF Shows
  <2> QED  BY <2>1 DEF PageRight, PageTypes
<1>3. IconsTrue'
  <2>1. \A i \in Slots : icon[i] # Empty => icon[i] = slot'[i]
    BY <1>1 DEF PageRight, IconsTrue
  <2>2. \A h \in hidden : \E i \in Slots : slot'[i] = h
    BY <1>1 DEF PageRight, PageTypes, IconsTrue
  <2> QED  BY <2>1, <2>2 DEF IconsTrue
<1>4. Buttons' /\ IconsOfText' /\ LastAsked' /\ MarkRight'
  BY DEF PageRight, Buttons, IconsOfText, LastAsked, MarkRight, Turn, isChoose, Flag
<1> QED  BY <1>2, <1>3, <1>4 DEF PageRight

\* Nothing comes into the channels, and nothing is taken from them.
LEMMA ChannelsKept ==
  ASSUME Channels, InOrder, Newest, Within(Text, Text'),
         UNCHANGED <<socket, waiters, SyncData, gone, passed>>,
         linked' \in {"no", "listed", "answered", "refused"}, connected' \in BOOLEAN,
         Listening' => Listening /\ Text' = Text
  PROVE  Channels' /\ InOrder' /\ Newest'
<1>1. /\ \A k : IsText(socket, k) => Shows(socket[k][2])'
      /\ \A k : IsText(waiters, k) => Shows(waiters[k][2])'
  BY ShowsOn DEF Channels
<1>2. Channels'
  BY <1>1 DEF Channels, IsText
<1>3. InOrder'
  BY DEF InOrder, Sorted, Before, IsText, Within
<1>4. Newest'
  BY DEF Newest, LastIs, NoText, IsText
<1> QED  BY <1>2, <1>3, <1>4

\* A packet is sent to the page; if it is a text, it is the room as it then is.
LEMMA Sends ==
  ASSUME IInv, RoomRight', Within(Text, Text'), UNCHANGED <<connected, page>>,
         linked' \in {"no", "listed", "answered", "refused"},
         socket' \in Seq(Packets), NEW packet, Longer(socket, packet, socket'),
         packet[1] = "SYNC" => packet[2] = Text',
         packet[1] # "SYNC" => Text' = Text /\ (Listening' => Listening)
  PROVE  IInv'
<1> USE DEF page
<1>0. /\ RoomRight /\ Channels /\ InOrder /\ Newest /\ PageRight
      /\ waiters \in Seq(Packets) /\ waiters' = waiters /\ SyncData' = SyncData
  BY DEF IInv, Channels
<1>1. PICK n \in Nat :
        /\ \A k : IsText(socket, k) => k \in Nat /\ k < n /\ IsText(socket', k) /\ socket'[k] = socket[k]
        /\ \A k : IsText(socket', k) => IsText(socket, k) \/ (k = n /\ packet[1] = "SYNC")
        /\ packet[1] = "SYNC" => IsText(socket', n)
        /\ socket'[n] = packet
  BY DEF Longer
<1>2. \A d : Shows(d) => Shows(d)' /\ Within(d, Text')
  BY ShowsOn, WithinOn DEF Shows
<1>3. Shows(Text)'
  <2>1. (RoomRight => Shows(Text) /\ Within(Text, Text) /\ Text # NoSync)'
    BY TextShows, PTL
  <2> QED  BY <2>1
<1>4. Channels'
  <2>1. \A k : IsText(socket', k) => Shows(socket[k][2])'
    BY <1>0, <1>1, <1>2, <1>3 DEF Channels
  <2>2. \A k : IsText(waiters, k) => Shows(waiters[k][2])'
    BY <1>0, <1>2 DEF Channels
  <2> QED  BY <1>0, <1>1, <2>1, <2>2 DEF Channels
<1>5. Sorted(socket')
  BY <1>0, <1>1, <1>2 DEF Sorted, InOrder, Channels
<1>6. \A d : Shows(d) /\ Before(d, socket) => Before(d, socket')
  BY <1>1, <1>2 DEF Before
<1>7. InOrder'
  BY <1>0, <1>5, <1>6 DEF InOrder, Channels, PageRight, PageTypes
<1>8. Newest'
  <2>1. CASE packet[1] = "SYNC"
    <3>1. LastIs(socket', Text')
      BY <1>1, <2>1 DEF LastIs
    <3> QED  BY <1>0, <3>1 DEF Newest
  <2>2. CASE packet[1] # "SYNC"
    <3>1. LastIs(socket, Text) => LastIs(socket', Text')
      BY <1>1, <2>2 DEF LastIs
    <3>2. NoText(socket) => NoText(socket')
      BY <1>1, <2>2 DEF NoText
    <3> QED  BY <1>0, <2>2, <3>1, <3>2 DEF Newest
  <2> QED  BY <2>1, <2>2
<1>9. PageRight'
  BY <1>0, PageKept
<1> QED  BY <1>4, <1>7, <1>8, <1>9 DEF IInv

-----------------------------------------------------------------------------
(* Steps of the page. *)

\* The flag of a text is the first slot that it leaves empty.
LEMMA FlagIsFirstEmpty ==
  ASSUME NEW d, Shows(d)
  PROVE  /\ Flag(d) \in 0 .. Turns /\ \A i \in Slots : d.List[i] # Empty <=> i < Flag(d)
         /\ d.Status = "WAIT" => Flag(d) = 0
<1>1. PICK n \in 0 .. Turns : /\ \A i \in Slots : d.List[i] # Empty <=> i < n
                              /\ d.Status = "WAIT" => n = 0
  BY DEF Shows
<1>2. Slots = 0 .. Turns - 1 /\ Turns \in Nat
  BY DEF Slots, Turns
<1>3. {i \in Slots : d.List[i] # Empty} = 0 .. n - 1
  BY <1>1, <1>2
<1>4. Cardinality(0 .. n - 1) = n
  <2>1. 0 \in Int /\ n - 1 \in Int
    BY <1>2
  <2>2. Cardinality(0 .. n - 1) = IF 0 > n - 1 THEN 0 ELSE (n - 1) - 0 + 1
    BY <2>1, FS_Interval
  <2> QED  BY <1>2, <2>2
<1> QED  BY <1>1, <1>3, <1>4 DEF Flag

\* NoSync is not a text.
LEMMA NoSyncIsNone == /\ NoSync.Status = "NONE"
                      /\ \A d : Shows(d) => d # NoSync /\ d.Status \in {"WAIT", "BAN", "PICK", "END"}
<1>1. NoSync.Status = "NONE"
  BY DEF NoSync
<1>2. ASSUME NEW d, Shows(d)  PROVE d.Status \in {"WAIT", "BAN", "PICK", "END"}
  BY <1>2 DEF Shows, Texts
<1> QED  BY <1>1, <1>2

\* A text is drawn that is not older than the one before, unless this is noted.
LEMMA DrawStep ==
  ASSUME PageRight, NEW d, Shows(d), d.Status # "END", Text' = Text,
         passed' \in BOOLEAN, passed => passed',
         SyncData # NoSync /\ ~passed' => Within(SyncData, d),
         SyncData' = d, icon' = Drawn(d), hidden' = hidden \cup isChoose(d),
         active' = active \ isChoose(d), DrawWatched(d),
         NowChoose' = CloseChoosebox(d.nowCtrl), UNCHANGED <<watched, pic, overtook>>
  PROVE  PageRight'
<1>0. /\ PageTypes /\ IconsTrue /\ Buttons /\ IconsOfText /\ LastAsked /\ MarkRight
  BY DEF PageRight
<1>1. /\ d.List \in [Slots -> Hero \cup {Empty}] /\ d.Status \in {"WAIT", "BAN", "PICK"}
      /\ d.Status # "WAIT" <=> d.nowCtrl \in Teams
      /\ \A i \in Slots : d.List[i] # Empty => d.List[i] \in Hero /\ slot[i] = d.List[i]
  <2>1. d \in Texts /\ Within(d, Text) /\ Text.List = slot /\ (d.Status # "WAIT" <=> d.nowCtrl \in Teams)
    BY DEF Shows, Text
  <2>2. d.List \in [Slots -> Hero \cup {Empty}] /\ d.Status \in {"WAIT", "BAN", "PICK", "END"}
    BY <2>1 DEF Texts
  <2> QED  BY <2>1, <2>2 DEF Within
<1>2. /\ Flag(d) \in 0 .. Turns /\ \A i \in Slots : d.List[i] # Empty <=> i < Flag(d)
      /\ d.Status = "WAIT" => Flag(d) = 0
  BY FlagIsFirstEmpty
<1>3. SyncData # NoSync => /\ Flag(SyncData) \in 0 .. Turns
                           /\ \A i \in Slots : SyncData.List[i] # Empty <=> i < Flag(SyncData)
  BY <1>0, FlagIsFirstEmpty DEF PageTypes
<1>4. /\ icon' \in [Slots -> Hero \cup {Empty}]
      /\ \A i \in Slots : icon'[i] = IF d.List[i] # Empty THEN d.List[i] ELSE icon[i]
  <2>1. icon \in [Slots -> Hero \cup {Empty}]
    BY <1>0 DEF PageTypes
  <2>2. \A i \in Slots : icon'[i] = IF d.Status # "WAIT" /\ d.List[i] # Empty
                                     THEN d.List[i] ELSE icon[i]
    BY DEF Drawn
  <2>3. d.Status = "WAIT" => \A i \in Slots : d.List[i] = Empty
    BY <1>2 DEF Slots
  <2>4. icon' \in [Slots -> Hero \cup {Empty}]
    BY <1>1, <2>1 DEF Drawn
  <2> QED  BY <2>2, <2>3, <2>4
<1>5. isChoose(d) \subseteq Hero /\ \A h \in isChoose(d) : \E i \in Slots : slot[i] = h
  BY <1>1 DEF isChoose
<1>6. ~passed' /\ SyncData # NoSync =>
        /\ Within(SyncData, d) /\ (SyncData.Status # "WAIT" => d.Status # "WAIT")
        /\ \A i \in Slots : SyncData.List[i] # Empty => d.List[i] # Empty
  BY DEF Within
<1>7. watched # None => watched \in Slots
  BY <1>0 DEF PageTypes
<1>8. NowChoose' \in Hero \cup {-1} /\ (d.Status # "WAIT" => NowChoose' = -1)
  BY <1>0, <1>1 DEF PageTypes, CloseChoosebox
<1>9. slot' = slot
  BY DEF Text
<1>a. /\ loads' \in Seq(Hero) /\ marked' \in BOOLEAN
      /\ (loads' = loads /\ (watched # None => icon'[watched] = icon[watched]))
         \/ (/\ watched # None /\ d.List[watched] # Empty
             /\ loads' # <<>> /\ loads'[Len(loads')] = d.List[watched])
  <2>1. loads \in Seq(Hero) /\ marked \in BOOLEAN
    BY <1>0 DEF PageTypes
  <2>2. CASE UNCHANGED <<loads, marked>> /\ (watched # None => icon'[watched] = icon[watched])
    BY <2>1, <2>2
  <2>3. CASE /\ watched # None /\ d.List[watched] # Empty
             /\ loads' = Append(loads, d.List[watched]) /\ marked' = FALSE
    <3>1. d.List[watched] \in Hero
      BY <1>1, <1>7, <2>3
    <3>2. /\ loads' \in Seq(Hero) /\ loads' # <<>> /\ Len(loads') = Len(loads) + 1
          /\ loads'[Len(loads) + 1] = d.List[watched]
      BY <2>1, <2>3, <3>1, AppendProperties
    <3> QED  BY <2>3, <3>2
  <2>4. CASE marked' = TRUE /\ UNCHANGED loads /\ icon'[watched] = icon[watched]
    BY <2>1, <2>4
  <2>5. d.Status = "WAIT" => \A i \in Slots : d.List[i] = Empty
    BY <1>2 DEF Slots
  <2>6. watched = None \/ (watched \in Slots /\ d.List[watched] = Empty) =>
          (watched # None => icon'[watched] = icon[watched])
    BY <1>4
  <2>7. CASE watched = None \/ d.Status = "WAIT"
    BY <1>7, <2>2, <2>5, <2>6, <2>7 DEF DrawWatched
  <2>8. CASE watched # None /\ d.Status # "WAIT" /\ d.List[watched] # Empty
    BY <1>4, <1>7, <2>2, <2>3, <2>8 DEF DrawWatched, SetChoose
  <2>9. CASE watched # None /\ d.Status # "WAIT" /\ d.List[watched] = Empty
    BY <1>7, <2>2, <2>4, <2>6, <2>9 DEF DrawWatched, SetReady
  <2> QED  BY <2>7, <2>8, <2>9
<1>11. PageTypes'
  <2>1. Shows(d)'
    BY DEF Shows
  <2>2. active' \cup hidden' \subseteq Hero
    BY <1>0, <1>5 DEF PageTypes
  <2> QED  BY <1>0, <1>4, <1>8, <1>a, <2>1, <2>2 DEF PageTypes
<1>12. IconsTrue'
  <2>1. \A i \in Slots : icon'[i] # Empty => icon'[i] = slot[i]
    BY <1>0, <1>1, <1>4 DEF IconsTrue
  <2>2. \A h \in hidden' : \E i \in Slots : slot[i] = h
    BY <1>0, <1>5 DEF IconsTrue
  <2> QED  BY <1>9, <2>1, <2>2 DEF IconsTrue
<1>13. Buttons'
  BY <1>0, <1>1, <1>8 DEF Buttons, Turn, isChoose
<1>14. IconsOfText'
  BY <1>0, <1>4, <1>6, NoSyncIsNone DEF IconsOfText
<1>15. LastAsked'
  BY <1>0, <1>4, <1>7, <1>a DEF LastAsked
<1>16. MarkRight'
  <2> SUFFICES ASSUME watched # None, ~passed'
               PROVE  marked' <=> d.Status # "WAIT" /\ Flag(d) = watched
    BY <1>1 DEF MarkRight, Turn, Flag
  <2>0. ~passed /\ watched \in Slots
    BY <1>0, <1>7 DEF PageTypes
  <2>1. CASE d.Status = "WAIT"
    <3>1. ~Turn
      BY <1>0, <1>6, <2>0, <2>1, NoSyncIsNone DEF Turn
    <3>2. ~marked /\ marked' = marked
      BY <1>0, <2>0, <2>1, <3>1 DEF MarkRight, DrawWatched
    <3> QED  BY <2>1, <3>2
  <2>2. CASE d.Status # "WAIT" /\ d.List[watched] # Empty
    <3>1. Flag(d) # watched
      BY <1>2, <2>0, <2>2 DEF Slots
    <3>2. CASE d.List[watched] = icon[watched]
      <4>1. SyncData # NoSync /\ SyncData.List[watched] # Empty
        BY <1>0, <2>0, <2>2, <3>2 DEF IconsOfText
      <4>2. Flag(SyncData) # watched
        BY <1>3, <2>0, <4>1 DEF Slots
      <4>3. ~marked /\ marked' = marked
        BY <1>0, <2>0, <2>2, <3>2, <4>2 DEF MarkRight, DrawWatched, SetChoose
      <4> QED  BY <3>1, <4>3
    <3>3. CASE d.List[watched] # icon[watched]
      BY <2>0, <2>2, <3>1, <3>3 DEF DrawWatched, SetChoose
    <3> QED  BY <3>2, <3>3
  <2>3. CASE d.Status # "WAIT" /\ d.List[watched] = Empty /\ Flag(d) = watched
    BY <2>0, <2>3 DEF DrawWatched, SetReady
  <2>4. CASE d.Status # "WAIT" /\ d.List[watched] = Empty /\ Flag(d) # watched
    <3>1. Flag(d) < watched /\ Flag(d) \in Slots
      BY <1>2, <2>0, <2>4 DEF Slots
    <3>2. SyncData # NoSync => Flag(SyncData) # watched
      BY <1>2, <1>3, <1>6, <2>0, <3>1 DEF Slots
    <3>3. ~marked
      BY <1>0, <2>0, <3>2, NoSyncIsNone DEF MarkRight, Turn
    <3>4. marked' = marked
      BY <2>0, <2>4 DEF DrawWatched
    <3> QED  BY <2>4, <3>3, <3>4
  <2> QED  BY <2>1, <2>2, <2>3, <2>4
<1> QED  BY <1>11, <1>12, <1>13, <1>14, <1>15, <1>16 DEF PageRight

\* A preview asks for a picture only where no hero is.
LEMMA SetPreViewStep ==
  ASSUME PageRight, NEW num \in Hero, SetPreView(num), Text' = Text,
         passed' \in BOOLEAN, passed => passed'
  PROVE  PageRight'
<1>0. /\ PageTypes /\ IconsTrue /\ Buttons /\ IconsOfText /\ LastAsked /\ MarkRight
      /\ UNCHANGED <<SyncData, NowChoose, icon, hidden, active, watched, pic, marked, overtook>>
      /\ slot' = slot
  BY DEF PageRight, SetPreView, Text
<1>1. loads \in Seq(Hero)
  BY <1>0 DEF PageTypes
<1>2. loads' \in Seq(Hero)
  BY <1>1, AppendProperties DEF SetPreView
<1>3. PageTypes'
  <2>1. Shows(SyncData) => Shows(SyncData)'
    BY <1>0 DEF Shows
  <2> QED  BY <1>0, <1>2, <2>1 DEF PageTypes
<1>4. IconsTrue' /\ Buttons' /\ IconsOfText' /\ MarkRight'
  BY <1>0 DEF IconsTrue, Buttons, IconsOfText, MarkRight, Turn, isChoose, Flag
<1>5. LastAsked'
  <2>1. CASE loads' = loads
    BY <1>0, <2>1 DEF LastAsked
  <2>2. CASE loads' # loads
    <3>1. SyncData.Status \in {"BAN", "PICK"} /\ Flag(SyncData) = watched
      BY <2>2 DEF SetPreView
    <3>2. Shows(SyncData) /\ SyncData # NoSync
      BY <1>0, <3>1, NoSyncIsNone DEF PageTypes
    <3>3. watched \in Slots => SyncData.List[watched] = Empty
      BY <3>1, <3>2, FlagIsFirstEmpty DEF Slots
    <3> QED  BY <1>0, <3>2, <3>3 DEF LastAsked, IconsOfText, PageTypes
  <2> QED  BY <2>1, <2>2
<1> QED  BY <1>3, <1>4, <1>5 DEF PageRight

\* A text or a preview is shown.
LEMMA ShowStep ==
  ASSUME PageRight, NEW packet \in Packets, Show(packet), Text' = Text,
         passed' \in BOOLEAN, passed => passed',
         packet[1] = "SYNC" => Shows(packet[2]),
         packet[1] = "SYNC" /\ SyncData # NoSync /\ ~passed' => Within(SyncData, packet[2])
  PROVE  /\ PageRight'
         /\ packet[1] = "SYNC" => \/ SyncData' = packet[2]
                                  \/ SyncData' = SyncData /\ gone'
         /\ packet[1] # "SYNC" => UNCHANGED <<SyncData, gone>>
<1>1. CASE packet[1] = "SYNC" /\ packet[2].Status # "END"
  <2>0. PICK d : d = packet[2]
    OBVIOUS
  <2>1. Draw(d) /\ Shows(d) /\ d.Status # "END"
    BY <1>1, <2>0 DEF Show
  <2>2. SyncData # NoSync /\ ~passed' => Within(SyncData, d)
    BY <1>1, <2>0
  <2>3. PageRight' /\ SyncData' = d
    BY <2>1, <2>2, DrawStep DEF Draw
  <2> QED  BY <1>1, <2>0, <2>3
<1>2. CASE packet[1] = "SYNC" /\ packet[2].Status = "END"
  <2>1. UNCHANGED <<SyncData, NowChoose, shown>> /\ gone' = TRUE
    BY <1>2 DEF Show, Draw
  <2>2. PageTypes'
    <3>1. Shows(SyncData) => Shows(SyncData)'
      BY <2>1 DEF Shows
    <3> QED  BY <2>1, <3>1 DEF PageRight, PageTypes, shown, picture
  <2>3. IconsTrue' /\ Buttons' /\ IconsOfText' /\ LastAsked' /\ MarkRight'
    BY <2>1 DEF PageRight, IconsTrue, Buttons, IconsOfText, LastAsked, MarkRight, Turn,
                isChoose, Flag, Text, shown, picture
  <2> QED  BY <1>2, <2>1, <2>2, <2>3 DEF PageRight
<1>3. CASE packet[1] # "SYNC"
  <2>1. packet[1] = "PREVIEW" /\ SetPreView(packet[2])
    BY <1>3 DEF Show
  <2>2. packet[2] \in Hero
    BY <2>1 DEF Packets
  <2>3. PageRight'
    BY <2>1, <2>2, SetPreViewStep
  <2> QED  BY <1>3, <2>1, <2>3 DEF SetPreView
<1> QED  BY <1>1, <1>2, <1>3

\* When the oldest text of a channel is taken, the others are newer; or it was the last.
LEMMA TakeText ==
  ASSUME NEW c \in Seq(Packets), NEW i, NEW r, Sorted(c), Shorter(c, i, r), IsText(c, i),
         \A j : IsText(c, j) => j >= i
  PROVE  /\ Before(c[i][2], r)
         /\ \A d : LastIs(c, d) => LastIs(r, d) \/ (NoText(r) /\ c[i][2] = d)
<1>1. \A k : IsText(r, k) => \E j : IsText(c, j) /\ j # i /\ r[k] = c[j]
  BY DEF Shorter
<1>2. \A j : IsText(c, j) => j \in Nat
  BY LenProperties DEF IsText
<1>3. ASSUME NEW k, IsText(r, k)  PROVE Within(c[i][2], r[k][2])
  <2>1. PICK j : IsText(c, j) /\ j # i /\ r[k] = c[j]
    BY <1>1, <1>3
  <2>2. i < j
    BY <1>2, <2>1
  <2>3. Within(c[i][2], c[j][2])
    BY <2>1, <2>2 DEF Sorted
  <2> QED  BY <2>1, <2>3
<1>4. ASSUME \A j : IsText(c, j) => j <= i  PROVE NoText(r)
  BY <1>1, <1>2, <1>4 DEF NoText
<1> QED  BY <1>3, <1>4 DEF Shorter, Before

\* The first packet of the socket is shown.
LEMMA ShowHead ==
  ASSUME IInv, ~gone, Text' = Text, NEW packet \in Packets, Show(packet),
         1 \in DOMAIN socket, socket[1] = packet, \A k : IsText(socket, k) => k >= 1,
         socket' \in Seq(Packets), Shorter(socket, 1, socket'),
         passed' = (passed \/ (packet[1] = "SYNC" /\ Older(Len(waiters) + 1))),
         RoomRight', UNCHANGED <<linked, connected, waiters>>
  PROVE  IInv'
<1>0. /\ RoomRight /\ Channels /\ InOrder /\ Newest /\ PageRight /\ PageTypes
      /\ socket \in Seq(Packets) /\ waiters \in Seq(Packets)
  BY DEF IInv, Channels, PageRight
<1>1. packet[1] = "SYNC" <=> IsText(socket, 1)
  BY DEF IsText
<1>2. passed' \in BOOLEAN /\ (passed => passed')
  BY <1>0 DEF PageTypes
<1>3. packet[1] = "SYNC" => Shows(packet[2])
  BY <1>0, <1>1 DEF Channels
<1>4. packet[1] = "SYNC" /\ SyncData # NoSync /\ ~passed' => Within(SyncData, packet[2])
  BY <1>0, <1>1, <1>2 DEF InOrder, Before
<1>5. /\ PageRight'
      /\ packet[1] = "SYNC" => \/ SyncData' = packet[2]
                               \/ SyncData' = SyncData /\ gone'
      /\ packet[1] # "SYNC" => UNCHANGED <<SyncData, gone>>
  BY <1>0, <1>2, <1>3, <1>4, ShowStep
<1>6. packet[1] = "SYNC" /\ ~passed' => NoText(waiters)
  <2> SUFFICES ASSUME packet[1] = "SYNC", ~passed', NEW k, IsText(waiters, k)
               PROVE  FALSE
    BY DEF NoText
  <2>1. k \in 1 .. Len(waiters) /\ Len(waiters) \in Nat /\ waiters[k][1] = "SYNC"
    BY <1>0, LenProperties DEF IsText
  <2>2. k \in 1 .. (Len(waiters) + 1) - 1
    BY <2>1
  <2> QED  BY <2>1, <2>2 DEF Older
<1>7. packet[1] = "SYNC" =>
        /\ Before(packet[2], socket')
        /\ \A d : LastIs(socket, d) => LastIs(socket', d) \/ (NoText(socket') /\ packet[2] = d)
  BY <1>0, <1>1, TakeText DEF InOrder
<1>8. \A k : IsText(socket', k) => \E j : IsText(socket, j) /\ socket'[k] = socket[j]
  BY DEF Shorter
<1>9. \A d : Before(d, socket) => Before(d, socket')
  BY <1>8 DEF Before
<1>12. Channels'
  <2>1. \A k : IsText(socket', k) => Shows(socket[k][2])'
    <3>1. \A d : Shows(d) => Shows(d)'  BY DEF Shows
    <3> QED  BY <1>0, <1>8, <3>1 DEF Channels
  <2>2. \A k : IsText(waiters, k) => Shows(waiters[k][2])'
    BY <1>0 DEF Channels, Shows
  <2> QED  BY <1>0, <2>1, <2>2 DEF Channels
<1>13. InOrder'
  <2>1. Sorted(socket') /\ Sorted(waiters)
    BY <1>0 DEF InOrder, Shorter
  <2>2. \A k : IsText(waiters, k) => Before(waiters[k][2], socket')
    BY <1>0, <1>9 DEF InOrder
  <2>3. CASE packet[1] = "SYNC" /\ ~passed' /\ SyncData' = packet[2]
    <3>1. Before(SyncData', socket') /\ Before(SyncData', waiters)
      BY <1>6, <1>7, <2>3 DEF Before, NoText
    <3> QED  BY <2>1, <2>2, <3>1 DEF InOrder
  <2>4. CASE SyncData' = SyncData
    BY <1>0, <1>2, <1>9, <2>1, <2>2, <2>4 DEF InOrder
  <2>5. CASE passed'
    BY <2>1, <2>2, <2>5 DEF InOrder
  <2> QED  BY <1>5, <2>3, <2>4, <2>5
<1>14. Newest'
  <2> SUFFICES ASSUME Listening, ~gone', ~passed'
               PROVE  \/ LastIs(socket', Text)
                      \/ NoText(socket') /\ LastIs(waiters, Text)
                      \/ NoText(socket') /\ NoText(waiters) /\ SyncData' = Text
    BY DEF Newest, Listening
  <2>1. \/ LastIs(socket, Text)
        \/ NoText(socket) /\ LastIs(waiters, Text)
        \/ NoText(socket) /\ NoText(waiters) /\ SyncData = Text
    BY <1>0, <1>2 DEF Newest
  <2>2. CASE packet[1] = "SYNC"
    <3>1. LastIs(socket, Text)
      BY <1>1, <2>1, <2>2 DEF NoText
    <3>2. NoText(waiters) /\ SyncData' = packet[2]
      BY <1>5, <1>6, <2>2
    <3> QED  BY <1>7, <2>2, <3>1, <3>2
  <2>3. CASE packet[1] # "SYNC"
    <3>1. LastIs(socket, Text) => LastIs(socket', Text)
      BY <1>1, <2>3 DEF Shorter
    <3>2. NoText(socket) => NoText(socket')
      BY <1>8 DEF NoText
    <3> QED  BY <1>5, <2>1, <2>3, <3>1, <3>2
  <2> QED  BY <2>2, <2>3
<1> QED  BY <1>5, <1>12, <1>13, <1>14 DEF IInv

\* The first packet of the socket has to wait.
LEMMA WaitsForLink ==
  ASSUME IInv, Text' = Text, NEW packet,
         1 \in DOMAIN socket, socket[1] = packet, \A k : IsText(socket, k) => k >= 1,
         socket' \in Seq(Packets), Shorter(socket, 1, socket'),
         waiters' \in Seq(Packets), Longer(waiters, packet, waiters'),
         RoomRight', UNCHANGED <<linked, connected, SyncData, NowChoose, shown, gone, passed>>
  PROVE  IInv'
<1>0. /\ RoomRight /\ Channels /\ InOrder /\ Newest /\ PageRight /\ PageTypes
      /\ socket \in Seq(Packets) /\ waiters \in Seq(Packets)
  BY DEF IInv, Channels, PageRight
<1>1. PICK n \in Nat :
        /\ \A k : IsText(waiters, k) => k \in Nat /\ k < n /\ IsText(waiters', k) /\ waiters'[k] = waiters[k]
        /\ \A k : IsText(waiters', k) => IsText(waiters, k) \/ (k = n /\ packet[1] = "SYNC")
        /\ packet[1] = "SYNC" => IsText(waiters', n)
        /\ waiters'[n] = packet
  BY DEF Longer
<1>2. packet[1] = "SYNC" <=> IsText(socket, 1)
  BY DEF IsText
<1>3. packet[1] = "SYNC" =>
        /\ Before(packet[2], socket')
        /\ \A d : LastIs(socket, d) => LastIs(socket', d) \/ (NoText(socket') /\ packet[2] = d)
  BY <1>0, <1>2, TakeText DEF InOrder
<1>4. \A k : IsText(socket', k) => \E j : IsText(socket, j) /\ socket'[k] = socket[j]
  BY DEF Shorter
<1>5. \A d : Before(d, socket) => Before(d, socket')
  BY <1>4 DEF Before
<1>6. packet[1] = "SYNC" => Shows(packet[2])
  BY <1>0, <1>2 DEF Channels
<1>7. \A d : Shows(d) => Shows(d)'
  BY DEF Shows
<1>8. Channels'
  <2>1. \A k : IsText(socket', k) => Shows(socket[k][2])'
    BY <1>0, <1>4, <1>7 DEF Channels
  <2>2. \A k : IsText(waiters', k) => Shows(waiters[k][2])'
    BY <1>0, <1>1, <1>6, <1>7 DEF Channels
  <2> QED  BY <1>0, <2>1, <2>2 DEF Channels
<1>9. InOrder'
  <2>1. Sorted(socket')
    BY <1>0 DEF InOrder, Shorter
  <2>2. packet[1] = "SYNC" => \A k : IsText(waiters, k) => Within(waiters[k][2], packet[2])
    BY <1>0, <1>2 DEF InOrder, Before
  <2>3. Sorted(waiters')
    <3>1. Sorted(waiters)
      BY <1>0 DEF InOrder
    <3> SUFFICES ASSUME NEW j, NEW k, IsText(waiters', j), IsText(waiters', k), j < k
                 PROVE  Within(waiters'[j][2], waiters'[k][2])
      BY DEF Sorted
    <3>2. j \in Nat /\ k \in Nat /\ n \in Nat
      BY <1>1
    <3>3. IsText(waiters, j) /\ waiters'[j] = waiters[j]
      <4>1. IsText(waiters, k) \/ k = n
        BY <1>1
      <4> QED  BY <1>1, <3>2, <4>1
    <3>4. CASE IsText(waiters, k)
      BY <1>1, <3>1, <3>3, <3>4 DEF Sorted
    <3>5. CASE k = n /\ packet[1] = "SYNC"
      BY <1>1, <2>2, <3>3, <3>5
    <3> QED  BY <1>1, <3>4, <3>5
  <2>4. \A k : IsText(waiters', k) => Before(waiters'[k][2], socket')
    BY <1>0, <1>1, <1>3, <1>5 DEF InOrder
  <2>5. SyncData # NoSync /\ ~passed => Before(SyncData, socket') /\ Before(SyncData, waiters')
    <3>1. SyncData # NoSync /\ ~passed => Before(SyncData, socket) /\ Before(SyncData, waiters)
      BY <1>0 DEF InOrder
    <3>2. SyncData # NoSync /\ ~passed /\ packet[1] = "SYNC" => Within(SyncData, packet[2])
      BY <1>2, <3>1 DEF Before
    <3>3. SyncData # NoSync /\ ~passed => Before(SyncData, waiters')
      BY <1>1, <3>1, <3>2 DEF Before
    <3> QED  BY <1>5, <3>1, <3>3
  <2> QED  BY <2>1, <2>3, <2>4, <2>5 DEF InOrder
<1>10. Newest'
  <2> SUFFICES ASSUME Listening, ~gone, ~passed
               PROVE  \/ LastIs(socket', Text)
                      \/ NoText(socket') /\ LastIs(waiters', Text)
                      \/ NoText(socket') /\ NoText(waiters') /\ SyncData = Text
    BY DEF Newest, Listening
  <2>1. \/ LastIs(socket, Text)
        \/ NoText(socket) /\ LastIs(waiters, Text)
        \/ NoText(socket) /\ NoText(waiters) /\ SyncData = Text
    BY <1>0 DEF Newest
  <2>2. CASE packet[1] = "SYNC"
    <3>1. LastIs(socket, Text)
      BY <1>2, <2>1, <2>2 DEF NoText
    <3>2. packet[2] = Text => LastIs(waiters', Text)
      BY <1>1, <2>2 DEF LastIs
    <3> QED  BY <1>3, <2>2, <3>1, <3>2
  <2>3. CASE packet[1] # "SYNC"
    <3>1. LastIs(socket, Text) => LastIs(socket', Text)
      BY <1>2, <2>3 DEF Shorter
    <3>2. NoText(socket) => NoText(socket')
      BY <1>4 DEF NoText
    <3>3. LastIs(waiters, Text) => LastIs(waiters', Text)
      BY <1>1, <2>3 DEF LastIs
    <3>4. NoText(waiters) => NoText(waiters')
      BY <1>1, <2>3 DEF NoText
    <3> QED  BY <2>1, <3>1, <3>2, <3>3, <3>4
  <2> QED  BY <2>2, <2>3
<1>11. Within(Text, Text') /\ PageRight'
  <2>1. Within(Text, Text')
    BY DEF Within
  <2> QED  BY <1>0, <2>1, PageKept
<1> QED  BY <1>8, <1>9, <1>10, <1>11 DEF IInv

\* A packet that waited is shown.
LEMMA WaitStep ==
  ASSUME IInv, ~gone, Text' = Text, NEW i \in DOMAIN waiters, Show(waiters[i]),
         waiters' \in Seq(Packets), Shorter(waiters, i, waiters'),
         passed' = (passed \/ (waiters[i][1] = "SYNC" /\ Older(i))),
         RoomRight', UNCHANGED <<linked, connected, socket>>
  PROVE  IInv'
<1>0. /\ RoomRight /\ Channels /\ InOrder /\ Newest /\ PageRight /\ PageTypes
      /\ socket \in Seq(Packets) /\ waiters \in Seq(Packets)
  BY DEF IInv, Channels, PageRight
<1>1. PICK packet \in Packets : packet = waiters[i]
  BY <1>0, ElementOfSeq, LenProperties
<1>2. packet[1] = "SYNC" <=> IsText(waiters, i)
  BY <1>1 DEF IsText
<1>3. passed' \in BOOLEAN /\ (passed => passed')
  BY <1>0 DEF PageTypes
<1>4. packet[1] = "SYNC" => Shows(packet[2])
  BY <1>0, <1>1, <1>2 DEF Channels
<1>5. packet[1] = "SYNC" /\ SyncData # NoSync /\ ~passed' => Within(SyncData, packet[2])
  BY <1>0, <1>1, <1>2, <1>3 DEF InOrder, Before
<1>6. /\ PageRight'
      /\ packet[1] = "SYNC" => \/ SyncData' = packet[2]
                               \/ SyncData' = SyncData /\ gone'
      /\ packet[1] # "SYNC" => UNCHANGED <<SyncData, gone>>
  <2>1. Show(packet)
    BY <1>1
  <2> QED  BY <1>0, <1>3, <1>4, <1>5, <2>1, ShowStep
<1>7. packet[1] = "SYNC" /\ ~passed' => \A k : IsText(waiters, k) => k >= i
  <2> SUFFICES ASSUME packet[1] = "SYNC", ~passed', NEW k, IsText(waiters, k), ~(k >= i)
               PROVE  FALSE
    OBVIOUS
  <2>1. k \in 1 .. Len(waiters) /\ i \in 1 .. Len(waiters) /\ waiters[k][1] = "SYNC"
    BY <1>0, LenProperties DEF IsText
  <2>2. Len(waiters) \in Nat
    BY <1>0, LenProperties
  <2>3. k \in 1 .. i - 1
    BY <2>1, <2>2
  <2> QED  BY <1>1, <2>1, <2>3 DEF Older
<1>8. packet[1] = "SYNC" /\ ~passed' =>
        /\ Before(packet[2], waiters')
        /\ \A d : LastIs(waiters, d) => LastIs(waiters', d) \/ (NoText(waiters') /\ packet[2] = d)
  BY <1>0, <1>1, <1>2, <1>7, TakeText DEF InOrder
<1>9. \A k : IsText(waiters', k) => \E j : IsText(waiters, j) /\ waiters'[k] = waiters[j]
  BY DEF Shorter
<1>10. \A d : Before(d, waiters) => Before(d, waiters')
  BY <1>9 DEF Before
<1>11. packet[1] = "SYNC" => Before(packet[2], socket)
  BY <1>0, <1>1, <1>2 DEF InOrder
<1>12. Channels'
  <2>0. \A d : Shows(d) => Shows(d)'
    BY DEF Shows
  <2>1. \A k : IsText(socket, k) => Shows(socket[k][2])'
    BY <1>0 DEF Channels, Shows
  <2>2. \A k : IsText(waiters', k) => Shows(waiters[k][2])'
    BY <1>0, <1>9, <2>0 DEF Channels
  <2> QED  BY <1>0, <2>1, <2>2 DEF Channels
<1>13. InOrder'
  <2>1. Sorted(socket) /\ Sorted(waiters')
    BY <1>0 DEF InOrder, Shorter
  <2>2. \A k : IsText(waiters', k) => Before(waiters'[k][2], socket)
    BY <1>0, <1>9 DEF InOrder
  <2>3. CASE packet[1] = "SYNC" /\ ~passed' /\ SyncData' = packet[2]
    BY <1>8, <1>11, <2>1, <2>2, <2>3 DEF InOrder
  <2>4. CASE SyncData' = SyncData
    BY <1>0, <1>3, <1>10, <2>1, <2>2, <2>4 DEF InOrder
  <2>5. CASE passed'
    BY <2>1, <2>2, <2>5 DEF InOrder
  <2> QED  BY <1>6, <2>3, <2>4, <2>5
<1>14. Newest'
  <2> SUFFICES ASSUME Listening, ~gone', ~passed'
               PROVE  \/ LastIs(socket, Text)
                      \/ NoText(socket) /\ LastIs(waiters', Text)
                      \/ NoText(socket) /\ NoText(waiters') /\ SyncData' = Text
    BY DEF Newest, Listening
  <2>1. \/ LastIs(socket, Text)
        \/ NoText(socket) /\ LastIs(waiters, Text)
        \/ NoText(socket) /\ NoText(waiters) /\ SyncData = Text
    BY <1>0, <1>3 DEF Newest
  <2>2. CASE packet[1] = "SYNC"
    BY <1>2, <1>6, <1>8, <2>1, <2>2 DEF NoText
  <2>3. CASE packet[1] # "SYNC"
    <3>1. LastIs(waiters, Text) => LastIs(waiters', Text)
      BY <1>2, <2>3 DEF Shorter
    <3>2. NoText(waiters) => NoText(waiters')
      BY <1>9 DEF NoText
    <3> QED  BY <1>6, <2>1, <2>3, <3>1, <3>2
  <2> QED  BY <2>2, <2>3
<1> QED  BY <1>6, <1>12, <1>13, <1>14 DEF IInv

-----------------------------------------------------------------------------
(* The actions. *)

\* Packet p is sent to the page.
LEMMA SendStep ==
  ASSUME IInv, RoomRight', Within(Text, Text'), UNCHANGED <<connected, page>>,
         linked' \in {"no", "listed", "answered", "refused"},
         NEW packet \in Packets, NEW s, s = Append(socket, packet), socket' = s,
         packet[1] = "SYNC" => packet[2] = Text',
         packet[1] # "SYNC" => Text' = Text /\ (Listening' => Listening)
  PROVE  IInv'
<1>1. socket \in Seq(Packets)
  BY DEF IInv, Channels
<1>2. s \in Seq(Packets) /\ Longer(socket, packet, s)
  BY <1>1, AppendTexts
<1>3. socket' \in Seq(Packets) /\ Longer(socket, packet, socket')
  BY <1>2
<1> QED  BY <1>3, Sends

\* The room is broadcast, to the page if it is linked.
LEMMA Broadcasts ==
  ASSUME IInv, RoomRight', Within(Text, Text'), broadcast, UNCHANGED <<linked, connected, page>>
  PROVE  IInv'
<1>0. /\ Channels /\ InOrder /\ Newest /\ PageRight
      /\ linked \in {"no", "listed", "answered", "refused"} /\ connected \in BOOLEAN
  BY DEF IInv, Channels
<1>1. CASE Listening
  <2>1. (RoomRight => Shows(Text) /\ Within(Text, Text) /\ Text # NoSync)'
    BY TextShows, PTL
  <2>2. Text' \in Texts
    BY <2>1 DEF Shows
  <2>3. PICK packet : packet = <<"SYNC", Text'>>
    OBVIOUS
  <2>4. packet \in Packets /\ packet[1] = "SYNC" /\ packet[2] = Text'
    BY <2>2, <2>3 DEF Packets
  <2>5. socket' = Append(socket, packet)
    BY <1>1, <2>3 DEF broadcast, Send
  <2> QED  BY <1>0, <2>4, <2>5, SendStep
<1>2. CASE ~Listening
  <2>1. ~Listening' /\ socket' = socket
    BY <1>2 DEF Listening, broadcast
  <2>2. UNCHANGED <<waiters, SyncData, gone, passed, NowChoose, shown>>
    BY DEF page
  <2>3. Channels' /\ InOrder' /\ Newest'
    BY <1>0, <2>1, <2>2, ChannelsKept
  <2>4. PageRight'
    BY <1>0, <2>2, PageKept
  <2> QED  BY <2>3, <2>4 DEF IInv
<1> QED  BY <1>1, <1>2

\* The clicks and the pictures leave the channels as they are.
LEMMA Clicks ==
  ASSUME IInv, RoomRight', PageRight', UNCHANGED <<draft, linked, connected, socket>>,
         UNCHANGED <<waiters, SyncData, gone, passed>>
  PROVE  IInv'
<1>1. Text' = Text /\ (Listening' => Listening)
  BY DEF Text, draft, Listening
<1>2. Within(Text, Text')
  BY <1>1 DEF Within
<1>3. Channels' /\ InOrder' /\ Newest'
  BY <1>1, <1>2, ChannelsKept DEF IInv, Channels
<1> QED  BY <1>3 DEF IInv

\* Somebody else's packet, or the clock.
LEMMA OthersStep == ASSUME IInv, Others  PROVE IInv'
<1>1. ASSUME NEW team \in Teams, Ready(team)  PROVE IInv'
  <2>1. RoomRight' /\ Within(Text, Text')
    BY <1>1, ReadyStep DEF IInv, Others
  <2> QED  BY <1>1, <2>1, Broadcasts DEF Others, Ready
<1>2. ASSUME NEW h \in Hero, nextProcess(h)  PROVE IInv'
  <2>1. RoomRight' /\ Within(Text, Text')
    BY <1>2, FillStep DEF IInv, Others
  <2> QED  BY <1>2, <2>1, Broadcasts DEF Others, nextProcess
<1> QED  BY <1>1, <1>2 DEF Others

\* The server handles what the check button has sent.
LEMMA ServeStep == ASSUME IInv, Serve  PROVE IInv'
<1>1. PICK packet \in sent :
        \/ packet[1] = "READY" /\ Ready(myTeam)
        \/ packet[1] = "CHOOSE" /\ Accepts(packet[2]) /\ nextProcess(packet[2])
        \/ UNCHANGED <<draft, socket>>
  BY DEF Serve
<1>2. sent' \subseteq sent /\ UNCHANGED <<linked, connected, page>>
  BY DEF Serve
<1>3. CASE packet[1] = "READY" /\ Ready(myTeam)
  <2>1. myTeam \in Teams
    BY <1>1, <1>3 DEF IInv, RoomRight
  <2>2. RoomRight' /\ Within(Text, Text')
    BY <1>2, <1>3, <2>1, ReadyStep DEF IInv
  <2> QED  BY <1>2, <1>3, <2>2, Broadcasts DEF Ready
<1>4. CASE packet[1] = "CHOOSE" /\ nextProcess(packet[2])
  <2>1. packet[2] \in Hero
    BY <1>1, <1>4 DEF IInv, RoomRight
  <2>2. PICK h \in Hero : nextProcess(h)
    BY <1>4, <2>1
  <2>3. RoomRight' /\ Within(Text, Text')
    BY <1>2, <2>2, FillStep DEF IInv
  <2> QED  BY <1>2, <2>2, <2>3, Broadcasts DEF nextProcess
<1>5. CASE UNCHANGED <<draft, socket>>
  <2>1. RoomRight'
    BY <1>2, <1>5 DEF IInv, RoomRight, draft
  <2>2. Text' = Text
    BY <1>5 DEF draft, Text
  <2>3. Within(Text, Text')
    BY <2>2 DEF Within
  <2>4. PageRight'
    BY <1>2, <2>3, PageKept DEF IInv, page
  <2> QED  BY <1>2, <1>5, <2>1, <2>4, Clicks DEF page
<1> QED  BY <1>1, <1>3, <1>4, <1>5

\* A packet that says nothing new about the draft, and the text as it is.
LEMMA TellStep ==
  ASSUME IInv, UNCHANGED <<draft, connected, sent, page>>,
         linked' \in {"no", "listed", "answered", "refused"},
         NEW packet \in Packets, socket' = Append(socket, packet),
         packet[1] = "SYNC" => packet[2] = Text,
         packet[1] # "SYNC" => (Listening' => Listening)
  PROVE  IInv'
<1>1. RoomRight' /\ Text' = Text
  BY DEF IInv, RoomRight, Text, draft
<1>2. Within(Text, Text')
  BY <1>1 DEF Within
<1> QED  BY <1>1, <1>2, SendStep

\* A captain previews.
LEMMA PreviewStep == ASSUME IInv, Preview  PROVE IInv'
<1>1. PICK h \in Hero : Send(<<"PREVIEW", h>>)
  BY DEF Preview
<1>2. PICK packet : packet = <<"PREVIEW", h>>
  OBVIOUS
<1>3. packet \in Packets /\ packet[1] # "SYNC" /\ socket' = Append(socket, packet)
  BY <1>1, <1>2 DEF Packets, Send
<1>4. UNCHANGED <<draft, linked, connected, sent, page>>
  BY DEF Preview
<1>5. linked \in {"no", "listed", "answered", "refused"} /\ (Listening' => Listening)
  BY <1>4 DEF IInv, Channels, Listening
<1> QED  BY <1>3, <1>4, <1>5, TellStep

\* Somebody else is linked.
LEMMA PlayerAddStep == ASSUME IInv, PlayerAdd  PROVE IInv'
<1>1. PICK packet : packet = <<"SYNC", Text>>
  OBVIOUS
<1>2. Text \in Texts
  BY TextShows DEF IInv, Shows
<1>3. packet \in Packets /\ packet[1] = "SYNC" /\ packet[2] = Text
  BY <1>1, <1>2 DEF Packets
<1>4. socket' = Append(socket, packet) /\ UNCHANGED <<draft, linked, connected, sent, page>>
  BY <1>1 DEF PlayerAdd, Send
<1>5. linked \in {"no", "listed", "answered", "refused"}
  BY DEF IInv, Channels
<1> QED  BY <1>3, <1>4, <1>5, TellStep

\* The page is listed, answered or refused.
LEMMA LinkRoomStep == ASSUME IInv, LinkRoom  PROVE IInv'
<1>0. UNCHANGED <<draft, connected, sent, page>>
  BY DEF LinkRoom
<1>1. CASE linked = "no" /\ linked' = "listed" /\ Send(<<"SYNC", Text>>)
  <2>1. PICK packet : packet = <<"SYNC", Text>>
    OBVIOUS
  <2>2. Text \in Texts
    BY TextShows DEF IInv, Shows
  <2>3. packet \in Packets /\ packet[1] = "SYNC" /\ packet[2] = Text
    BY <2>1, <2>2 DEF Packets
  <2>4. socket' = Append(socket, packet)
    BY <1>1, <2>1 DEF Send
  <2> QED  BY <1>0, <1>1, <2>3, <2>4, TellStep
<1>2. ASSUME NEW resCode \in {0, 1}, socket' = Append(socket, <<"LINK_ROOM", resCode>>),
             (linked = "listed" /\ linked' = "answered") \/ linked' = "refused"
      PROVE  IInv'
  <2>1. PICK packet : packet = <<"LINK_ROOM", resCode>>
    OBVIOUS
  <2>2. packet \in Packets /\ packet[1] # "SYNC" /\ socket' = Append(socket, packet)
    BY <1>2, <2>1 DEF Packets
  <2>3. Listening' => Listening
    BY <1>0, <1>2 DEF Listening
  <2> QED  BY <1>0, <1>2, <2>2, <2>3, TellStep
<1> QED  BY <1>1, <1>2 DEF LinkRoom

\* A packet comes: the answer, or one that is shown or waits for the answer.
LEMMA OnMessageStep == ASSUME IInv, onmessage  PROVE IInv'
<1>0. /\ ~gone /\ socket # <<>> /\ socket' = Tail(socket)
      /\ UNCHANGED <<draft, linked, connected, sent>>
  BY DEF onmessage
<1>1. socket \in Seq(Packets) /\ waiters \in Seq(Packets)
  BY DEF IInv, Channels
<1>2. /\ 1 \in DOMAIN socket /\ socket' = RemoveAt(socket, 1) /\ Head(socket) = socket[1]
      /\ \A k : IsText(socket, k) => k >= 1
  BY <1>0, <1>1, TailIsRemoveAt
<1>3. socket' \in Seq(Packets) /\ Shorter(socket, 1, socket')
  <2>1. RemoveAt(socket, 1) \in Seq(Packets) /\ Shorter(socket, 1, RemoveAt(socket, 1))
    BY <1>1, <1>2, RemoveIsShorter
  <2> QED  BY <1>2, <2>1
<1>4. PICK packet \in Packets : packet = socket[1]
  BY <1>1, <1>2, ElementOfSeq, LenProperties
<1>5. RoomRight' /\ Text' = Text
  BY <1>0 DEF IInv, RoomRight, Text, draft
<1>6. CASE packet[1] = "LINK_ROOM"
  <2>1. UNCHANGED <<SyncData, NowChoose, shown, waiters, passed>>
    BY <1>2, <1>4, <1>6 DEF onmessage, GetLinkCallBack
  <2>2. ~IsText(socket, 1)
    BY <1>4, <1>6 DEF IsText
  <2>3. Within(Text, Text') /\ (\A d : Shows(d) => Shows(d)')
    BY <1>5 DEF Within, Shows
  <2>4. PageRight'
    BY <2>1, <2>3, PageKept DEF IInv
  <2>5. \A k : IsText(socket', k) => \E j : IsText(socket, j) /\ socket'[k] = socket[j]
    BY <1>3 DEF Shorter
  <2>6. Channels'
    <3>1. \A k : IsText(socket', k) => Shows(socket[k][2])'
      BY <2>3, <2>5 DEF IInv, Channels
    <3>2. \A k : IsText(waiters, k) => Shows(waiters[k][2])'
      BY <2>1, <2>3 DEF IInv, Channels
    <3> QED  BY <1>0, <1>1, <1>3, <2>1, <3>1, <3>2 DEF IInv, Channels
  <2>7. InOrder'
    <3>1. \A d : Before(d, socket) => Before(d, socket')
      BY <2>5 DEF Before
    <3>2. Sorted(socket')
      BY <1>3 DEF IInv, InOrder, Shorter
    <3> QED  BY <2>1, <3>1, <3>2 DEF IInv, InOrder
  <2>8. Newest'
    <3>1. NoText(socket) => NoText(socket')
      BY <2>5 DEF NoText
    <3>2. LastIs(socket, Text) => LastIs(socket', Text)
      BY <1>3, <2>2 DEF Shorter
    <3> QED  BY <1>0, <1>5, <2>1, <3>1, <3>2 DEF IInv, Newest, Listening
  <2> QED  BY <1>5, <2>4, <2>6, <2>7, <2>8 DEF IInv
<1>7. CASE packet[1] # "LINK_ROOM"
  <2>1. CallBack(packet)
    BY <1>2, <1>4, <1>7 DEF onmessage
  <2>2. CASE isInit
    <3>1. /\ Show(packet) /\ waiters' = waiters
          /\ passed' = (passed \/ (packet[1] = "SYNC" /\ Older(Len(waiters) + 1)))
      BY <2>1, <2>2 DEF CallBack
    <3> HIDE DEF Show
    <3> QED  BY <1>0, <1>2, <1>3, <1>4, <1>5, <3>1, ShowHead
  <2>3. CASE ~isInit
    <3>1. /\ waiters' = Append(waiters, packet)
          /\ UNCHANGED <<SyncData, NowChoose, shown, gone, passed>>
      BY <2>1, <2>3 DEF CallBack
    <3>2. waiters' \in Seq(Packets) /\ Longer(waiters, packet, waiters')
      <4>1. PICK r : r = Append(waiters, packet)
        OBVIOUS
      <4>2. r \in Seq(Packets) /\ Longer(waiters, packet, r)
        BY <1>1, <4>1, AppendTexts
      <4> QED  BY <3>1, <4>1, <4>2
    <3> QED  BY <1>0, <1>2, <1>3, <1>4, <1>5, <3>1, <3>2, WaitsForLink
  <2> QED  BY <2>2, <2>3
<1> QED  BY <1>6, <1>7

\* A packet that waited is shown.
LEMMA WaitingStep == ASSUME IInv, Wait  PROVE IInv'
<1>1. PICK i \in DOMAIN waiters :
        /\ Show(waiters[i]) /\ waiters' = RemoveAt(waiters, i)
        /\ passed' = (passed \/ (waiters[i][1] = "SYNC" /\ Older(i)))
  BY DEF Wait
<1>2. ~gone /\ UNCHANGED <<draft, linked, connected, socket, sent>>
  BY DEF Wait
<1>3. waiters' \in Seq(Packets) /\ Shorter(waiters, i, waiters')
  <2>1. waiters \in Seq(Packets)
    BY DEF IInv, Channels
  <2>2. RemoveAt(waiters, i) \in Seq(Packets) /\ Shorter(waiters, i, RemoveAt(waiters, i))
    BY <2>1, RemoveIsShorter
  <2> QED  BY <1>1, <2>2
<1>4. RoomRight' /\ Text' = Text
  BY <1>2 DEF IInv, RoomRight, Text, draft
<1> QED  BY <1>1, <1>2, <1>3, <1>4, WaitStep

\* A picture has been loaded: the last one that was asked for stays the last.
LEMMA LoadedStep == ASSUME IInv, Loaded  PROVE IInv'
<1>1. PICK k \in DOMAIN loads : /\ pic' = loads[k] /\ loads' = RemoveAt(loads, k)
                                /\ overtook' = (overtook \/ k # 1)
  BY DEF Loaded
<1>2. UNCHANGED <<draft, linked, connected, socket, sent, isInit, SyncData, NowChoose,
                  icon, hidden, active, watched, marked, waiters, gone, passed>>
  BY DEF Loaded
<1>3. /\ PageTypes /\ IconsTrue /\ Buttons /\ IconsOfText /\ LastAsked /\ MarkRight
      /\ loads \in Seq(Hero)
  BY DEF IInv, PageRight, PageTypes
<1>4. /\ DOMAIN loads = 1 .. Len(loads) /\ Len(loads) \in Nat /\ k \in 1 .. Len(loads)
  BY <1>3, LenProperties
<1>5. /\ loads' \in Seq(Hero) /\ Len(loads') = Len(loads) - 1
      /\ \A i \in 1 .. Len(loads) - 1 : loads'[i] = loads[IF i < k THEN i ELSE i + 1]
  <2>1. PICK r : r = RemoveAt(loads, k)
    OBVIOUS
  <2>2. /\ r \in Seq(Hero) /\ Len(r) = Len(loads) - 1
        /\ \A i \in 1 .. Len(loads) - 1 : r[i] = loads[IF i < k THEN i ELSE i + 1]
    BY <1>3, <1>4, <2>1, RemoveAtProperties
  <2> QED  BY <1>1, <2>1, <2>2
<1>6. RoomRight' /\ Text' = Text /\ slot' = slot
  BY <1>2 DEF IInv, RoomRight, Text, draft
<1>7. PageTypes'
  <2>1. Shows(SyncData) => Shows(SyncData)'
    BY <1>2, <1>6 DEF Shows
  <2>2. overtook' \in BOOLEAN
    BY <1>1, <1>3 DEF PageTypes
  <2> QED  BY <1>2, <1>3, <1>5, <2>1, <2>2 DEF PageTypes
<1>8. IconsTrue' /\ Buttons' /\ IconsOfText' /\ MarkRight'
  BY <1>2, <1>3, <1>6 DEF IconsTrue, Buttons, IconsOfText, MarkRight, Turn, isChoose, Flag
<1>9. LastAsked'
  <2> SUFFICES ASSUME watched # None, ~passed, ~overtook', icon[watched] # Empty
               PROVE  IF loads' = <<>> THEN pic' = icon[watched]
                                       ELSE loads'[Len(loads')] = icon[watched]
    BY <1>2 DEF LastAsked
  <2>0. ~overtook /\ k = 1
    BY <1>1
  <2>1. k = 1 /\ ~overtook /\ Len(loads) >= 1
    BY <1>4, <2>0
  <2>2. loads[Len(loads)] = icon[watched]
    BY <1>3, <1>4, <2>1 DEF LastAsked
  <2>3. CASE Len(loads) = 1
    BY <1>1, <1>5, <2>1, <2>2, <2>3, EmptySeq
  <2>4. CASE Len(loads) > 1
    <3>1. Len(loads') = Len(loads) - 1 /\ Len(loads) - 1 \in 1 .. Len(loads) - 1
      BY <1>4, <1>5, <2>4
    <3>2. loads'[Len(loads) - 1] = loads[Len(loads)]
      BY <1>4, <1>5, <2>1, <2>4, <3>1
    <3>3. loads' # <<>>
      BY <2>4, <1>4, <3>1, EmptySeq
    <3> QED  BY <2>2, <3>1, <3>2, <3>3
  <2> QED  BY <1>4, <2>1, <2>3, <2>4
<1>10. PageRight'
  BY <1>7, <1>8, <1>9 DEF PageRight
<1> QED  BY <1>2, <1>6, <1>10, Clicks

\* A click on a hero, whose button can be seen: it is not drawn as taken.
LEMMA SetChooseboxStep == ASSUME IInv, NEW num \in Hero, SetChoosebox(num)  PROVE IInv'
<1>1. /\ num \in active /\ NowChoose' = num /\ SyncData # NoSync /\ SyncData.nowCtrl = myTeam
      /\ UNCHANGED <<draft, linked, connected, socket, sent, SyncData, shown, waiters, gone, passed>>
  BY DEF SetChoosebox
<1>2. /\ PageTypes /\ IconsTrue /\ Buttons /\ IconsOfText /\ LastAsked /\ MarkRight
  BY DEF IInv, PageRight
<1>3. RoomRight' /\ Text' = Text /\ slot' = slot
  BY <1>1 DEF IInv, RoomRight, Text, draft
<1>4. PageTypes'
  <2>1. Shows(SyncData) => Shows(SyncData)'
    BY <1>1, <1>3 DEF Shows
  <2> QED  BY <1>1, <1>2, <2>1 DEF PageTypes, shown, picture
<1>5. Buttons'
  BY <1>1, <1>2 DEF Buttons, Turn, isChoose, shown, picture
<1>6. IconsTrue' /\ IconsOfText' /\ LastAsked' /\ MarkRight'
  BY <1>1, <1>2, <1>3 DEF IconsTrue, IconsOfText, LastAsked, MarkRight, Turn, Flag, shown, picture
<1>7. PageRight'
  BY <1>4, <1>5, <1>6 DEF PageRight
<1> QED  BY <1>1, <1>3, <1>7, Clicks

\* The filter brings back no hero that is drawn as taken.
LEMMA FilterStep == ASSUME IInv, OnClick_filter  PROVE IInv'
<1>1. /\ active' \subseteq Hero \ hidden
      /\ UNCHANGED <<draft, linked, connected, socket, sent, isInit, SyncData, NowChoose,
                     icon, hidden, picture, waiters, gone, passed>>
  BY DEF OnClick_filter, Filter
<1>2. /\ PageTypes /\ IconsTrue /\ Buttons /\ IconsOfText /\ LastAsked /\ MarkRight
  BY DEF IInv, PageRight
<1>3. RoomRight' /\ Text' = Text /\ slot' = slot
  BY <1>1 DEF IInv, RoomRight, Text, draft
<1>4. PageTypes'
  <2>1. Shows(SyncData) => Shows(SyncData)'
    BY <1>1, <1>3 DEF Shows
  <2> QED  BY <1>1, <1>2, <2>1 DEF PageTypes, picture
<1>5. Buttons'
  BY <1>1, <1>2 DEF Buttons, Turn, isChoose
<1>6. IconsTrue' /\ IconsOfText' /\ LastAsked' /\ MarkRight'
  BY <1>1, <1>2, <1>3 DEF IconsTrue, IconsOfText, LastAsked, MarkRight, Turn, Flag, picture
<1>7. PageRight'
  BY <1>4, <1>5, <1>6 DEF PageRight
<1> QED  BY <1>1, <1>3, <1>7, Clicks

\* The check button sends what was chosen, and READY only for a team.
LEMMA CheckButtonStep == ASSUME IInv, OnCheckButton  PROVE IInv'
<1>1. UNCHANGED <<draft, linked, connected, socket, page>>
  BY DEF OnCheckButton
<1>2. \/ myTeam # -1 /\ sent' = {<<"READY", 0>>}
      \/ NowChoose \in Hero /\ sent' = {<<"CHOOSE", NowChoose>>}
  BY DEF OnCheckButton, IInv, PageRight, PageTypes
<1>3. /\ sent' \subseteq ({"READY"} \X {0}) \cup ({"CHOOSE"} \X Hero)
      /\ \A packet \in sent' : packet[1] = "READY" => myTeam \in Teams
  BY <1>2
<1>4. RoomRight' /\ Text' = Text
  BY <1>1, <1>3 DEF IInv, RoomRight, Text, draft
<1>5. Within(Text, Text')
  BY <1>4 DEF Within
<1>6. PageRight'
  BY <1>1, <1>5, PageKept DEF IInv, page
<1> QED  BY <1>1, <1>4, <1>6, Clicks DEF page

\* Without a connection nothing is on its way.
LEMMA OnCloseStep == ASSUME IInv, onclose  PROVE IInv'
<1>1. /\ connected' = FALSE /\ socket' = <<>> /\ sent' = {} /\ UNCHANGED <<draft, linked, page>>
  BY DEF onclose
<1>2. RoomRight' /\ Text' = Text
  BY <1>1 DEF IInv, RoomRight, Text, draft
<1>3. Within(Text, Text') /\ (\A d : Shows(d) => Shows(d)')
  BY <1>2 DEF Within, Shows
<1>4. PageRight'
  BY <1>1, <1>3, PageKept DEF IInv, page
<1>5. NoText(socket') /\ socket' \in Seq(Packets)
  BY <1>1, EmptySeq DEF NoText, IsText
<1>6. Channels'
  <2>1. \A k : IsText(waiters, k) => Shows(waiters[k][2])'
    BY <1>1, <1>3 DEF IInv, Channels, page
  <2> QED  BY <1>1, <1>5, <2>1 DEF IInv, Channels, NoText, page
<1>7. InOrder'
  BY <1>1, <1>5 DEF IInv, InOrder, Sorted, Before, NoText, page
<1>8. Newest'
  BY <1>1 DEF Newest, Listening
<1> QED  BY <1>2, <1>4, <1>6, <1>7, <1>8 DEF IInv

-----------------------------------------------------------------------------
(* The page, and the page of the result after it. *)

\* At first nothing is drawn, and nothing is on its way.
LEMMA Initial == Init => IInv
<1> SUFFICES ASSUME Init  PROVE IInv
  OBVIOUS
<1>1. /\ stage = "waiting" /\ slot = [i \in Slots |-> Empty] /\ filled = 0 /\ onMove = Order[0]
      /\ ready = {} /\ sent = {}
  BY DEF Init, Room!Init, Room!Slots, Slots
<1>2. Turns \in Nat \ {0} /\ 0 \in Slots
  BY DEF Turns, Slots
<1>3. RoomRight
  <2>1. onMove \in Teams
    BY <1>1, <1>2, OrderTeams
  <2> QED  BY <1>1, <1>2, <2>1 DEF RoomRight, Slots
<1>4. /\ linked = "no" /\ connected = TRUE /\ socket = <<>> /\ waiters = <<>>
      /\ SyncData = NoSync /\ NowChoose = -1
      /\ icon = [i \in Slots |-> Empty] /\ hidden = {} /\ active = Hero
      /\ watched \in Watched \cup {None}
      /\ pic = Empty /\ loads = <<>> /\ marked = FALSE /\ overtook = FALSE /\ passed = FALSE
  BY DEF Init
<1>5. NoText(socket) /\ NoText(waiters) /\ socket \in Seq(Packets) /\ waiters \in Seq(Packets)
      /\ loads \in Seq(Hero)
  BY <1>4, EmptySeq DEF NoText, IsText
<1>6. Channels /\ InOrder /\ Newest
  BY <1>4, <1>5 DEF Channels, InOrder, Newest, Sorted, Before, NoText, Listening
<1>7. ~Turn
  BY <1>4, NoSyncIsNone DEF Turn
<1>8. PageTypes
  BY <1>4, <1>5 DEF PageTypes, Slots
<1>9. IconsTrue /\ Buttons /\ IconsOfText /\ LastAsked /\ MarkRight
  BY <1>4, <1>7, <1>8 DEF IconsTrue, Buttons, IconsOfText, LastAsked, MarkRight, PageTypes
<1> QED  BY <1>3, <1>6, <1>8, <1>9 DEF IInv, PageRight

\* Every step of the page or around it.
LEMMA Step == ASSUME IInv, Next  PROVE IInv'
<1>1. CASE Others         BY <1>1, OthersStep
<1>2. CASE Serve          BY <1>2, ServeStep
<1>3. CASE Preview        BY <1>3, PreviewStep
<1>4. CASE PlayerAdd      BY <1>4, PlayerAddStep
<1>5. CASE LinkRoom       BY <1>5, LinkRoomStep
<1>6. CASE onmessage      BY <1>6, OnMessageStep
<1>7. CASE Wait           BY <1>7, WaitingStep
<1>8. CASE Loaded         BY <1>8, LoadedStep
<1>9. CASE onclose        BY <1>9, OnCloseStep
<1>10. ASSUME NEW num \in Hero, SetChoosebox(num)  PROVE IInv'
  BY <1>10, SetChooseboxStep
<1>11. CASE OnClick_filter  BY <1>11, FilterStep
<1>12. CASE OnCheckButton   BY <1>12, CheckButtonStep
<1> QED  BY <1>1, <1>2, <1>3, <1>4, <1>5, <1>6, <1>7, <1>8, <1>9, <1>10, <1>11, <1>12 DEF Next

\* Nothing that the page has drawn, or that is on its way to it, is read otherwise.
LEMMA StutterStep == ASSUME IInv, UNCHANGED vars  PROVE IInv'
<1>1. UNCHANGED <<draft, linked, connected, socket, sent, page>>
  BY DEF vars
<1>2. RoomRight' /\ Text' = Text
  BY <1>1 DEF IInv, RoomRight, Text, draft
<1>3. Within(Text, Text')
  BY <1>2 DEF Within
<1>4. PageRight'
  BY <1>1, <1>3, PageKept DEF IInv, page
<1> QED  BY <1>1, <1>2, <1>4, Clicks DEF page

\* The page of the result starts with nothing drawn; the draft page's connection is gone.
LEMMA OpenStep == ASSUME IInv, Open  PROVE IInv'
<1>1. /\ SyncData' = NoSync /\ NowChoose' = -1
      /\ icon' = [i \in Slots |-> Empty] /\ hidden' = {} /\ active' = Hero
      /\ pic' = Empty /\ loads' = <<>> /\ marked' = FALSE /\ waiters' = <<>>
      /\ connected' = FALSE /\ socket' = <<>> /\ sent' = {}
      /\ UNCHANGED <<draft, linked, watched, gone, passed, overtook>>
  BY DEF Open
<1>2. RoomRight' /\ slot' = slot
  BY <1>1 DEF IInv, RoomRight, draft
<1>3. /\ NoText(socket') /\ NoText(waiters') /\ socket' \in Seq(Packets)
      /\ waiters' \in Seq(Packets) /\ loads' \in Seq(Hero)
  BY <1>1, EmptySeq DEF NoText, IsText
<1>4. Channels' /\ InOrder' /\ Newest'
  BY <1>1, <1>3 DEF IInv, Channels, InOrder, Newest, Sorted, Before, NoText, Listening
<1>5. ~Turn'
  BY <1>1, NoSyncIsNone DEF Turn
<1>6. PageTypes'
  BY <1>1, <1>3 DEF IInv, PageRight, PageTypes
<1>7. IconsTrue' /\ Buttons' /\ IconsOfText' /\ LastAsked' /\ MarkRight'
  <2>1. watched' # None => watched' \in Slots
    BY <1>6 DEF PageTypes
  <2> QED  BY <1>1, <1>5, <2>1 DEF IconsTrue, Buttons, IconsOfText, LastAsked, MarkRight
<1> QED  BY <1>2, <1>4, <1>6, <1>7 DEF IInv, PageRight

\* The page of the result keeps a draft page that was left as it was.
LEMMA OutStep == ASSUME IInv, [OutNext]_outVars  PROVE IInv'
<1>1. CASE Next  BY <1>1, Step
<1>2. CASE Open  BY <1>2, OpenStep
<1>3. CASE UNCHANGED vars  BY <1>3, StutterStep
<1> QED  BY <1>1, <1>2, <1>3 DEF OutNext, OutLink, OutPlayerAdd, OutMessage, OutWait, OutClose, outVars

-----------------------------------------------------------------------------
(* What follows from the invariant. *)

\* An offer that the page can send is one that the room takes, if the text that is
\* drawn is the room as it is.
LEMMA OfferFollows == IInv => OfferIsLegal
<1> SUFFICES ASSUME IInv, NowChoose # -1, Turn
             PROVE  /\ SyncData.nowCtrl = myTeam /\ NowChoose \notin hidden
                    /\ SyncData = Text => Accepts(NowChoose)
  BY DEF OfferIsLegal, Turn
<1>1. SyncData.nowCtrl = myTeam /\ NowChoose \notin hidden /\ isChoose(SyncData) \subseteq hidden
  BY DEF IInv, PageRight, Buttons
<1>2. ASSUME SyncData = Text  PROVE Accepts(NowChoose)
  <2>1. stage = "drafting" /\ onMove = myTeam /\ SyncData.List = slot /\ SyncData.Status # "WAIT"
    BY <1>1, <1>2 DEF Turn, Text, IInv, RoomRight
  <2>2. \A i \in Slots : slot[i] = NowChoose => NowChoose \in {Empty, 0}
    BY <1>1, <2>1 DEF isChoose
  <2>3. NowChoose # Empty
    OBVIOUS
  <2>4. \A i \in Slots : slot[i] = NowChoose => NowChoose = 0
    BY <2>2, <2>3
  <2>5. Room!Slots = Slots
    BY DEF Room!Slots, Slots
  <2>6. Room!Free(NowChoose)
    BY <2>4, <2>5 DEF Room!Free
  <2> QED  BY <2>1, <2>6 DEF Accepts
<1> QED  BY <1>1, <1>2

\* When nothing is on its way, the last text that came is what is drawn.
LEMMA NewestFollows == IInv => SyncNewest
<1> SUFFICES ASSUME IInv, connected, ~gone, linked = "answered", socket = <<>>, waiters = <<>>, ~passed
             PROVE  SyncData = Text
  BY DEF SyncNewest
<1>1. \A k : ~IsText(socket, k) /\ ~IsText(waiters, k)
  BY DEF IsText
<1> QED  BY <1>1 DEF IInv, Newest, Listening, LastIs

\* The last picture that was asked for has come, and is the one on the icon.
LEMMA PictureFollows == IInv => PictureTrue
BY DEF IInv, PageRight, LastAsked, MarkRight, PictureTrue, Turn

\* The invariant holds of the page by itself, and when the page of the result follows.
THEOREM Invariance == (Spec => []IInv) /\ (OutSpec => []IInv)
<1>1. OutInit => Init
  BY DEF OutInit
<1>2. IInv /\ [Next]_vars => IInv'
  BY Step, StutterStep
<1>3. IInv /\ [OutNext]_outVars => IInv'
  BY OutStep
<1> QED  BY <1>1, <1>2, <1>3, Initial, PTL DEF Spec, OutSpec

\* Whatever order texts are drawn in, an icon shows the hero of its slot or none.
THEOREM IconsAreTrue == (Spec => []IconsTrue) /\ (OutSpec => []IconsTrue)
<1>1. IInv => IconsTrue
  BY DEF IInv, PageRight
<1> QED  BY <1>1, Invariance, PTL

\* In a turn the check button sends a choice of the team on the move, of a hero that
\* is not drawn as taken; and the room accepts it if the page has drawn it as it is.
THEOREM OffersAreLegal == (Spec => []OfferIsLegal) /\ (OutSpec => []OfferIsLegal)
BY OfferFollows, Invariance, PTL

\* When all pictures are there, in the order in which they were asked for, an icon
\* with a hero has its picture; and the mark is on the next slot only.
THEOREM PicturesAreTrue == (Spec => []PictureTrue) /\ (OutSpec => []PictureTrue)
BY PictureFollows, Invariance, PTL

\* When nothing is on its way, the page has drawn the room as it is.
THEOREM NewestIsDrawn == (Spec => []SyncNewest) /\ (OutSpec => []SyncNewest)
BY NewestFollows, Invariance, PTL
=============================================================================
