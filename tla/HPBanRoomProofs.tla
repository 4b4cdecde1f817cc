---------------------------- MODULE HPBanRoomProofs ----------------------------
(***************************************************************************)
(* Theorems about HPBanRoom, for every number of groups, every set of      *)
(* cards, connections and packets, and every length of the player list.    *)
(*                                                                         *)
(* The argument: what RoomJData holds is tied to the fields it was made    *)
(* from (Published), the groups are closed when their masked copy is made  *)
(* (BansOnTheFinalGroups), and every handler that changes what a SYNC says *)
(* ends in a SYNC (Current).  HiddenUntilEnd needs these, that a card goes *)
(* to members of its team only, that a reply goes to who asked, and that   *)
(* removing a connection from the list makes nobody else lose a team.      *)
(***************************************************************************)
EXTENDS HPBanRoom, SequenceTheorems, TLAPS

\* What RoomJData holds agrees with the fields it was made from.
Published ==
  /\ RoomJData.Status = status
  /\ RoomJData.Compose <=> status = "END"
  /\ status = "BAN" => RoomJData.NowCtrl = nowCtrl
  /\ status \in {"WAIT", "COMPOSE"} => nowCtrl = 0
  /\ RoomJData.BanList \/ banData = [t \in Teams |-> NoBan]

\* Every open, linked connection was sent the room as it now is.
Current == /\ DOMAIN view = Ctx
           /\ \A c \in Ctx : c \in online /\ Linked(c) => view[c] = Snapshot

\* A ban is one that a packet may carry, the default, or not made yet.
BansAreChosen == \A t \in Teams : banData[t] \in ChooseNums \cup {0, NoBan}

IInv == /\ TypeOK /\ ClockMatchesPhase /\ Published /\ BansOnTheFinalGroups
        /\ BansAreChosen /\ Current /\ HiddenUntilEnd

USE ComposeAssumption, NumsAssumption, JoinsAssumption, AsksAssumption
    DEF Teams, Watcher, NoBan, NoTurn

-----------------------------------------------------------------------------
(* What taking one entry out of a list leaves; SequencesExt defines        *)
(* RemoveAt, which the library's theorems do not mention.                  *)

\* Without entry k: the entries before it stay, those after it move down by one.
LEMMA RemoveAtProperties ==
  ASSUME NEW S, NEW s \in Seq(S), NEW k \in 1 .. Len(s)
  PROVE  /\ RemoveAt(s, k) \in Seq(S)
         /\ Len(RemoveAt(s, k)) = Len(s) - 1
         /\ \A i \in 1 .. Len(s) - 1 : RemoveAt(s, k)[i] = s[IF i < k THEN i ELSE i + 1]
<1> DEFINE a == SubSeq(s, 1, k - 1)
           b == SubSeq(s, k + 1, Len(s))
<1>1. Len(s) \in Nat /\ k \in 1 .. Len(s) /\ \A i \in 1 .. Len(s) : s[i] \in S
  BY ElementOfSeq, LenProperties
<1>2. a \in Seq(S) /\ Len(a) = k - 1 /\ \A i \in 1 .. k - 1 : a[i] = s[i]
  BY <1>1
<1>3. b \in Seq(S) /\ Len(b) = Len(s) - k /\ \A i \in 1 .. Len(s) - k : b[i] = s[k + i]
  BY <1>1
<1>4. RemoveAt(s, k) = a \o b
  BY DEF RemoveAt
<1> HIDE DEF a, b
<1>5. /\ a \o b \in Seq(S) /\ Len(a \o b) = Len(a) + Len(b)
      /\ \A i \in 1 .. Len(a) + Len(b) :
           (a \o b)[i] = IF i <= Len(a) THEN a[i] ELSE b[i - Len(a)]
  BY ONLY <1>2, <1>3, ConcatProperties
<1>6. \A i \in 1 .. Len(s) - 1 : (a \o b)[i] = IF i < k THEN a[i] ELSE b[i - (k - 1)]
  BY ONLY <1>1, <1>2, <1>3, <1>5
<1>7. ASSUME NEW i \in 1 .. Len(s) - 1
      PROVE  (a \o b)[i] = s[IF i < k THEN i ELSE i + 1]
  <2>1. CASE i < k
    BY ONLY <1>1, <1>2, <1>6, <2>1
  <2>2. CASE ~(i < k)
    <3>1. i - (k - 1) \in 1 .. Len(s) - k /\ k + (i - (k - 1)) = i + 1
      BY ONLY <1>1, <2>2
    <3> QED  BY ONLY <1>3, <1>6, <2>2, <3>1
  <2> QED  BY <2>1, <2>2
<1> QED  BY <1>1, <1>2, <1>3, <1>4, <1>5, <1>7

\* Its entries are entries of the list, and all of them but entry k.
LEMMA RemoveAtEntries ==
  ASSUME NEW S, NEW s \in Seq(S), NEW k \in DOMAIN s, NEW r, r = RemoveAt(s, k)
  PROVE  /\ r \in Seq(S)
         /\ \A i \in DOMAIN r : \E j \in DOMAIN s : r[i] = s[j]
         /\ \A j \in DOMAIN s : j # k => \E i \in DOMAIN r : r[i] = s[j]
<1>1. /\ DOMAIN s = 1 .. Len(s) /\ Len(s) \in Nat /\ k \in 1 .. Len(s)
  BY LenProperties
<1>2. /\ r \in Seq(S) /\ Len(r) = Len(s) - 1
      /\ \A i \in 1 .. Len(s) - 1 : r[i] = s[IF i < k THEN i ELSE i + 1]
  BY <1>1, RemoveAtProperties
<1>3. DOMAIN r = 1 .. Len(s) - 1
  BY <1>2, LenProperties
<1>4. ASSUME NEW i \in 1 .. Len(s) - 1
      PROVE  \E j \in 1 .. Len(s) : r[i] = s[j]
  <2>1. (IF i < k THEN i ELSE i + 1) \in 1 .. Len(s)
    BY <1>1
  <2> QED  BY <1>2, <2>1
<1>5. ASSUME NEW j \in 1 .. Len(s), j # k
      PROVE  \E i \in 1 .. Len(s) - 1 : r[i] = s[j]
  <2>1. CASE j < k
    <3>1. j \in 1 .. Len(s) - 1  BY <1>1, <2>1
    <3> QED  BY <1>2, <2>1, <3>1
  <2>2. CASE j > k
    <3>1. j - 1 \in 1 .. Len(s) - 1 /\ ~(j - 1 < k) /\ (j - 1) + 1 = j  BY <1>1, <2>2
    <3>2. r[j - 1] = s[j]  BY <1>2, <3>1
    <3> QED  BY <3>1, <3>2
  <2> QED  BY <1>1, <1>5, <2>1, <2>2
<1>6. \A i \in DOMAIN r : \E j \in DOMAIN s : r[i] = s[j]
  BY <1>1, <1>3, <1>4
<1>7. \A j \in DOMAIN s : j # k => \E i \in DOMAIN r : r[i] = s[j]
  BY <1>1, <1>3, <1>5
<1> QED  BY <1>2, <1>6, <1>7

-----------------------------------------------------------------------------
(* The list of players. *)

Entries == Ctx \X (Teams \cup {Watcher})

\* A connection that leaves links nobody, and takes nobody else from a team.
LEMMA LeaveStep ==
  ASSUME allPlayers \in Seq(Entries), NEW c, NEW k \in DOMAIN allPlayers,
         findPlayer(c, k), allPlayers' = RemoveAt(allPlayers, k)
  PROVE  /\ allPlayers' \in Seq(Entries)
         /\ \A d : Linked(d)' => Linked(d)
         /\ \A d, t : d # c /\ Member(d, t) => Member(d, t)'
<1>1. /\ allPlayers' \in Seq(Entries)
      /\ \A i \in DOMAIN allPlayers' : \E j \in DOMAIN allPlayers :
           allPlayers'[i] = allPlayers[j]
      /\ \A j \in DOMAIN allPlayers : j # k => \E i \in DOMAIN allPlayers' :
           allPlayers'[i] = allPlayers[j]
  BY RemoveAtEntries
<1>2. ASSUME NEW d, Linked(d)'  PROVE Linked(d)
  BY <1>1, <1>2 DEF Linked
<1>3. ASSUME NEW d, NEW t, d # c, Member(d, t)  PROVE Member(d, t)'
  <2>1. PICK j \in DOMAIN allPlayers : allPlayers[j] = <<d, t>>
    BY <1>3 DEF Member
  <2>2. j # k
    BY <1>3, <2>1 DEF findPlayer
  <2>3. \E i \in DOMAIN allPlayers' : allPlayers'[i] = <<d, t>>
    BY <1>1, <2>1, <2>2
  <2> QED  BY <2>3 DEF Member
<1> QED  BY <1>1, <1>2, <1>3

\* A new entry takes nobody from a team.
LEMMA EnterStep ==
  ASSUME allPlayers \in Seq(Entries), NEW e \in Entries,
         allPlayers' = Append(allPlayers, e)
  PROVE  /\ allPlayers' \in Seq(Entries)
         /\ \A d, t : Member(d, t) => Member(d, t)'
<1>1. /\ allPlayers' \in Seq(Entries) /\ Len(allPlayers') = Len(allPlayers) + 1
      /\ \A i \in 1 .. Len(allPlayers) : allPlayers'[i] = allPlayers[i]
  BY AppendProperties
<1>2. DOMAIN allPlayers = 1 .. Len(allPlayers) /\ DOMAIN allPlayers' = 1 .. Len(allPlayers')
      /\ Len(allPlayers) \in Nat
  BY <1>1, LenProperties
<1>3. \A i \in DOMAIN allPlayers : i \in DOMAIN allPlayers'
  BY <1>1, <1>2
<1> QED  BY <1>1, <1>2, <1>3 DEF Member

-----------------------------------------------------------------------------
(* The parts of the invariant, and the broadcast. *)

\* What is put at the key HideCompose, once it is put.
Masks == {NotPut} \cup [Teams -> [Places -> Int]]
Turns == {NoTurn} \cup 0 .. 2
Texts == [Status : {"WAIT", "COMPOSE", "BAN", "END"}, BanList : BOOLEAN,
          NowCtrl : Turns, Compose : BOOLEAN, HideCompose : Masks]

\* The types of what a SYNC tells.
RoomTypes ==
  /\ status \in {"WAIT", "COMPOSE", "BAN", "END"}
  /\ isReady \in [Teams -> BOOLEAN]
  /\ banData \in [Teams -> Int]
  /\ composeData \in [Teams -> [Places -> Nat]]
  /\ nowCtrl \in Teams
  /\ task \in {"none", "SetStatus", "nextProcess"}
  /\ RoomJData \in Texts

RoomInv == /\ RoomTypes /\ ClockMatchesPhase /\ Published /\ BansOnTheFinalGroups
           /\ BansAreChosen

\* The types of the players, and of what they were sent.
PlayerTypes == /\ allPlayers \in Seq(Entries) /\ online \subseteq Ctx
               /\ seen \in [Ctx -> SUBSET (Teams \X Places)]

PlayerInv == PlayerTypes /\ Current /\ HiddenUntilEnd

\* The invariant is a part about the room and a part about who is linked.
LEMMA Split == IInv <=> RoomInv /\ PlayerInv
BY DEF IInv, TypeOK, RoomInv, RoomTypes, PlayerInv, PlayerTypes, Entries, Masks, Turns, Texts

\* The records that the handlers put in place of RoomJData.
LEMMA TextsPut ==
  ASSUME NEW r \in Texts
  PROVE  /\ [r EXCEPT !.Status = "COMPOSE"] \in Texts
         /\ [r EXCEPT !.BanList = TRUE] \in Texts
         /\ \A n \in Turns : [r EXCEPT !.BanList = TRUE, !.NowCtrl = n] \in Texts
         /\ \A n \in Turns, h \in Masks :
              [r EXCEPT !.Status = "BAN", !.NowCtrl = n, !.HideCompose = h] \in Texts
         /\ \A n \in Turns :
              [r EXCEPT !.Status = "END", !.BanList = TRUE, !.NowCtrl = n,
                        !.Compose = TRUE] \in Texts
BY DEF Texts

\* After a broadcast everybody is up to date, and nobody knows too much.
LEMMA SyncStep ==
  ASSUME PlayerInv, Sync, RoomInv', status' # "END" => status # "END",
         online' = online, allPlayers' \in Seq(Entries),
         \A c, t : Member(c, t) => Member(c, t)'
  PROVE  PlayerInv'
<1>1. Told' \subseteq Teams \X Places
  BY DEF Told, Places, Groups
<1>2. PlayerTypes'
  <2>1. \A c \in Ctx : seen'[c] \subseteq seen[c] \cup Told'
    BY DEF Sync
  <2> QED  BY <1>1, <2>1 DEF PlayerInv, PlayerTypes, Sync
<1>3. Current'
  BY DEF Sync, Current, Hears
<1>4. HiddenUntilEnd'
  <2> SUFFICES ASSUME status' # "END", NEW c \in Ctx, NEW t \in Teams, NEW p \in Hidden,
                      <<t, p>> \in seen'[c]
               PROVE  Member(c, t)' \/ <<c, t>> \in Asks
    BY DEF HiddenUntilEnd, Hidden, Places, Groups
  <2>1. ~RoomJData'.Compose
    BY DEF RoomInv, Published
  <2>2. <<t, p>> \notin Told'
    <3>1. ~RoomJData'.Compose => \A u \in Teams, q \in Hidden : <<u, q>> \notin Told'
      BY DEF Told, Hidden, Places, Groups
    <3> QED  BY <2>1, <3>1
  <2>3. <<t, p>> \in seen[c]
    BY <2>2 DEF Sync
  <2>4. Member(c, t) \/ <<c, t>> \in Asks
    BY <2>3 DEF PlayerInv, HiddenUntilEnd
  <2> QED  BY <2>4
<1> QED  BY <1>2, <1>3, <1>4 DEF PlayerInv

\* A step that sends no SYNC needs none, when the text is what it was, nobody is
\* newly linked, and hidden cards go to members of their team or to who asks.
LEMMA QuietStep ==
  ASSUME PlayerInv, Snapshot' = Snapshot, view' = view, UNCHANGED <<status, players>>,
         seen' \in [Ctx -> SUBSET (Teams \X Places)],
         \A c \in Ctx, t \in Teams, p \in Places :
           <<t, p>> \in seen'[c] =>
             <<t, p>> \in seen[c] \/ Member(c, t) \/ <<c, t>> \in Asks
  PROVE  PlayerInv'
<1>1. \A c, t : Member(c, t)' <=> Member(c, t)
  BY DEF players, Member
<1>2. PlayerTypes'
  BY DEF PlayerInv, PlayerTypes, players
<1>5. Current'
  <2> SUFFICES ASSUME NEW c \in Ctx, c \in online', Linked(c)'
               PROVE  view'[c] = Snapshot'
    BY DEF PlayerInv, Current
  <2>1. Linked(c)
    BY DEF Linked, players
  <2>2. c \in online
    BY DEF players
  <2>3. view[c] = Snapshot
    BY <2>1, <2>2 DEF PlayerInv, Current
  <2> QED  BY <2>3
<1>3. HiddenUntilEnd'
  <2> SUFFICES ASSUME status' # "END", NEW c \in Ctx, NEW t \in Teams, NEW p \in Hidden,
                      <<t, p>> \in seen'[c]
               PROVE  Member(c, t)' \/ <<c, t>> \in Asks
    BY DEF HiddenUntilEnd, Hidden, Places, Groups
  <2>1. p \in Places
    BY DEF Hidden
  <2>2. Member(c, t) \/ <<c, t>> \in Asks
    BY <2>1 DEF PlayerInv, HiddenUntilEnd
  <2> QED  BY <1>1, <2>2
<1> QED  BY <1>2, <1>3, <1>5 DEF PlayerInv

-----------------------------------------------------------------------------
(* The actions. *)

\* A new room satisfies the invariant.
LEMMA InitStep == Init => IInv
<1> SUFFICES ASSUME Init  PROVE IInv
  OBVIOUS
<1>1. TypeOK
  <2>1. allPlayers \in Seq(Ctx \X (Teams \cup {Watcher}))
    BY DEF Init
  <2>2. composeData \in [Teams -> [Places -> Nat]]
    BY DEF Init
  <2> QED  BY <2>1, <2>2 DEF Init, TypeOK
<1>2. ClockMatchesPhase /\ Published /\ BansOnTheFinalGroups /\ BansAreChosen
  BY DEF Init, ClockMatchesPhase, Published, BansOnTheFinalGroups, BansAreChosen
<1>3. Current
  BY DEF Init, Current, Linked
<1>4. HiddenUntilEnd
  BY DEF Init, HiddenUntilEnd
<1> QED  BY <1>1, <1>2, <1>3, <1>4 DEF IInv

\* READY moves a waiting room at most to COMPOSE.
LEMMA ReadyStep ==
  ASSUME IInv, NEW c \in Ctx, NEW team \in Teams, Ready(c, team)
  PROVE  IInv'
<1>0. RoomInv /\ PlayerInv
  BY Split
<1>1. /\ status = "WAIT" /\ status' \in {"WAIT", "COMPOSE"}
      /\ isReady' \in [Teams -> BOOLEAN]
      /\ UNCHANGED <<data, players>> /\ Sync
  BY <1>0 DEF Ready, RoomInv, RoomTypes
<1>2. ASSUME status' = "COMPOSE"  PROVE RoomInv'
  <2>1. task' = "SetStatus" /\ RoomJData' = [RoomJData EXCEPT !.Status = "COMPOSE"]
    BY <1>1, <1>2 DEF Ready
  <2>2. /\ RoomJData' \in Texts /\ RoomJData'.Status = "COMPOSE"
        /\ RoomJData'.Compose = RoomJData.Compose
        /\ RoomJData'.BanList = RoomJData.BanList
    <3>1. RoomJData \in Texts
      BY <1>0 DEF RoomInv, RoomTypes
    <3>2. RoomJData' \in Texts
      BY <2>1, <3>1, TextsPut
    <3>3. /\ RoomJData'.Status = "COMPOSE" /\ RoomJData'.Compose = RoomJData.Compose
          /\ RoomJData'.BanList = RoomJData.BanList
      BY <2>1, <3>1 DEF Texts
    <3> QED  BY <3>2, <3>3
  <2>3. RoomTypes'
    BY <1>0, <1>1, <1>2, <2>1, <2>2 DEF RoomInv, RoomTypes, data
  <2>4. RoomInv'
    BY <1>0, <1>1, <1>2, <2>1, <2>2, <2>3 DEF RoomInv, ClockMatchesPhase, Published,
       BansOnTheFinalGroups, BansAreChosen, data
  <2> QED  BY <2>4
<1>3. ASSUME status' = "WAIT"  PROVE RoomInv'
  <2>1. UNCHANGED <<status, task, RoomJData>>
    BY <1>1, <1>3 DEF Ready
  <2>2. RoomInv'
    BY <1>0, <1>1, <2>1 DEF RoomInv, RoomTypes, ClockMatchesPhase, Published,
       BansOnTheFinalGroups, BansAreChosen, data
  <2> QED  BY <2>2
<1>4. RoomInv'
  BY <1>1, <1>2, <1>3
<1>5. PlayerInv'
  <2>1. online' = online /\ allPlayers' \in Seq(Entries)
    BY <1>0, <1>1 DEF players, PlayerInv, PlayerTypes
  <2>2. \A d, t : Member(d, t) => Member(d, t)'
    BY <1>1 DEF players, Member
  <2> QED  BY <1>0, <1>1, <1>4, <2>1, <2>2, SyncStep
<1> QED  BY <1>4, <1>5, Split, PTL

\* CHOOSE puts the ban of the team on the move in its slot.
LEMMA ChooseStep ==
  ASSUME IInv, NEW c \in Ctx, NEW choose \in ChooseNums, Choose(c, choose)
  PROVE  IInv'
<1>0. RoomInv /\ PlayerInv
  BY Split
<1>1. /\ status = "BAN" /\ Sync
      /\ banData' = [banData EXCEPT ![nowCtrl] = choose]
      /\ RoomJData' = [RoomJData EXCEPT !.BanList = TRUE]
      /\ UNCHANGED <<status, isReady, composeData, nowCtrl, task, players>>
  BY DEF Choose
<1>2. /\ RoomJData' \in Texts /\ RoomJData'.Status = RoomJData.Status /\ RoomJData'.BanList
      /\ RoomJData'.Compose = RoomJData.Compose /\ RoomJData'.NowCtrl = RoomJData.NowCtrl
      /\ RoomJData'.HideCompose = RoomJData.HideCompose
  <2>1. RoomJData \in Texts
    BY <1>0 DEF RoomInv, RoomTypes
  <2>2. RoomJData' \in Texts
    BY <1>1, <2>1, TextsPut
  <2>3. /\ RoomJData'.Status = RoomJData.Status /\ RoomJData'.BanList
        /\ RoomJData'.Compose = RoomJData.Compose /\ RoomJData'.NowCtrl = RoomJData.NowCtrl
        /\ RoomJData'.HideCompose = RoomJData.HideCompose
    BY <1>1, <2>1 DEF Texts
  <2> QED  BY <2>2, <2>3
<1>8. RoomTypes'
  BY <1>0, <1>1, <1>2 DEF RoomInv, RoomTypes
<1>3. ClockMatchesPhase' /\ Published'
  BY <1>0, <1>1, <1>2 DEF RoomInv, RoomTypes, ClockMatchesPhase, Published
<1>4. BansOnTheFinalGroups'
  BY <1>0, <1>1, <1>2 DEF RoomInv, BansOnTheFinalGroups, HideCompose
<1>5. BansAreChosen'
  BY <1>0, <1>1 DEF RoomInv, RoomTypes, BansAreChosen
<1>6. RoomInv'
  BY <1>3, <1>4, <1>5, <1>8 DEF RoomInv
<1>7. PlayerInv'
  <2>1. online' = online /\ allPlayers' \in Seq(Entries)
    BY <1>0, <1>1 DEF players, PlayerInv, PlayerTypes
  <2>2. \A d, t : Member(d, t) => Member(d, t)'
    BY <1>1 DEF players, Member
  <2> QED  BY <1>0, <1>1, <1>6, <2>1, <2>2, SyncStep
<1> QED  BY <1>6, <1>7, Split, PTL

\* COMPOSE puts a card that only its team is told of, before the groups are
\* copied for the bans.
LEMMA ComposeStep ==
  ASSUME IInv, NEW c \in Ctx, NEW team \in Teams, NEW place \in Composed,
         NEW choose \in Cards, Compose(c, team, place, choose)
  PROVE  IInv'
<1>0. RoomInv /\ PlayerInv
  BY Split
<1>1. /\ status = "COMPOSE" /\ place \in Places /\ choose \in Nat
      /\ composeData' = [composeData EXCEPT ![team][place] = choose]
      /\ UNCHANGED <<status, isReady, banData, nowCtrl, task, players, RoomJData, view>>
      /\ seen' = [d \in Ctx |-> IF d \in online /\ Member(d, team)
                                THEN seen[d] \cup {<<team, place>>} ELSE seen[d]]
  BY DEF Compose
<1>2. RoomInv'
  <2>1. composeData' \in [Teams -> [Places -> Nat]]
    BY <1>0, <1>1 DEF RoomInv, RoomTypes
  <2>2. RoomTypes'
    BY <1>0, <1>1, <2>1 DEF RoomInv, RoomTypes
  <2> QED  BY <1>0, <1>1, <2>2 DEF RoomInv, ClockMatchesPhase, Published,
                                  BansOnTheFinalGroups, BansAreChosen
<1>3. Snapshot' = Snapshot
  <2>1. ~RoomJData.Compose
    BY <1>0, <1>1 DEF RoomInv, Published
  <2> QED  BY <1>1, <2>1 DEF Snapshot
<1>4. seen' \in [Ctx -> SUBSET (Teams \X Places)]
  BY <1>0, <1>1 DEF PlayerInv, PlayerTypes
<1>5. ASSUME NEW d \in Ctx, NEW t \in Teams, NEW p \in Places, <<t, p>> \in seen'[d]
      PROVE  <<t, p>> \in seen[d] \/ Member(d, t)
  BY <1>1, <1>5
<1>6. PlayerInv'
  BY <1>0, <1>1, <1>3, <1>4, <1>5, QuietStep
<1> QED  BY <1>2, <1>6, Split, PTL

\* GET_COMPOST tells who asks, and nobody else, the groups it asks for.
LEMMA GetComposeStep ==
  ASSUME IInv, NEW c, NEW team, <<c, team>> \in Asks, GetCompose(c, team)
  PROVE  IInv'
<1>0. RoomInv /\ PlayerInv
  BY Split
<1>1. /\ c \in Ctx /\ team \in Teams
      /\ seen' = [seen EXCEPT ![c] = @ \cup ({team} \X Places)]
      /\ UNCHANGED <<status, isReady, data, task, players, RoomJData, view>>
  BY DEF GetCompose
<1>2. RoomInv'
  BY <1>0, <1>1 DEF RoomInv, RoomTypes, ClockMatchesPhase, Published,
                    BansOnTheFinalGroups, BansAreChosen, HideCompose, data
<1>3. Snapshot' = Snapshot
  BY <1>1 DEF Snapshot, data
<1>4. seen' \in [Ctx -> SUBSET (Teams \X Places)]
  BY <1>0, <1>1 DEF PlayerInv, PlayerTypes
<1>5. ASSUME NEW d \in Ctx, NEW t \in Teams, NEW p \in Places, <<t, p>> \in seen'[d]
      PROVE  <<t, p>> \in seen[d] \/ <<d, t>> \in Asks
  <2>1. CASE d = c
    BY <1>0, <1>1, <1>5, <2>1 DEF PlayerInv, PlayerTypes
  <2>2. CASE d # c
    BY <1>0, <1>1, <1>5, <2>2 DEF PlayerInv, PlayerTypes
  <2> QED  BY <2>1, <2>2
<1>6. PlayerInv'
  BY <1>0, <1>1, <1>3, <1>4, <1>5, QuietStep
<1> QED  BY <1>2, <1>6, Split, PTL

\* PLAYER_ADD links the connection and tells everybody.
LEMMA PlayerAddStep ==
  ASSUME IInv, NEW j \in Joins, PlayerAdd(j[1], j[2])
  PROVE  IInv'
<1>0. RoomInv /\ PlayerInv
  BY Split
<1>1. /\ allPlayers' = Append(allPlayers, <<j[1], j[2]>>) /\ Sync
      /\ UNCHANGED <<status, isReady, data, task, online, RoomJData>>
      /\ <<j[1], j[2]>> \in Entries
  BY DEF PlayerAdd, Entries
<1>2. RoomInv'
  BY <1>0, <1>1 DEF RoomInv, RoomTypes, ClockMatchesPhase, Published,
                    BansOnTheFinalGroups, BansAreChosen, HideCompose, data
<1>3. PlayerInv'
  <2>1. /\ allPlayers' \in Seq(Entries)
        /\ \A d, t : Member(d, t) => Member(d, t)'
    BY <1>0, <1>1, EnterStep DEF PlayerInv, PlayerTypes
  <2> QED  BY <1>0, <1>1, <1>2, <2>1, SyncStep
<1> QED  BY <1>2, <1>3, Split, PTL

\* A connection that closes takes its own entry, and what it knew, along.
LEMMA RmPlayerStep ==
  ASSUME IInv, NEW c \in Ctx, RmPlayer(c)
  PROVE  IInv'
<1>0. RoomInv /\ PlayerInv
  BY Split
<1>1. /\ online' = online \ {c} /\ view' = [view EXCEPT ![c] = NoView]
      /\ seen' = [seen EXCEPT ![c] = {}]
      /\ UNCHANGED <<status, isReady, data, task, RoomJData>>
  BY DEF RmPlayer
<1>2. RoomInv' /\ Snapshot' = Snapshot
  BY <1>0, <1>1 DEF RoomInv, RoomTypes, ClockMatchesPhase, Published,
       BansOnTheFinalGroups, BansAreChosen, HideCompose, Snapshot, data
<1>3. /\ allPlayers' \in Seq(Entries)
      /\ \A d : Linked(d)' => Linked(d)
      /\ \A d, t : d # c /\ Member(d, t) => Member(d, t)'
  <2>1. PICK k \in DOMAIN allPlayers :
          findPlayer(c, k) /\ allPlayers' = RemoveAt(allPlayers, k)
    BY DEF RmPlayer
  <2> QED  BY <1>0, <2>1, LeaveStep DEF PlayerInv, PlayerTypes
<1>4. PlayerTypes'
  BY <1>0, <1>1, <1>3 DEF PlayerInv, PlayerTypes
<1>5. Current'
  <2> SUFFICES ASSUME NEW d \in Ctx, d \in online', Linked(d)'
               PROVE  view'[d] = Snapshot'
    BY <1>0, <1>1 DEF PlayerInv, Current
  <2>1. d \in online /\ d # c
    BY <1>1
  <2>2. Linked(d)
    BY <1>3 DEF Linked
  <2> QED  BY <1>0, <1>1, <1>2, <2>1, <2>2 DEF PlayerInv, Current
<1>6. HiddenUntilEnd'
  <2> SUFFICES ASSUME status' # "END", NEW d \in Ctx, NEW t \in Teams, NEW p \in Hidden,
                      <<t, p>> \in seen'[d]
               PROVE  Member(d, t)' \/ <<d, t>> \in Asks
    BY DEF HiddenUntilEnd, Hidden, Places, Groups
  <2>1. d # c /\ <<t, p>> \in seen[d]
    BY <1>0, <1>1 DEF PlayerInv, PlayerTypes
  <2>2. Member(d, t) \/ <<d, t>> \in Asks
    BY <1>0, <1>1, <2>1 DEF PlayerInv, HiddenUntilEnd
  <2> QED  BY <1>3, <2>1, <2>2
<1> QED  BY <1>2, <1>4, <1>5, <1>6, Split, PTL DEF PlayerInv

\* The end of the time to compose closes the groups and copies them.
LEMMA BanStartsStep ==
  ASSUME IInv, BanStarts
  PROVE  IInv'
<1>0. RoomInv /\ PlayerInv
  BY Split
<1>1. /\ status = "COMPOSE" /\ status' = "BAN" /\ nowCtrl' = 0 /\ task' = "nextProcess"
      /\ RoomJData' = [RoomJData EXCEPT !.Status = "BAN", !.NowCtrl = 0,
                                        !.HideCompose = HideCompose]
      /\ UNCHANGED <<isReady, banData, composeData, players>> /\ Sync
  BY <1>0 DEF BanStarts, RoomInv, ClockMatchesPhase
<1>2. HideCompose' = HideCompose /\ HideCompose \in Masks
  BY <1>0, <1>1 DEF RoomInv, RoomTypes, HideCompose, Masks
<1>3. RoomTypes' /\ BansOnTheFinalGroups'
  <2>1. RoomJData'.HideCompose = HideCompose
    BY <1>0, <1>1 DEF RoomInv, RoomTypes, Texts
  <2>2. RoomJData' \in Texts
    <3>1. RoomJData \in Texts /\ 0 \in Turns
      BY <1>0 DEF RoomInv, RoomTypes, Turns
    <3> QED  BY <1>1, <1>2, <3>1, TextsPut
  <2>3. RoomTypes'
    BY <1>0, <1>1, <2>2 DEF RoomInv, RoomTypes
  <2> QED  BY <1>2, <2>1, <2>3 DEF BansOnTheFinalGroups
<1>4. ClockMatchesPhase' /\ Published' /\ BansAreChosen'
  BY <1>0, <1>1 DEF RoomInv, RoomTypes, ClockMatchesPhase, Published, BansAreChosen
<1>5. RoomInv'
  BY <1>3, <1>4 DEF RoomInv
<1>6. PlayerInv'
  <2>1. online' = online /\ allPlayers' \in Seq(Entries)
    BY <1>0, <1>1 DEF players, PlayerInv, PlayerTypes
  <2>2. \A d, t : Member(d, t) => Member(d, t)'
    BY <1>1 DEF players, Member
  <2> QED  BY <1>0, <1>1, <1>5, <2>1, <2>2, SyncStep
<1> QED  BY <1>5, <1>6, Split, PTL

\* The end of a turn gives the other team the turn, or lays the groups open.
LEMMA NextProcessStep ==
  ASSUME IInv, nextProcess
  PROVE  IInv'
<1>0. RoomInv /\ PlayerInv
  BY Split
<1> DEFINE listed == RoomJData.BanList \/ banData[nowCtrl] = NoBan
<1>1. /\ status = "BAN" /\ Sync
      /\ banData' = [banData EXCEPT ![nowCtrl] = Timeout(@)]
      /\ UNCHANGED <<isReady, composeData, players>>
      /\ nowCtrl \in Teams /\ banData \in [Teams -> Int] /\ listed
  BY <1>0 DEF nextProcess, RoomInv, RoomTypes, Published
<1>2. \/ /\ nowCtrl = 0 /\ nowCtrl' = 1 /\ task' = "nextProcess" /\ status' = "BAN"
         /\ RoomJData' = [RoomJData EXCEPT !.BanList = TRUE, !.NowCtrl = 1]
      \/ /\ nowCtrl = 1 /\ nowCtrl' = 0 /\ task' = "none" /\ status' = "END"
         /\ RoomJData' = [RoomJData EXCEPT !.Status = "END", !.BanList = TRUE,
                                           !.NowCtrl = 2, !.Compose = TRUE]
  <2>1. listed = TRUE
    BY <1>1
  <2>2. CASE LastTurn
    <3>1. nowCtrl = 1
      BY <1>1, <2>2 DEF LastTurn
    <3>2. /\ nowCtrl' = 0 /\ task' = "none" /\ status' = "END"
          /\ RoomJData' = [RoomJData EXCEPT !.Status = "END", !.BanList = listed,
                                            !.NowCtrl = 2, !.Compose = TRUE]
      BY <2>2 DEF nextProcess
    <3> QED  BY <2>1, <3>1, <3>2
  <2>3. CASE ~LastTurn
    <3>1. nowCtrl = 0
      BY <1>1, <2>3 DEF LastTurn
    <3>2. /\ nowCtrl' = nowCtrl + 1 /\ task' = "nextProcess" /\ status' = status
          /\ RoomJData' = [RoomJData EXCEPT !.BanList = listed, !.NowCtrl = nowCtrl']
      BY <2>3 DEF nextProcess
    <3>3. nowCtrl' = 1 /\ status' = "BAN"
      BY <1>1, <3>1, <3>2
    <3> QED  BY <2>1, <3>1, <3>2, <3>3
  <2> QED  BY <2>2, <2>3
<1> HIDE DEF listed
<1>3. /\ RoomJData'.Status = status' /\ RoomJData'.BanList
      /\ RoomJData'.HideCompose = RoomJData.HideCompose
      /\ RoomJData'.Compose <=> status' = "END"
      /\ status' = "BAN" => RoomJData'.NowCtrl = nowCtrl'
      /\ RoomJData' \in Texts
  <2>1. RoomJData.Status = "BAN" /\ ~RoomJData.Compose /\ RoomJData \in Texts
    BY <1>0, <1>1 DEF RoomInv, RoomTypes, Published
  <2>2. 1 \in Turns /\ 2 \in Turns
    BY DEF Turns
  <2>3. CASE status' = "BAN"
    <3>1. RoomJData' = [RoomJData EXCEPT !.BanList = TRUE, !.NowCtrl = 1] /\ nowCtrl' = 1
      BY <1>2, <2>3
    <3>2. RoomJData' \in Texts
      BY <2>1, <2>2, <3>1, TextsPut
    <3>3. /\ RoomJData'.Status = "BAN" /\ RoomJData'.BanList /\ ~RoomJData'.Compose
          /\ RoomJData'.NowCtrl = 1 /\ RoomJData'.HideCompose = RoomJData.HideCompose
      BY <2>1, <3>1 DEF Texts
    <3> QED  BY <2>3, <3>1, <3>2, <3>3
  <2>4. CASE status' = "END"
    <3>1. RoomJData' = [RoomJData EXCEPT !.Status = "END", !.BanList = TRUE,
                                         !.NowCtrl = 2, !.Compose = TRUE]
      BY <1>2, <2>4
    <3>2. RoomJData' \in Texts
      BY <2>1, <2>2, <3>1, TextsPut
    <3>3. /\ RoomJData'.Status = "END" /\ RoomJData'.BanList /\ RoomJData'.Compose
          /\ RoomJData'.HideCompose = RoomJData.HideCompose
      BY <2>1, <3>1 DEF Texts
    <3> QED  BY <2>4, <3>2, <3>3
  <2> QED  BY <1>2, <2>3, <2>4
<1>4. banData' \in [Teams -> Int] /\ BansAreChosen'
  BY <1>0, <1>1 DEF Timeout, RoomInv, BansAreChosen
<1>5. RoomTypes'
  BY <1>0, <1>1, <1>2, <1>3, <1>4 DEF RoomInv, RoomTypes
<1>6. ClockMatchesPhase' /\ Published'
  BY <1>2, <1>3 DEF ClockMatchesPhase, Published
<1>7. BansOnTheFinalGroups'
  BY <1>0, <1>1, <1>3 DEF RoomInv, BansOnTheFinalGroups, HideCompose
<1>8. RoomInv'
  BY <1>4, <1>5, <1>6, <1>7 DEF RoomInv
<1>9. PlayerInv'
  <2>1. online' = online /\ allPlayers' \in Seq(Entries)
    BY <1>0, <1>1 DEF players, PlayerInv, PlayerTypes
  <2>2. \A d, t : Member(d, t) => Member(d, t)'
    BY <1>1 DEF players, Member
  <2> QED  BY <1>0, <1>1, <1>8, <2>1, <2>2, SyncStep
<1> QED  BY <1>8, <1>9, Split, PTL

-----------------------------------------------------------------------------
(* The invariant, and what follows from it. *)

\* Every handler and every task keeps the invariant.
LEMMA Inductive == IInv /\ [Next]_vars => IInv'
<1> SUFFICES ASSUME IInv, [Next]_vars  PROVE IInv'
  OBVIOUS
<1>1. ASSUME NEW c \in Ctx, NEW team \in Teams, Ready(c, team)  PROVE IInv'
  BY <1>1, ReadyStep
<1>2. ASSUME NEW c \in Ctx, NEW choose \in ChooseNums, Choose(c, choose)  PROVE IInv'
  BY <1>2, ChooseStep
<1>3. ASSUME NEW c \in Ctx, NEW team \in Teams, NEW place \in Composed,
             NEW choose \in Cards, Compose(c, team, place, choose)
      PROVE  IInv'
  BY <1>3, ComposeStep
<1>4. ASSUME NEW a \in Asks, GetCompose(a[1], a[2])  PROVE IInv'
  <2>1. a = <<a[1], a[2]>>
    OBVIOUS
  <2> QED  BY <1>4, <2>1, GetComposeStep
<1>5. ASSUME NEW j \in Joins, PlayerAdd(j[1], j[2])  PROVE IInv'
  BY <1>5, PlayerAddStep
<1>6. ASSUME NEW c \in Ctx, RmPlayer(c)  PROVE IInv'
  BY <1>6, RmPlayerStep
<1>7. CASE TimerFires
  BY <1>7, BanStartsStep, NextProcessStep DEF TimerFires
<1>8. CASE UNCHANGED vars
  BY <1>8 DEF vars, data, players, IInv, TypeOK, ClockMatchesPhase, Published,
     BansOnTheFinalGroups, BansAreChosen, Current, HiddenUntilEnd, HideCompose, Snapshot,
     Linked, Member
<1> QED  BY <1>1, <1>2, <1>3, <1>4, <1>5, <1>6, <1>7, <1>8 DEF Next

\* The invariant holds of every room at any time.
LEMMA Invariance == Spec => []IInv
BY InitStep, Inductive, PTL DEF Spec

\* The room's fields always have their types.
THEOREM TypeCorrect == Spec => []TypeOK
BY Invariance, PTL DEF IInv

\* A phase that the clock ends always has its clock, and no other phase has one.
THEOREM ClockAlwaysMatches == Spec => []ClockMatchesPhase
BY Invariance, PTL DEF IInv

\* Before the end a connection has no hidden card of a team that it does not belong
\* to and does not ask about: neither what others send, nor joins, closed connections
\* and timers tell it one.
THEOREM HiddenCardsStayHidden == Spec => []HiddenUntilEnd
BY Invariance, PTL DEF IInv

\* The teams ban on what was composed.
THEOREM GroupsAreFinal == Spec => []BansOnTheFinalGroups
BY Invariance, PTL DEF IInv

\* No handler forgets its broadcast: who is linked is up to date.
THEOREM ScreensAreUpToDate == Spec => []LinkedUpToDate
<1>1. IInv => LinkedUpToDate
  <2> SUFFICES ASSUME IInv, NEW c \in Ctx, c \in online, Linked(c)
               PROVE  /\ view[c].Status = status /\ view[c].Ready = isReady
                      /\ view[c].BanList = IF RoomJData.BanList THEN banData ELSE NotPut
                      /\ RoomJData.BanList \/ banData = [t \in Teams |-> NoBan]
                      /\ status = "BAN" => view[c].NowCtrl = nowCtrl
                      /\ status = "END" => view[c].Compose = composeData
    BY DEF LinkedUpToDate
  <2>1. view[c] = Snapshot
    BY DEF IInv, Current
  <2>2. Published
    BY DEF IInv
  <2> QED  BY <2>1, <2>2 DEF Published, Snapshot
<1> QED  BY <1>1, Invariance, PTL

-----------------------------------------------------------------------------
(* The room implements the abstract draft, its liveness apart. *)

\* The end of a turn fills the slot of the team that was on the move.
LEMMA TurnFills ==
  ASSUME IInv, nextProcess
  PROVE  Draft!Next
<1>1. /\ status = "BAN" /\ nowCtrl \in {0, 1} /\ banData \in [Teams -> Int]
      /\ banData[nowCtrl] \in ChooseNums \cup {0, NoBan}
      /\ banData' = [banData EXCEPT ![nowCtrl] = Timeout(@)]
  BY DEF nextProcess, IInv, TypeOK, BansAreChosen
<1> DEFINE ban == Timeout(banData[nowCtrl])
<1>2. /\ nowCtrl = 0 => nowCtrl' = 1 /\ status' = "BAN"
      /\ nowCtrl = 1 => nowCtrl' = 0 /\ status' = "END"
  <2>1. CASE LastTurn
    <3>1. nowCtrl' = 0 /\ status' = "END"
      BY <2>1 DEF nextProcess
    <3> QED  BY <1>1, <2>1, <3>1 DEF LastTurn
  <2>2. CASE ~LastTurn
    <3>1. nowCtrl' = nowCtrl + 1 /\ status' = status
      BY <2>2 DEF nextProcess
    <3> QED  BY <1>1, <2>2, <3>1 DEF LastTurn
  <2> QED  BY <2>1, <2>2
<1>3. /\ Filled = nowCtrl /\ Filled' = nowCtrl + 1
      /\ Stage = "drafting" /\ Stage' = IF nowCtrl = 1 THEN "complete" ELSE "drafting"
  BY <1>1, <1>2 DEF Filled, Stage
<1>4. banData'[nowCtrl] = ban /\ \A t \in Teams : t # nowCtrl => banData'[t] = banData[t]
  BY <1>1
<1>5. ban \in ChooseNums \cup {0}
  BY <1>1 DEF Timeout
<1> HIDE DEF ban
<1>6. Slot' = [Slot EXCEPT ![nowCtrl] = Ban(nowCtrl, ban)]
  <2>1. Slot' = [i \in 0 .. 1 |-> IF i < nowCtrl + 1 THEN Ban(i, banData'[i]) ELSE NotFilled]
    BY <1>3 DEF Slot
  <2>2. Slot = [i \in 0 .. 1 |-> IF i < nowCtrl THEN Ban(i, banData[i]) ELSE NotFilled]
    BY <1>3 DEF Slot
  <2>3. ASSUME NEW i \in 0 .. 1
        PROVE  Slot'[i] = IF i = nowCtrl THEN Ban(nowCtrl, ban) ELSE Slot[i]
    <3>1. CASE i = nowCtrl
      BY <1>1, <1>4, <2>1, <3>1
    <3>2. CASE i < nowCtrl
      BY <1>1, <1>4, <2>1, <2>2, <3>2
    <3>3. CASE i > nowCtrl
      BY <1>1, <2>1, <2>2, <3>3
    <3> QED  BY <1>1, <3>1, <3>2, <3>3
  <2> QED  BY <2>1, <2>2, <2>3
<1>7. Draft!Free(Ban(nowCtrl, ban))
  <2>1. ASSUME NEW i \in 0 .. 1, i < nowCtrl  PROVE Slot[i] # Ban(nowCtrl, ban)
    BY <1>1, <1>3, <2>1 DEF Slot, Ban
  <2> QED  BY <1>1, <1>3, <2>1 DEF Draft!Free, Draft!Slots
<1>8. Draft!Fill(Ban(nowCtrl, ban))
  <2>1. /\ Filled' = Filled + 1 /\ Slot' = [Slot EXCEPT ![Filled] = Ban(nowCtrl, ban)]
        /\ Stage' = IF Filled' = 2 THEN "complete" ELSE "drafting"
    BY <1>1, <1>3, <1>6
  <2>2. (IF status = "END" THEN 1 ELSE nowCtrl)'
          = IF Filled' = 2 THEN (IF status = "END" THEN 1 ELSE nowCtrl)
                           ELSE [i \in 0 .. 1 |-> i][Filled']
    BY <1>1, <1>2, <1>3
  <2> QED  BY <1>3, <1>7, <2>1, <2>2 DEF Draft!Fill
<1> QED  BY <1>1, <1>5, <1>8 DEF Draft!Next

\* Every behaviour of the room is a behaviour of the abstract draft.
THEOREM RoomImplementsDraft == Spec => Draft!Init /\ [][Draft!Next]_(Draft!vars)
<1>1. Init => Draft!Init
  BY DEF Init, Draft!Init, Draft!Slots, Stage, Slot, Filled
<1> DEFINE Step == Draft!Next \/ UNCHANGED Draft!vars
<1>2. ASSUME UNCHANGED <<status, nowCtrl, banData>>  PROVE Step
  BY <1>2 DEF Draft!vars, Stage, Slot, Filled
<1>3. IInv /\ [Next]_vars => [Draft!Next]_(Draft!vars)
  <2> SUFFICES ASSUME IInv, [Next]_vars  PROVE Step
    OBVIOUS
  <2> HIDE DEF Step
  <2>1. ASSUME NEW c \in Ctx, NEW team \in Teams, Ready(c, team)  PROVE Step
    <3>1. /\ status = "WAIT" /\ status' \in {"WAIT", "COMPOSE"}
          /\ UNCHANGED <<banData, nowCtrl>>
      BY <2>1 DEF Ready, data
    <3>2. UNCHANGED Draft!vars
      BY <3>1 DEF Draft!vars, Stage, Slot, Filled
    <3> QED  BY <3>2 DEF Step
  <2>2. ASSUME NEW c \in Ctx, NEW choose \in ChooseNums, Choose(c, choose)  PROVE Step
    <3>1. /\ status = "BAN" /\ status' = "BAN" /\ nowCtrl' = nowCtrl
          /\ nowCtrl \in {0, 1} /\ banData \in [Teams -> Int]
          /\ banData' = [banData EXCEPT ![nowCtrl] = choose]
      BY <2>2 DEF Choose, IInv, TypeOK
    <3>2. Slot' = Slot
      BY <3>1 DEF Slot, Filled
    <3>3. UNCHANGED Draft!vars
      BY <3>1, <3>2 DEF Draft!vars, Stage, Filled
    <3> QED  BY <3>3 DEF Step
  <2>3. ASSUME NEW c \in Ctx, NEW team \in Teams, NEW place \in Composed,
               NEW choose \in Cards, Compose(c, team, place, choose)
        PROVE  Step
    BY <1>2, <2>3 DEF Compose
  <2>4. ASSUME NEW a \in Asks, GetCompose(a[1], a[2])  PROVE Step
    BY <1>2, <2>4 DEF GetCompose, data
  <2>5. ASSUME NEW j \in Joins, PlayerAdd(j[1], j[2])  PROVE Step
    BY <1>2, <2>5 DEF PlayerAdd, data
  <2>6. ASSUME NEW c \in Ctx, RmPlayer(c)  PROVE Step
    BY <1>2, <2>6 DEF RmPlayer, data
  <2>7. CASE BanStarts
    <3>1. /\ status = "COMPOSE" /\ nowCtrl = 0
          /\ status' = "BAN" /\ nowCtrl' = 0 /\ banData' = banData
      BY <2>7 DEF BanStarts, IInv, ClockMatchesPhase, Published
    <3>2. Draft!Start
      BY <3>1 DEF Draft!Start, Stage, Slot, Filled
    <3> QED  BY <3>2 DEF Step, Draft!Next
  <2>8. CASE nextProcess
    BY <2>8, TurnFills DEF Step
  <2>9. CASE UNCHANGED vars
    BY <1>2, <2>9 DEF vars, data
  <2> QED  BY <2>1, <2>2, <2>3, <2>4, <2>5, <2>6, <2>7, <2>8, <2>9 DEF Next, TimerFires
<1> QED  BY <1>1, <1>3, Invariance, PTL DEF Spec
=============================================================================
