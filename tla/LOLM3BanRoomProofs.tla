------------------------- MODULE LOLM3BanRoomProofs -------------------------
(***************************************************************************)
(* Theorems about LOLM3BanRoom, for every number of bans, every hero table *)
(* and every set of connections and packets.                               *)
(*                                                                         *)
(* The argument: TurnOrder, RestEmpty, TakenAreChosen, HeroOnce and        *)
(* PreviewFree need one another and the copies in RoomJData (Published);   *)
(* together with TypeOK they are the inductive invariant IInv.  What the   *)
(* connections have on screen (Current) then follows from every handler    *)
(* ending in a broadcast when it has changed the room.                     *)
(***************************************************************************)
EXTENDS LOLM3BanRoom, SequenceTheorems, TLAPS

\* The boxed copies in RoomJData agree with the fields they were made from.
Published ==
  /\ RoomJData.Status = status
  /\ status = "BAN"  => RoomJData.nowCtrl = nowCtrl /\ RoomJData.banFlage = banFlage
  /\ status = "PICK" => RoomJData.nowCtrl = nowCtrl /\ RoomJData.pickFlage = pickFlage

\* Every open, linked connection was sent the room as it now is.
Current == \A c \in Ctx : c \in online /\ Linked(c) => view[c] = Snapshot

\* Only SetStatus(BAN) loses hold of a timer, and it is called once.
OneOrphan == status = "WAIT" => orphans = 0

IInv == /\ TypeOK /\ TurnOrder /\ RestEmpty /\ TakenAreChosen /\ HeroOnce
        /\ PreviewFree /\ Published /\ Current /\ OneOrphan

USE BanCountAssumption, HeroAssumption, NumsAssumption, JoinsAssumption
    DEF Teams, Watcher, Empty, NotPut

-----------------------------------------------------------------------------
(* What taking one entry out of a list leaves; SequencesExt defines        *)
(* RemoveAt, which the library's theorems do not mention.                  *)

\* Without entry k: the entries before it stay, those after it move down by one.
LEMMA RemoveAtProperties ==
  ASSUME NEW S, NEW s \in Seq(S), NEW k \in 1 .. Len(s)
  PROVE  /\ RemoveAt(s, k) \in Seq(S)
         /\ Len(RemoveAt(s, k)) = Len(s) - 1
         /\ \A i \in 1 .. Len(s) - 1 : RemoveAt(s, k)[i] = s[IF i < k THEN i ELSE i + 1]
<1> DEFINE a == SubSeq(s, 1, k - 1)
           b == SubSeq(s, k + 1, Len(s))
<1>1. Len(s) \in Nat /\ k \in 1 .. Len(s) /\ \A i \in 1 .. Len(s) : s[i] \in S
  BY ElementOfSeq, LenProperties
<1>2. a \in Seq(S) /\ Len(a) = k - 1 /\ \A i \in 1 .. k - 1 : a[i] = s[i]
  BY <1>1
<1>3. b \in Seq(S) /\ Len(b) = Len(s) - k /\ \A i \in 1 .. Len(s) - k : b[i] = s[k + i]
  BY <1>1
<1>4. RemoveAt(s, k) = a \o b
  BY DEF RemoveAt
<1> HIDE DEF a, b
<1>5. /\ a \o b \in Seq(S) /\ Len(a \o b) = Len(a) + Len(b)
      /\ \A i \in 1 .. Len(a) + Len(b) :
           (a \o b)[i] = IF i <= Len(a) THEN a[i] ELSE b[i - Len(a)]
  BY ONLY <1>2, <1>3, ConcatProperties
<1>6. \A i \in 1 .. Len(s) - 1 : (a \o b)[i] = IF i < k THEN a[i] ELSE b[i - (k - 1)]
  BY ONLY <1>1, <1>2, <1>3, <1>5
<1>7. ASSUME NEW i \in 1 .. Len(s) - 1
      PROVE  (a \o b)[i] = s[IF i < k THEN i ELSE i + 1]
  <2>1. CASE i < k
    BY ONLY <1>1, <1>2, <1>6, <2>1
  <2>2. CASE ~(i < k)
    <3>1. i - (k - 1) \in 1 .. Len(s) - k /\ k + (i - (k - 1)) = i + 1
      BY ONLY <1>1, <2>2
    <3> QED  BY ONLY <1>3, <1>6, <2>2, <3>1
  <2> QED  BY <2>1, <2>2
<1> QED  BY <1>1, <1>2, <1>3, <1>4, <1>5, <1>7

\* Its entries are entries of the list, and all of them but entry k.
LEMMA RemoveAtEntries ==
  ASSUME NEW S, NEW s \in Seq(S), NEW k \in DOMAIN s, NEW r, r = RemoveAt(s, k)
  PROVE  /\ r \in Seq(S)
         /\ \A i \in DOMAIN r : \E j \in DOMAIN s : r[i] = s[j]
         /\ \A j \in DOMAIN s : j # k => \E i \in DOMAIN r : r[i] = s[j]
<1>1. /\ DOMAIN s = 1 .. Len(s) /\ Len(s) \in Nat /\ k \in 1 .. Len(s)
  BY LenProperties
<1>2. /\ r \in Seq(S) /\ Len(r) = Len(s) - 1
      /\ \A i \in 1 .. Len(s) - 1 : r[i] = s[IF i < k THEN i ELSE i + 1]
  BY <1>1, RemoveAtProperties
<1>3. DOMAIN r = 1 .. Len(s) - 1
  BY <1>2, LenProperties
<1>4. ASSUME NEW i \in 1 .. Len(s) - 1
      PROVE  \E j \in 1 .. Len(s) : r[i] = s[j]
  <2>1. (IF i < k THEN i ELSE i + 1) \in 1 .. Len(s)
    BY <1>1
  <2> QED  BY <1>2, <2>1
<1>5. ASSUME NEW j \in 1 .. Len(s), j # k
      PROVE  \E i \in 1 .. Len(s) - 1 : r[i] = s[j]
  <2>1. CASE j < k
    <3>1. j \in 1 .. Len(s) - 1  BY <1>1, <2>1
    <3> QED  BY <1>2, <2>1, <3>1
  <2>2. CASE j > k
    <3>1. j - 1 \in 1 .. Len(s) - 1 /\ ~(j - 1 < k) /\ (j - 1) + 1 = j  BY <1>1, <2>2
    <3>2. r[j - 1] = s[j]  BY <1>2, <3>1
    <3> QED  BY <3>1, <3>2
  <2> QED  BY <1>1, <1>5, <2>1, <2>2
<1>6. \A i \in DOMAIN r : \E j \in DOMAIN s : r[i] = s[j]
  BY <1>1, <1>3, <1>4
<1>7. \A j \in DOMAIN s : j # k => \E i \in DOMAIN r : r[i] = s[j]
  BY <1>1, <1>3, <1>5
<1> QED  BY <1>2, <1>6, <1>7

-----------------------------------------------------------------------------
(* The list of players. *)

Entries == Ctx \X (Teams \cup {Watcher})

\* Removing one entry leaves a list of players, and links nobody.
LEMMA RemoveEntry ==
  ASSUME allPlayers \in Seq(Entries), NEW k \in DOMAIN allPlayers,
         allPlayers' = RemoveAt(allPlayers, k)
  PROVE  /\ allPlayers' \in Seq(Entries)
         /\ \A c : Linked(c)' => Linked(c)
<1>1. /\ allPlayers' \in Seq(Entries)
      /\ \A i \in DOMAIN allPlayers' : \E j \in DOMAIN allPlayers :
           allPlayers'[i] = allPlayers[j]
  BY RemoveAtEntries
<1>2. ASSUME NEW c, Linked(c)'  PROVE Linked(c)
  BY <1>1, <1>2 DEF Linked
<1> QED  BY <1>1, <1>2

-----------------------------------------------------------------------------
(* The turn. *)

\* The typing of what a turn changes.
DraftTypes ==
  /\ status \in {"WAIT", "BAN", "PICK", "END"}
  /\ chosen \subseteq Int
  /\ banData \in [BanSlots -> Int] /\ pickData \in [PickSlots -> Int]
  /\ nowCtrl \in Teams /\ banFlage \in 0 .. 2 * BanCount /\ pickFlage \in 0 .. 10
  /\ RoomJData \in [Status : {"WAIT", "BAN", "PICK", "END"},
                    nowCtrl : Teams \cup {NotPut},
                    banFlage : 0 .. 2 * BanCount \cup {NotPut},
                    pickFlage : 0 .. 10 \cup {NotPut}]

DraftInv == /\ DraftTypes /\ TurnOrder /\ RestEmpty /\ TakenAreChosen /\ HeroOnce
            /\ PreviewFree /\ Published

\* The owners of the slots are teams.
LEMMA Owners == /\ \A i \in BanSlots : banProcess[i] \in Teams
                /\ \A i \in PickSlots : pickProcess[i] \in Teams
                /\ banProcess[0] = 0 /\ pickProcess[0] = 0
BY DEF BanSlots, PickSlots, banProcess, pickProcess

\* A ban that is acceptable keeps the draft in order.
LEMMA BanTurnStep ==
  ASSUME DraftInv, NEW choose \in Int, Acceptable(choose),
         chosen' = chosen \cup ({choose} \ {0}), previewNum' = 0, BanTurn(choose)
  PROVE  DraftInv'
<1> USE DEF DraftInv
<1>1. /\ status = "BAN" /\ banFlage \in BanSlots /\ pickFlage = 0
      /\ banFlage' = banFlage + 1 /\ pickFlage' = 0 /\ pickData' = pickData
      /\ banData' = [banData EXCEPT ![banFlage] = choose]
  BY DEF BanTurn, TurnOrder, DraftTypes, BanSlots
<1>2. DraftTypes'
  <2>1. chosen' \subseteq Int /\ banData' \in [BanSlots -> Int] /\ pickData' \in [PickSlots -> Int]
    BY <1>1 DEF DraftTypes
  <2>2. CASE banFlage' = 2 * BanCount
    BY <1>1, <2>1, <2>2 DEF BanTurn, DraftTypes
  <2>3. CASE banFlage' # 2 * BanCount
    <3>1. banFlage' \in BanSlots /\ banFlage' \in 0 .. 2 * BanCount
      BY <1>1, <2>3 DEF BanSlots
    <3>2. banProcess[banFlage'] \in Teams
      BY <3>1, Owners
    <3> QED  BY <1>1, <2>1, <2>3, <3>1, <3>2 DEF BanTurn, DraftTypes
  <2> QED  BY <2>2, <2>3
<1>3. TurnOrder'
  <2>1. CASE banFlage' = 2 * BanCount
    <3>1. status' = "PICK" /\ nowCtrl' = 0
      BY <2>1 DEF BanTurn
    <3> QED  BY <1>1, <2>1, <3>1, Owners DEF TurnOrder
  <2>2. CASE banFlage' # 2 * BanCount
    <3>1. status' = "BAN" /\ nowCtrl' = banProcess[banFlage']
      BY <1>1, <2>2 DEF BanTurn
    <3>2. banFlage' < 2 * BanCount
      BY <1>1, <2>2 DEF BanSlots
    <3> QED  BY <1>1, <3>1, <3>2 DEF TurnOrder
  <2> QED  BY <2>1, <2>2
<1>4. Published'
  <2>1. CASE banFlage' = 2 * BanCount
    <3>1. /\ status' = "PICK" /\ nowCtrl' = 0
          /\ RoomJData' = [Status |-> "PICK", nowCtrl |-> 0, banFlage |-> banFlage',
                           pickFlage |-> pickFlage]
      BY <2>1 DEF BanTurn
    <3> QED  BY <1>1, <3>1 DEF Published
  <2>2. CASE banFlage' # 2 * BanCount
    <3>1. /\ status' = "BAN"
          /\ RoomJData' = [RoomJData EXCEPT !.nowCtrl = nowCtrl', !.banFlage = banFlage']
      BY <1>1, <2>2 DEF BanTurn
    <3> QED  BY <1>1, <3>1 DEF Published, DraftTypes
  <2> QED  BY <2>1, <2>2
<1>5. RestEmpty'
  BY <1>1 DEF RestEmpty, BanSlots, PickSlots, DraftTypes
<1>6. TakenAreChosen'
  <2>1. \A i \in BanSlots : i < banFlage' => Taken(banData[i])'
    BY <1>1 DEF TakenAreChosen, Taken, Acceptable, BanSlots, DraftTypes
  <2> QED  BY <1>1, <2>1 DEF TakenAreChosen, Taken, PickSlots
<1>7. HeroOnce'
  <2>1. \A i \in BanSlots : i < banFlage /\ banData[i] # 0 => banData[i] # choose
    BY DEF TakenAreChosen, Taken, Acceptable
  <2>2. \A i, j \in BanSlots : i < j /\ j < banFlage' /\ banData'[i] # 0
                                 => banData'[i] # banData'[j]
    BY <1>1, <2>1 DEF HeroOnce, BanSlots, DraftTypes
  <2> QED  BY <1>1, <2>2 DEF HeroOnce, PickSlots
<1> QED  BY <1>2, <1>3, <1>4, <1>5, <1>6, <1>7 DEF PreviewFree

\* So does a pick.
LEMMA PickTurnStep ==
  ASSUME DraftInv, NEW choose \in Int, Acceptable(choose),
         chosen' = chosen \cup ({choose} \ {0}), previewNum' = 0, PickTurn(choose)
  PROVE  DraftInv'
<1> USE DEF DraftInv
<1>1. /\ status = "PICK" /\ pickFlage \in PickSlots /\ banFlage = 2 * BanCount
      /\ pickFlage' = pickFlage + 1 /\ banFlage' = banFlage /\ banData' = banData
      /\ pickData' = [pickData EXCEPT ![pickFlage] = choose]
  BY DEF PickTurn, TurnOrder, DraftTypes, PickSlots
<1>2. /\ pickFlage' \in 0 .. 10
      /\ pickFlage' # 10 => pickFlage' \in PickSlots
      /\ nowCtrl' \in Teams
  BY <1>1, Owners DEF PickTurn, PickSlots, DraftTypes
<1>3. /\ RoomJData' = [RoomJData EXCEPT !.Status = status', !.nowCtrl = nowCtrl',
                                       !.pickFlage = pickFlage']
      /\ status' = IF pickFlage' = 10 THEN "END" ELSE "PICK"
      /\ nowCtrl' = IF pickFlage' = 10 THEN nowCtrl ELSE pickProcess[pickFlage']
  BY <1>1 DEF PickTurn
<1>4. DraftTypes'
  <2>1. chosen' \subseteq Int /\ banData' \in [BanSlots -> Int] /\ pickData' \in [PickSlots -> Int]
    BY <1>1 DEF DraftTypes
  <2>2. status' \in {"WAIT", "BAN", "PICK", "END"}
    BY <1>3
  <2>3. RoomJData' \in [Status : {"WAIT", "BAN", "PICK", "END"},
                        nowCtrl : Teams \cup {NotPut},
                        banFlage : 0 .. 2 * BanCount \cup {NotPut},
                        pickFlage : 0 .. 10 \cup {NotPut}]
    BY <1>2, <1>3, <2>2 DEF DraftTypes
  <2> QED  BY <1>1, <1>2, <2>1, <2>2, <2>3 DEF DraftTypes
<1>5. TurnOrder'
  BY <1>1, <1>2, <1>3 DEF TurnOrder, PickSlots, DraftTypes
<1>6. Published'
  BY <1>1, <1>3 DEF Published, DraftTypes
<1>7. RestEmpty'
  <2>1. \A i \in BanSlots : i >= banFlage' => banData'[i] = Empty
    BY <1>1 DEF RestEmpty
  <2>2. \A i \in PickSlots : i >= pickFlage' => pickData'[i] = Empty
    BY <1>1 DEF RestEmpty, PickSlots, DraftTypes
  <2> QED  BY <2>1, <2>2 DEF RestEmpty
<1>8. TakenAreChosen'
  BY <1>1 DEF TakenAreChosen, Taken, Acceptable, PickSlots, DraftTypes
<1>9. HeroOnce'
  <2>1. /\ \A i \in PickSlots : i < pickFlage /\ pickData[i] # 0 => pickData[i] # choose
        /\ \A i \in BanSlots : i < banFlage /\ banData[i] # 0 => banData[i] # choose
    BY DEF TakenAreChosen, Taken, Acceptable
  <2>2. \A i, j \in PickSlots : i < j /\ j < pickFlage' /\ pickData'[i] # 0
                                  => pickData'[i] # pickData'[j]
    BY <1>1, <2>1 DEF HeroOnce, PickSlots, DraftTypes
  <2>3. \A i \in BanSlots, j \in PickSlots :
          i < banFlage /\ j < pickFlage' /\ banData[i] # 0 => banData[i] # pickData'[j]
    BY <1>1, <2>1 DEF HeroOnce, PickSlots, DraftTypes
  <2> QED  BY <1>1, <2>2, <2>3 DEF HeroOnce
<1> QED  BY <1>4, <1>5, <1>6, <1>7, <1>8, <1>9 DEF PreviewFree

\* Whatever the status, accepting a choice keeps the draft in order.
LEMMA TurnStep ==
  ASSUME DraftInv, NEW choose \in Int, Acceptable(choose),
         chosen' = chosen \cup ({choose} \ {0}), previewNum' = 0, Turn(choose)
  PROVE  DraftInv'
<1>1. CASE NoTurn
  BY <1>1 DEF NoTurn, DraftInv, DraftTypes, TurnOrder, RestEmpty, TakenAreChosen, HeroOnce,
              Taken, PreviewFree, Published
<1> QED  BY <1>1, BanTurnStep, PickTurnStep DEF Turn

-----------------------------------------------------------------------------
(* The broadcast. *)

\* The typing of what is not the turn's.
RoomTypes == /\ isReady \in [Teams -> BOOLEAN] /\ previewNum \in PreviewNums \cup {0}
             /\ timer \in BOOLEAN /\ orphans \in 0 .. 1
             /\ allPlayers \in Seq(Entries) /\ online \subseteq Ctx
             /\ view \in [Ctx -> Snapshots \cup {NoView}] /\ shown \in Int

\* The invariant is a part about the draft and parts about the list, its screens and the clocks.
LEMMA Split == IInv <=> DraftInv /\ RoomTypes /\ Current /\ OneOrphan
BY DEF IInv, DraftInv, TypeOK, DraftTypes, RoomTypes, Entries

\* After a broadcast every linked connection is up to date.
LEMMA SyncStep ==
  ASSUME view \in [Ctx -> Snapshots \cup {NoView}], Sync, online' = online,
         DraftTypes', (isReady \in [Teams -> BOOLEAN])'
  PROVE  (view \in [Ctx -> Snapshots \cup {NoView}])' /\ Current'
<1>1. Snapshot' \in Snapshots
  BY DEF DraftTypes, Snapshot, Snapshots
<1> QED  BY <1>1 DEF Sync, Current

\* With nothing of the room changed and no one newly linked, nobody falls behind.
LEMMA QuietStep ==
  ASSUME Current, view' = view \/ \E c \in Ctx : online' = online \ {c}
                                        /\ view' = [view EXCEPT ![c] = NoView],
         online' \subseteq online, \A c : Linked(c)' => Linked(c),
         Snapshot' = Snapshot, view \in [Ctx -> Snapshots \cup {NoView}]
  PROVE  Current'
BY DEF Current

-----------------------------------------------------------------------------
(* The actions. *)

\* nextProcess, whoever calls it.
LEMMA NextProcessStep ==
  ASSUME IInv, NEW choose \in Int, NEW current \in BOOLEAN,
         nextProcess(choose, current), orphans' \in {orphans, orphans - 1} \cap Nat
  PROVE  IInv'
<1>0. DraftInv /\ RoomTypes /\ Current /\ OneOrphan
  BY Split
<1>1. /\ previewNum' = 0 /\ isReady' = isReady /\ online' = online
      /\ allPlayers' = allPlayers /\ orphans' \in 0 .. 1
  BY <1>0 DEF nextProcess, RoomTypes
<1>2. CASE ~Acceptable(choose)
  <2>1. UNCHANGED <<draft, RoomJData, view, shown>> /\ timer' = current
    BY <1>2 DEF nextProcess
  <2>2. DraftInv'
    BY <1>0, <1>1, <2>1 DEF draft, DraftInv, DraftTypes, TurnOrder, RestEmpty,
         TakenAreChosen, Taken, HeroOnce, PreviewFree, Published
  <2>3. Snapshot' = Snapshot /\ \A c : Linked(c)' => Linked(c)
    BY <1>1, <2>1 DEF Snapshot, Linked, draft
  <2>4. Current'
    BY <1>0, <1>1, <2>1, <2>3, QuietStep DEF RoomTypes
  <2>5. RoomTypes' /\ OneOrphan'
    BY <1>0, <1>1, <2>1 DEF RoomTypes, OneOrphan, draft
  <2> QED  BY <2>2, <2>4, <2>5, Split, PTL
<1>3. CASE Acceptable(choose)
  <2>1. /\ chosen' = chosen \cup ({choose} \ {0}) /\ Turn(choose)
        /\ timer' = (status' # "END") /\ shown' = 0 /\ Sync
    BY <1>3 DEF nextProcess
  <2>2. DraftInv'
    BY <1>0, <1>1, <1>3, <2>1, TurnStep
  <2>3. (view \in [Ctx -> Snapshots \cup {NoView}])' /\ Current'
    BY <1>0, <1>1, <2>1, <2>2, SyncStep DEF RoomTypes, DraftInv
  <2>4. status' = "WAIT" => status = "WAIT"
    BY <1>0, <2>1 DEF Turn, BanTurn, PickTurn, NoTurn
  <2>5. RoomTypes' /\ OneOrphan'
    BY <1>0, <1>1, <2>1, <2>3, <2>4 DEF RoomTypes, OneOrphan
  <2> QED  BY <2>2, <2>3, <2>5, Split, PTL
<1> QED  BY <1>2, <1>3

\* The second captain's READY starts the draft; the first one's does not.
LEMMA ReadyStep ==
  ASSUME IInv, NEW c \in Ctx, NEW team \in Teams, Ready(c, team)
  PROVE  IInv'
<1>0. DraftInv /\ RoomTypes /\ Current /\ OneOrphan
  BY Split
<1>1. /\ status = "WAIT" /\ banFlage = 0 /\ pickFlage = 0 /\ nowCtrl = 0 /\ orphans = 0
      /\ isReady' \in [Teams -> BOOLEAN] /\ Sync
      /\ UNCHANGED <<chosen, banData, pickData, banFlage, pickFlage, previewNum,
                     allPlayers, online, shown>>
  BY <1>0 DEF Ready, DraftInv, TurnOrder, RoomTypes, OneOrphan
<1>4. DraftInv' /\ (orphans \in 0 .. 1)' /\ (timer \in BOOLEAN)' /\ OneOrphan'
  <2>1. CASE \A t \in Teams : isReady'[t]
    <3>1. /\ status' = "BAN" /\ nowCtrl' = 0 /\ timer' = TRUE
          /\ orphans' = orphans + IF timer THEN 1 ELSE 0
          /\ RoomJData' = [RoomJData EXCEPT !.Status = "BAN", !.nowCtrl = 0,
                                            !.banFlage = banFlage]
      BY <2>1 DEF Ready
    <3>2. DraftTypes' /\ Published'
      BY <1>0, <1>1, <3>1 DEF DraftInv, DraftTypes, Published
    <3>3. TurnOrder'
      BY <1>1, <3>1, Owners DEF TurnOrder
    <3>4. RestEmpty' /\ TakenAreChosen' /\ HeroOnce' /\ PreviewFree'
      BY <1>0, <1>1 DEF DraftInv, RestEmpty, TakenAreChosen, Taken, HeroOnce, PreviewFree
    <3>5. orphans' \in 0 .. 1 /\ timer' \in BOOLEAN /\ OneOrphan'
      BY <1>0, <1>1, <3>1 DEF RoomTypes, OneOrphan
    <3> QED  BY <3>2, <3>3, <3>4, <3>5 DEF DraftInv
  <2>2. CASE \E t \in Teams : ~isReady'[t]
    <3>1. UNCHANGED <<status, nowCtrl, timer, orphans, RoomJData>>
      BY <2>2 DEF Ready
    <3> QED  BY <1>0, <1>1, <3>1 DEF DraftInv, DraftTypes, TurnOrder, RestEmpty,
               TakenAreChosen, Taken, HeroOnce, PreviewFree, Published, RoomTypes, OneOrphan
  <2> QED  BY <2>1, <2>2
<1>5. (view \in [Ctx -> Snapshots \cup {NoView}])' /\ Current'
  BY <1>0, <1>1, <1>4, SyncStep DEF RoomTypes, DraftInv
<1>6. RoomTypes'
  BY <1>0, <1>1, <1>4, <1>5 DEF RoomTypes
<1> QED  BY <1>4, <1>5, <1>6, Split, PTL

\* A preview is refused when its hero is taken.
LEMMA PreviewStep ==
  ASSUME IInv, NEW c \in Ctx, NEW num \in PreviewNums, Preview(c, num)
  PROVE  IInv'
<1>0. DraftInv /\ RoomTypes /\ Current /\ OneOrphan
  BY Split
<1>1. /\ num \in Int /\ (num = 0 \/ num \notin chosen) /\ previewNum' = num
      /\ shown' \in {num, shown}
      /\ UNCHANGED <<draft, isReady, timer, orphans, allPlayers, online, RoomJData, view>>
  BY DEF Preview
<1>2. DraftInv'
  BY <1>0, <1>1 DEF draft, DraftInv, DraftTypes, TurnOrder, RestEmpty, TakenAreChosen,
                    Taken, HeroOnce, PreviewFree, Published
<1>3. RoomTypes' /\ OneOrphan'
  BY <1>0, <1>1 DEF RoomTypes, OneOrphan, draft
<1>4. Current'
  <2>1. Snapshot' = Snapshot /\ \A d : Linked(d)' => Linked(d)
    BY <1>1 DEF Snapshot, Linked, draft
  <2> QED  BY <1>0, <1>1, <2>1, QuietStep DEF RoomTypes
<1> QED  BY <1>2, <1>3, <1>4, Split, PTL

\* A connection that is linked gets the room by the broadcast of its own link.
LEMMA PlayerAddStep ==
  ASSUME IInv, NEW c \in Ctx, NEW team \in Teams \cup {Watcher}, PlayerAdd(c, team)
  PROVE  IInv'
<1>0. DraftInv /\ RoomTypes /\ Current /\ OneOrphan
  BY Split
<1>1. /\ allPlayers' = Append(allPlayers, <<c, team>>) /\ Sync
      /\ UNCHANGED <<draft, isReady, previewNum, timer, orphans, online, RoomJData, shown>>
  BY DEF PlayerAdd
<1>2. DraftInv'
  BY <1>0, <1>1 DEF draft, DraftInv, DraftTypes, TurnOrder, RestEmpty, TakenAreChosen,
                    Taken, HeroOnce, PreviewFree, Published
<1>3. allPlayers' \in Seq(Entries)
  BY <1>0, <1>1, AppendProperties DEF RoomTypes, Entries
<1>4. (view \in [Ctx -> Snapshots \cup {NoView}])' /\ Current'
  BY <1>0, <1>1, <1>2, SyncStep DEF RoomTypes, DraftInv
<1>5. RoomTypes' /\ OneOrphan'
  BY <1>0, <1>1, <1>3, <1>4 DEF RoomTypes, OneOrphan, draft
<1> QED  BY <1>2, <1>4, <1>5, Split, PTL

\* A connection that closes is no longer owed anything.
LEMMA RmPlayerStep ==
  ASSUME IInv, NEW c \in Ctx, RmPlayer(c)
  PROVE  IInv'
<1>0. DraftInv /\ RoomTypes /\ Current /\ OneOrphan
  BY Split
<1>1. PICK k \in DOMAIN allPlayers : allPlayers' = RemoveAt(allPlayers, k)
  BY DEF RmPlayer
<1>2. /\ online' = online \ {c} /\ view' = [view EXCEPT ![c] = NoView]
      /\ UNCHANGED <<draft, isReady, previewNum, timer, orphans, RoomJData, shown>>
  BY DEF RmPlayer
<1>3. DraftInv'
  BY <1>0, <1>2 DEF draft, DraftInv, DraftTypes, TurnOrder, RestEmpty, TakenAreChosen,
                    Taken, HeroOnce, PreviewFree, Published
<1>4. allPlayers' \in Seq(Entries) /\ \A d : Linked(d)' => Linked(d)
  BY <1>0, <1>1, RemoveEntry DEF RoomTypes
<1>5. Current'
  <2>1. Snapshot' = Snapshot
    BY <1>2 DEF Snapshot, draft
  <2> QED  BY <1>0, <1>2, <1>4, <2>1, QuietStep DEF RoomTypes
<1>6. RoomTypes' /\ OneOrphan'
  BY <1>0, <1>2, <1>4 DEF RoomTypes, OneOrphan, draft
<1> QED  BY <1>3, <1>5, <1>6, Split, PTL

-----------------------------------------------------------------------------
(* The inductive invariant. *)

\* A new room satisfies the invariant.
LEMMA InitIInv == Init => IInv
<1> SUFFICES ASSUME Init  PROVE IInv
  OBVIOUS
<1>1. DraftInv
  BY DEF Init, DraftInv, DraftTypes, TurnOrder, RestEmpty, TakenAreChosen, HeroOnce,
         PreviewFree, Published, BanSlots, PickSlots
<1>2. RoomTypes /\ Current /\ OneOrphan
  <2>1. allPlayers = <<>> /\ <<>> \in Seq(Entries) /\ DOMAIN allPlayers = {}
    BY DEF Init
  <2>2. RoomTypes
    <3>1. isReady \in [Teams -> BOOLEAN] /\ timer \in BOOLEAN /\ online \subseteq Ctx
      BY DEF Init
    <3>2. previewNum \in PreviewNums \cup {0} /\ orphans \in 0 .. 1 /\ shown \in Int
      BY DEF Init
    <3>3. view \in [Ctx -> Snapshots \cup {NoView}]
      BY DEF Init
    <3> QED  BY <2>1, <3>1, <3>2, <3>3 DEF RoomTypes
  <2>3. Current /\ OneOrphan
    BY <2>1 DEF Init, Current, OneOrphan, Linked
  <2> QED  BY <2>2, <2>3
<1> QED  BY <1>1, <1>2, Split

\* Every handler and every timeout keeps the invariant.
LEMMA NextIInv == IInv /\ [Next]_vars => IInv'
<1> SUFFICES ASSUME IInv, [Next]_vars  PROVE IInv'
  OBVIOUS
<1>0. orphans \in 0 .. 1 /\ timer \in BOOLEAN /\ previewNum \in Int
  BY DEF IInv, TypeOK
<1>1. ASSUME NEW c \in Ctx, NEW team \in Teams, Ready(c, team)  PROVE IInv'
  BY <1>1, ReadyStep
<1>2. ASSUME NEW c \in Ctx, NEW choose \in HeroNums, Choose(c, choose)  PROVE IInv'
  BY <1>0, <1>2, NextProcessStep DEF Choose
<1>3. ASSUME NEW c \in Ctx, NEW num \in PreviewNums, Preview(c, num)  PROVE IInv'
  BY <1>3, PreviewStep
<1>4. ASSUME NEW j \in Joins, PlayerAdd(j[1], j[2])  PROVE IInv'
  <2>1. j[1] \in Ctx /\ j[2] \in Teams \cup {Watcher}
    OBVIOUS
  <2>2. PICK c \in Ctx, team \in Teams \cup {Watcher} : PlayerAdd(c, team)
    BY <1>4, <2>1
  <2> QED  BY <2>2, PlayerAddStep
<1>5. ASSUME NEW c \in Ctx, RmPlayer(c)  PROVE IInv'
  BY <1>5, RmPlayerStep
<1>6. CASE TimerFires
  <2>1. nextProcess(previewNum, FALSE)
    BY <1>6, Zenon DEF TimerFires
  <2>2. orphans' \in {orphans, orphans - 1} \cap Nat
    BY <1>0, <1>6 DEF TimerFires
  <2>3. FALSE \in BOOLEAN
    OBVIOUS
  <2> QED  BY <1>0, <2>1, <2>2, <2>3, NextProcessStep, Zenon
<1>7. CASE OrphanFires
  BY <1>0, <1>7, NextProcessStep DEF OrphanFires
<1>8. CASE UNCHANGED vars
  <2>1. UNCHANGED draft /\ UNCHANGED <<isReady, previewNum, timer, orphans, allPlayers,
                                       online, RoomJData, view, shown>>
    BY <1>8 DEF vars
  <2>2. DraftInv'
    BY <2>1, Split DEF draft, DraftInv, DraftTypes, TurnOrder, RestEmpty, TakenAreChosen,
                       Taken, HeroOnce, PreviewFree, Published
  <2>3. RoomTypes' /\ Current' /\ OneOrphan'
    BY <2>1, Split DEF draft, RoomTypes, Current, OneOrphan, Snapshot, Linked
  <2> QED  BY <2>2, <2>3, Split, PTL
<1> QED  BY <1>1, <1>2, <1>3, <1>4, <1>5, <1>6, <1>7, <1>8 DEF Next

\* The invariant holds of every room at any time.
LEMMA Invariance == Spec => []IInv
BY InitIInv, NextIInv, PTL DEF Spec

-----------------------------------------------------------------------------
(* The results. *)

\* The flags never run past their arrays, and the room never has more than one
\* timer task that it cannot cancel any more.
THEOREM TypeCorrect == Spec => []TypeOK
BY Invariance, PTL DEF IInv

\* A hero is banned or picked once, in whatever order the packets come.
THEOREM HeroesUnique == Spec => []HeroOnce
BY Invariance, PTL DEF IInv

\* The status, the flags and the team in control never disagree.
THEOREM TurnsInOrder == Spec => []TurnOrder
BY Invariance, PTL DEF IInv

\* A hero that stands in a slot is refused from then on.
THEOREM TakenRefused == Spec => []TakenAreChosen
BY Invariance, PTL DEF IInv

\* A timeout never falls on a hero that has been taken since its preview.
THEOREM PreviewStaysFree == Spec => []PreviewFree
BY Invariance, PTL DEF IInv

\* Every linked connection sees the room as it is.
THEOREM EveryoneUpToDate == Spec => []LinkedUpToDate
<1>1. IInv => LinkedUpToDate
  BY DEF IInv, Current, Published, LinkedUpToDate, Snapshot
<1> QED  BY <1>1, Invariance, PTL

\* No step changes a filled slot, fills two, takes a hero back or goes back.
THEOREM DraftIrrevocable == Spec => Irrevocable
<1> DEFINE Kept ==
      /\ \A i \in BanSlots : i < banFlage => banData'[i] = banData[i]
      /\ \A i \in PickSlots : i < pickFlage => pickData'[i] = pickData[i]
      /\ chosen \subseteq chosen'
      /\ banFlage + pickFlage <= banFlage' + pickFlage'
      /\ banFlage' + pickFlage' <= banFlage + pickFlage + 1
      /\ status = "END" => status' = "END"
      /\ status # "WAIT" => status' # "WAIT"
<1>1. ASSUME IInv, NEW choose, NEW current, nextProcess(choose, current)  PROVE Kept
  <2>0. DraftTypes
    BY <1>1, Split DEF DraftInv
  <2>1. CASE ~Acceptable(choose)
    BY <1>1, <2>0, <2>1 DEF nextProcess, draft, DraftTypes
  <2>2. CASE Acceptable(choose)
    <3>1. chosen \subseteq chosen' /\ (BanTurn(choose) \/ PickTurn(choose) \/ NoTurn)
      BY <1>1, <2>2 DEF nextProcess, Turn
    <3>2. CASE BanTurn(choose)
      <4>1. /\ status = "BAN" /\ status' \in {"BAN", "PICK"}
            /\ banFlage' = banFlage + 1 /\ UNCHANGED <<pickData, pickFlage>>
            /\ banData' = [banData EXCEPT ![banFlage] = choose]
        BY <3>2 DEF BanTurn
      <4> QED  BY <2>0, <3>1, <4>1 DEF DraftTypes, BanSlots
    <3>3. CASE PickTurn(choose)
      BY <2>0, <3>1, <3>3 DEF PickTurn, DraftTypes, PickSlots
    <3>4. CASE NoTurn
      BY <2>0, <3>1, <3>4 DEF NoTurn, DraftTypes
    <3> QED  BY <3>1, <3>2, <3>3, <3>4
  <2> QED  BY <2>1, <2>2
<1>2. ASSUME IInv, UNCHANGED draft  PROVE Kept
  BY <1>2, Split DEF draft, DraftInv, DraftTypes
<1>3. IInv /\ [Next]_vars => [Kept]_vars
  <2> SUFFICES ASSUME IInv, Next  PROVE Kept
    OBVIOUS
  <2> HIDE DEF Kept
  <2>1. ASSUME NEW c \in Ctx, NEW team \in Teams, Ready(c, team)  PROVE Kept
    <3>1. /\ status = "WAIT" /\ status' \in {"WAIT", "BAN"}
          /\ UNCHANGED <<chosen, banData, pickData, banFlage, pickFlage>>
      BY <2>1 DEF Ready
    <3> QED  BY <3>1, Split DEF Kept, DraftInv, DraftTypes
  <2>2. ASSUME NEW c \in Ctx, NEW choose \in HeroNums, Choose(c, choose)  PROVE Kept
    BY <1>1, <2>2 DEF Choose
  <2>3. ASSUME NEW c \in Ctx, NEW num \in PreviewNums, Preview(c, num)  PROVE Kept
    BY <1>2, <2>3 DEF Preview
  <2>4. ASSUME NEW j \in Joins, PlayerAdd(j[1], j[2])  PROVE Kept
    BY <1>2, <2>4 DEF PlayerAdd
  <2>5. ASSUME NEW c \in Ctx, RmPlayer(c)  PROVE Kept
    BY <1>2, <2>5 DEF RmPlayer
  <2>6. CASE TimerFires
    BY <1>1, <2>6 DEF TimerFires
  <2>7. CASE OrphanFires
    BY <1>1, <2>7 DEF OrphanFires
  <2> QED  BY <2>1, <2>2, <2>3, <2>4, <2>5, <2>6, <2>7 DEF Next
<1> QED  BY <1>3, Invariance, PTL DEF Spec, Irrevocable

\* The clock of a running draft is always running, provided previews name
\* heroes of the table (the client's buttons do; the handler does not check).
THEOREM ClockAlwaysRuns ==
  ASSUME \A num \in PreviewNums : num < MaxHeroCount
  PROVE  Spec => []ClockRuns
<1> DEFINE Ticking == previewNum < MaxHeroCount /\ ClockRuns
<1>1. Init => Ticking
  BY DEF Init, ClockRuns
<1>2. ASSUME IInv, Ticking, NEW choose \in Int, NEW current \in BOOLEAN,
             nextProcess(choose, current),
             current \/ Acceptable(choose) \/ ~(status \in {"BAN", "PICK"})
      PROVE  Ticking'
  <2>1. previewNum' < MaxHeroCount
    BY <1>2 DEF nextProcess
  <2>2. CASE Acceptable(choose)
    <3>1. timer' = (status' # "END")
      BY <1>2, <2>2 DEF nextProcess
    <3> QED  BY <2>1, <3>1 DEF ClockRuns
  <2>3. CASE ~Acceptable(choose)
    <3>1. timer' = current /\ status' = status
      BY <1>2, <2>3 DEF nextProcess, draft
    <3> QED  BY <1>2, <2>1, <2>3, <3>1 DEF ClockRuns
  <2> QED  BY <2>2, <2>3
<1>3. IInv /\ Ticking /\ [Next]_vars => Ticking'
  <2> SUFFICES ASSUME IInv, Ticking, [Next]_vars  PROVE Ticking'
    OBVIOUS
  <2>0. /\ timer \in BOOLEAN /\ previewNum \in Int
        /\ previewNum = 0 \/ previewNum \notin chosen
        /\ previewNum < MaxHeroCount
        /\ status \in {"BAN", "PICK"} => timer
    BY DEF IInv, TypeOK, PreviewFree, ClockRuns
  <2>1. ASSUME NEW c \in Ctx, NEW team \in Teams, Ready(c, team)  PROVE Ticking'
    BY <2>0, <2>1 DEF Ready, ClockRuns
  <2>2. ASSUME NEW c \in Ctx, NEW choose \in HeroNums, Choose(c, choose)  PROVE Ticking'
    <3>1. nextProcess(choose, timer) /\ choose \in Int
      BY <2>2 DEF Choose
    <3>2. timer \/ ~(status \in {"BAN", "PICK"})
      BY DEF ClockRuns
    <3> HIDE DEF Ticking
    <3> QED  BY <1>2, <2>0, <3>1, <3>2
  <2>3. ASSUME NEW c \in Ctx, NEW num \in PreviewNums, Preview(c, num)  PROVE Ticking'
    BY <2>0, <2>3 DEF Preview, draft, ClockRuns
  <2>4. ASSUME NEW j \in Joins, PlayerAdd(j[1], j[2])  PROVE Ticking'
    BY <2>0, <2>4 DEF PlayerAdd, draft, ClockRuns
  <2>5. ASSUME NEW c \in Ctx, RmPlayer(c)  PROVE Ticking'
    BY <2>0, <2>5 DEF RmPlayer, draft, ClockRuns
  <2>6. CASE TimerFires
    <3>1. nextProcess(previewNum, FALSE)
      BY <2>6, Zenon DEF TimerFires
    <3>2. Acceptable(previewNum)
      BY <2>0 DEF Acceptable
    <3>3. FALSE \in BOOLEAN
      OBVIOUS
    <3> HIDE DEF Ticking
    <3> QED  BY <1>2, <2>0, <3>1, <3>2, <3>3, Zenon
  <2>7. CASE OrphanFires
    <3>1. nextProcess(previewNum, timer)
      BY <2>7 DEF OrphanFires
    <3>2. Acceptable(previewNum)
      BY <2>0 DEF Acceptable
    <3> HIDE DEF Ticking
    <3> QED  BY <1>2, <2>0, <3>1, <3>2
  <2>8. CASE UNCHANGED vars
    BY <2>0, <2>8 DEF vars, draft, ClockRuns
  <2> QED  BY <2>1, <2>2, <2>3, <2>4, <2>5, <2>6, <2>7, <2>8 DEF Next
<1> QED  BY <1>1, <1>3, Invariance, PTL DEF Spec

-----------------------------------------------------------------------------
(* The room implements the abstract draft, its liveness apart. *)

\* A ban is the next abstract step.
LEMMA BanFills ==
  ASSUME IInv, NEW choose \in Int, Acceptable(choose), BanTurn(choose)
  PROVE  Draft!Fill(choose)
<1>1. /\ status = "BAN" /\ pickFlage = 0 /\ banFlage \in BanSlots
      /\ banData \in [BanSlots -> Int]
      /\ \A i \in BanSlots : i < banFlage => Taken(banData[i])
  BY DEF BanTurn, IInv, TypeOK, TurnOrder, TakenAreChosen, BanSlots
<1>2. /\ banFlage' = banFlage + 1 /\ pickFlage' = 0 /\ pickData' = pickData
      /\ banData' = [banData EXCEPT ![banFlage] = choose]
  BY <1>1 DEF BanTurn
<1>3. banFlage \in 0 .. 2 * BanCount - 1 /\ banFlage' \in 1 .. 2 * BanCount
  BY <1>1, <1>2 DEF BanSlots, DraftSlots
<1>4. ASSUME choose # 0, NEW i \in DraftSlots, i < banFlage + pickFlage
      PROVE  Slot[i] # choose
  <2>1. i \in BanSlots /\ i < banFlage
    BY <1>1, <1>3, <1>4 DEF BanSlots, DraftSlots
  <2>2. Slot[i] = banData[i]
    BY <2>1 DEF Slot
  <2> QED  BY <1>1, <1>4, <2>1, <2>2 DEF Taken, Acceptable
<1>5. Draft!Free(choose)
  BY <1>4 DEF Draft!Free, Draft!Slots, DraftSlots
<1>6. banFlage' + pickFlage' = (banFlage + pickFlage) + 1
  BY <1>1, <1>2, <1>3
<1>7. Slot' = [Slot EXCEPT ![banFlage + pickFlage] = choose]
  <2>1. /\ banFlage + pickFlage = banFlage
        /\ Slot' = [i \in DraftSlots |->
                      IF i \in BanSlots THEN banData'[i] ELSE pickData[i - 2 * BanCount]]
    BY <1>1, <1>2, <1>3 DEF Slot
  <2>2. \A i \in DraftSlots :
          Slot'[i] = IF i = banFlage THEN choose ELSE Slot[i]
    BY <1>1, <1>2, <2>1 DEF Slot
  <2> QED  BY <2>1, <2>2 DEF Slot
<1>8. /\ status' \in {"BAN", "PICK"}
      /\ banFlage' + pickFlage' # 2 * BanCount + 10
      /\ nowCtrl' = IF banFlage' + pickFlage' \in BanSlots
                    THEN banProcess[banFlage' + pickFlage']
                    ELSE pickProcess[banFlage' + pickFlage' - 2 * BanCount]
  <2>1. CASE banFlage' = 2 * BanCount
    <3>1. status' = "PICK" /\ nowCtrl' = 0
      BY <2>1 DEF BanTurn
    <3>2. /\ banFlage' + pickFlage' \notin BanSlots
          /\ banFlage' + pickFlage' - 2 * BanCount = 0
          /\ banFlage' + pickFlage' # 2 * BanCount + 10
      BY <1>2, <2>1 DEF BanSlots, DraftSlots
    <3> QED  BY <3>1, <3>2, Owners
  <2>2. CASE banFlage' # 2 * BanCount
    <3>1. status' = "BAN" /\ nowCtrl' = banProcess[banFlage']
      BY <1>1, <2>2 DEF BanTurn
    <3>2. banFlage' + pickFlage' = banFlage' /\ banFlage' \in BanSlots
      BY <1>2, <1>3, <2>2 DEF BanSlots, DraftSlots
    <3>3. banFlage' # 2 * BanCount + 10
      BY <1>3
    <3> QED  BY <3>1, <3>2, <3>3
  <2> QED  BY <2>1, <2>2
<1>9. banFlage + pickFlage \in DraftSlots /\ banFlage' + pickFlage' \in DraftSlots
  BY <1>1, <1>2, <1>3 DEF DraftSlots
<1>10. Stage = "drafting" /\ Stage' = "drafting"
  BY <1>1, <1>8 DEF Stage
<1>11. nowCtrl' = Order[banFlage' + pickFlage']
  BY <1>2, <1>3, <1>8, <1>9 DEF Order, DraftSlots
<1> QED
  BY <1>5, <1>6, <1>7, <1>8, <1>10, <1>11 DEF Draft!Fill

\* So is a pick, and the tenth completes the draft.
LEMMA PickFills ==
  ASSUME IInv, NEW choose \in Int, Acceptable(choose), PickTurn(choose)
  PROVE  Draft!Fill(choose)
<1>1. /\ status = "PICK" /\ banFlage = 2 * BanCount /\ pickFlage \in PickSlots
      /\ pickData \in [PickSlots -> Int] /\ banData \in [BanSlots -> Int]
      /\ \A i \in BanSlots : Taken(banData[i])
      /\ \A i \in PickSlots : i < pickFlage => Taken(pickData[i])
  <2>1. /\ status = "PICK" /\ banFlage = 2 * BanCount /\ pickFlage \in PickSlots
        /\ pickData \in [PickSlots -> Int] /\ banData \in [BanSlots -> Int]
    <3>1. status = "PICK"
      BY DEF PickTurn
    <3>2. banFlage = 2 * BanCount /\ pickFlage < 10 /\ pickFlage \in 0 .. 10
      BY <3>1 DEF IInv, TypeOK, TurnOrder
    <3>3. pickData \in [PickSlots -> Int] /\ banData \in [BanSlots -> Int]
      BY DEF IInv, TypeOK
    <3>4. pickFlage \in PickSlots
      BY <3>2 DEF PickSlots
    <3> QED  BY <3>1, <3>2, <3>3, <3>4
  <2>2. /\ \A i \in BanSlots : i < banFlage => Taken(banData[i])
        /\ \A i \in PickSlots : i < pickFlage => Taken(pickData[i])
    BY DEF IInv, TakenAreChosen
  <2> QED  BY <2>1, <2>2 DEF BanSlots, DraftSlots
<1>2. /\ pickFlage' = pickFlage + 1 /\ banFlage' = banFlage /\ banData' = banData
      /\ pickData' = [pickData EXCEPT ![pickFlage] = choose]
      /\ status' = IF pickFlage' = 10 THEN "END" ELSE "PICK"
      /\ nowCtrl' = IF pickFlage' = 10 THEN nowCtrl ELSE pickProcess[pickFlage']
  BY <1>1 DEF PickTurn
<1>3. pickFlage \in 0 .. 9 /\ pickFlage' \in 1 .. 10
  BY <1>1, <1>2 DEF PickSlots
<1>4. ASSUME choose # 0, NEW i \in DraftSlots, i < banFlage + pickFlage
      PROVE  Slot[i] # choose
  <2>1. CASE i \in BanSlots
    BY <1>1, <1>4, <2>1 DEF Slot, Taken, Acceptable
  <2>2. CASE i \notin BanSlots
    <3>1. i - 2 * BanCount \in PickSlots /\ i - 2 * BanCount < pickFlage
      BY <1>1, <1>3, <1>4, <2>2 DEF BanSlots, PickSlots, DraftSlots
    <3>2. Slot[i] = pickData[i - 2 * BanCount]
      BY <2>2 DEF Slot
    <3> QED  BY <1>1, <1>4, <3>1, <3>2 DEF Taken, Acceptable
  <2> QED  BY <2>1, <2>2
<1>5. Draft!Free(choose)
  BY <1>4 DEF Draft!Free, Draft!Slots, DraftSlots
<1>6. banFlage' + pickFlage' = (banFlage + pickFlage) + 1
  BY <1>1, <1>2, <1>3
<1>7. Slot' = [Slot EXCEPT ![banFlage + pickFlage] = choose]
  <2>1. Slot' = [i \in DraftSlots |->
                   IF i \in BanSlots THEN banData[i] ELSE pickData'[i - 2 * BanCount]]
    BY <1>2 DEF Slot
  <2>2. ASSUME NEW i \in DraftSlots
        PROVE  Slot'[i] = IF i = banFlage + pickFlage THEN choose ELSE Slot[i]
    <3>1. CASE i \in BanSlots
      BY <1>1, <1>3, <2>1, <3>1 DEF Slot, BanSlots
    <3>2. CASE i \notin BanSlots
      <4>1. /\ i - 2 * BanCount \in PickSlots
            /\ i = banFlage + pickFlage <=> i - 2 * BanCount = pickFlage
        BY <1>1, <1>3, <3>2 DEF BanSlots, PickSlots, DraftSlots
      <4> QED  BY <1>1, <1>2, <2>1, <3>2, <4>1 DEF Slot
    <3> QED  BY <3>1, <3>2
  <2> QED  BY <2>1, <2>2 DEF Slot
<1>8. /\ banFlage' + pickFlage' = 2 * BanCount + 10 <=> pickFlage' = 10
      /\ banFlage' + pickFlage' \notin BanSlots
      /\ banFlage' + pickFlage' - 2 * BanCount = pickFlage'
      /\ pickFlage' # 10 => banFlage' + pickFlage' \in DraftSlots
      /\ banFlage + pickFlage \in DraftSlots
  BY <1>1, <1>2, <1>3 DEF BanSlots, DraftSlots
<1>9. /\ status' \in {"BAN", "PICK", "END"}
      /\ status' = "END" <=> pickFlage' = 10
  BY <1>2
<1>10. Stage = "drafting" /\ Stage' = IF pickFlage' = 10 THEN "complete" ELSE "drafting"
  BY <1>1, <1>2 DEF Stage
<1>11. pickFlage' # 10 => nowCtrl' = Order[banFlage' + pickFlage']
  BY <1>1, <1>2, <1>3, <1>8 DEF Order, DraftSlots
<1> QED
  BY <1>2, <1>5, <1>6, <1>7, <1>8, <1>10, <1>11 DEF Draft!Fill

\* Every behaviour of the room is a behaviour of the abstract draft: every
\* step fills the next slot, starts the draft, or is none of its business.
THEOREM RoomImplementsDraft == Spec => Draft!Init /\ [][Draft!Next]_(Draft!vars)
<1>1. Init => Draft!Init
  <2> SUFFICES ASSUME Init  PROVE Draft!Init
    OBVIOUS
  <2>1. Slot = [i \in DraftSlots |-> -1]
    BY DEF Init, Slot, BanSlots, PickSlots, DraftSlots
  <2>2. 0 \in BanSlots /\ 0 \in DraftSlots
    BY DEF BanSlots, DraftSlots
  <2> QED  BY <2>1, <2>2, Owners DEF Init, Draft!Init, Draft!Slots, Stage, Order, DraftSlots
<1>2. ASSUME UNCHANGED draft  PROVE UNCHANGED Draft!vars
  BY <1>2 DEF draft, Draft!vars, Stage, Slot
<1> DEFINE Step == Draft!Next \/ UNCHANGED Draft!vars
<1>3. ASSUME IInv, NEW choose \in HeroNums \cup PreviewNums \cup {0}, NEW current,
             nextProcess(choose, current)
      PROVE  Step
  <2>0. choose \in Int
    OBVIOUS
  <2>1. CASE ~Acceptable(choose)
    BY <1>2, <1>3, <2>1 DEF nextProcess
  <2>2. CASE Acceptable(choose) /\ NoTurn
    BY <2>2 DEF NoTurn, Draft!vars, Stage, Slot
  <2>3. CASE Acceptable(choose) /\ (BanTurn(choose) \/ PickTurn(choose))
    <3>1. Draft!Fill(choose)
      BY <1>3, <2>0, <2>3, BanFills, PickFills
    <3>2. choose \in Hero
      BY <1>3, <2>3 DEF Acceptable, Hero
    <3> QED  BY <3>1, <3>2 DEF Draft!Next
  <2> QED  BY <1>3, <2>1, <2>2, <2>3 DEF nextProcess, Turn
<1>4. IInv /\ [Next]_vars => [Draft!Next]_(Draft!vars)
  <2> SUFFICES ASSUME IInv, [Next]_vars  PROVE Step
    OBVIOUS
  <2> HIDE DEF Step
  <2>1. ASSUME NEW c \in Ctx, NEW team \in Teams, Ready(c, team)  PROVE Step
    <3>1. /\ status = "WAIT" /\ banFlage = 0 /\ pickFlage = 0 /\ nowCtrl = 0
          /\ UNCHANGED <<banData, pickData, banFlage, pickFlage>>
          /\ (status' = "BAN" /\ nowCtrl' = 0) \/ UNCHANGED <<status, nowCtrl>>
      BY <2>1 DEF Ready, IInv, TurnOrder
    <3>2. UNCHANGED Slot
      BY <3>1 DEF Slot
    <3>3. Stage = "waiting" /\ (status' = "BAN" => Stage' = "drafting")
          /\ (status' = status => Stage' = Stage)
      BY <3>1 DEF Stage
    <3> QED  BY <3>1, <3>2, <3>3 DEF Step, Draft!Next, Draft!Start, Draft!vars
  <2>2. ASSUME NEW c \in Ctx, NEW choose \in HeroNums, Choose(c, choose)  PROVE Step
    BY <1>3, <2>2 DEF Choose
  <2>3. ASSUME NEW c \in Ctx, NEW num \in PreviewNums, Preview(c, num)  PROVE Step
    BY <1>2, <2>3 DEF Preview, Step
  <2>4. ASSUME NEW j \in Joins, PlayerAdd(j[1], j[2])  PROVE Step
    BY <1>2, <2>4 DEF PlayerAdd, Step
  <2>5. ASSUME NEW c \in Ctx, RmPlayer(c)  PROVE Step
    BY <1>2, <2>5 DEF RmPlayer, Step
  <2>6. CASE TimerFires
    <3>1. nextProcess(previewNum, FALSE)
      BY <2>6, Zenon DEF TimerFires
    <3>2. previewNum \in HeroNums \cup PreviewNums \cup {0}
      BY DEF IInv, TypeOK
    <3> QED  BY <1>3, <3>1, <3>2, Zenon
  <2>7. CASE OrphanFires
    BY <1>3, <2>7 DEF OrphanFires, IInv, TypeOK
  <2>8. CASE UNCHANGED vars
    BY <1>2, <2>8 DEF vars, Step
  <2> QED  BY <2>1, <2>2, <2>3, <2>4, <2>5, <2>6, <2>7, <2>8 DEF Next
<1> QED  BY <1>1, <1>4, Invariance, PTL DEF Spec
=============================================================================
