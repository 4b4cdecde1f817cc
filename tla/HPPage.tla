------------------------------- MODULE HPPage -------------------------------
(***************************************************************************)
(* The page of one captain of an HP draft (HP_BPSystem/.../UI/View/        *)
(* UI_BP.ts) and the server it talks to.  The page puts cards in the       *)
(* places of its groups and sees only what the server answers; the answers *)
(* come from two threads, and may overtake each other.  When the bans      *)
(* begin the page shows groups again: those of the team to be banned from. *)
(*                                                                         *)
(* The room is that of HPBanRoom, reduced to what reaches this page; its   *)
(* text is written at once.  All places take cards of one type, as places  *)
(* 0 to 7 do.  Pictures, names and the countdown are left out, and a lost  *)
(* connection, which only stops the page.                                  *)
(***************************************************************************)
EXTENDS Integers, Sequences, FiniteSets, SequencesExt

CONSTANTS composeCount,  \* groups of each team
          Places,        \* places of a group
          Card,          \* the cards of the table
          myTeam,        \* the team of the page's link
          OtherPlaces,   \* the <<team, group, place>> that other pages fill
          PackThreads,   \* the server's threads
          MaxPackets     \* bound: packets on their way, either way, or waiting

Teams  == {0, 1}
Groups == 0 .. composeCount - 1
NoCard == 0
Masked == -1
NoTurn == -1
Idle   == [pt |-> "none"]
NoSync == [Status |-> "NONE", NowCtrl |-> NoTurn]

ASSUME CountAssumption  == composeCount \in Nat \ {0}
ASSUME PlacesAssumption == Places \subseteq 0 .. 7 /\ 0 \in Places
ASSUME CardAssumption   == Card \subseteq Nat \ {0}
ASSUME TeamAssumption   == myTeam \in Teams
ASSUME OtherAssumption  == OtherPlaces \subseteq Teams \X Groups \X Places

VARIABLES
  status, nowCtrl, composeData,  \* the room
  linked,     \* the page in the room: "no", "listed" or "answered"
  socket,     \* the packets on their way to the page
  sent,       \* the requests of the page that no thread has taken
  job,        \* job[t]: what thread t runs, or has to write
  isInit, SyncData, ComposeGroup, nowGroup, NowChooseCard,
  Id,         \* Id[p]: the Id of the CardButton of place p
  box,        \* the cards the open box offers; empty when it is closed
  waiters,    \* the SYNC texts that wait for isInit
  gone,       \* the page has left for the result
  ran,        \* history: the threads with an answer to write, in the order they ran
  overtaken,  \* history: an answer was written before an older one
  hasty,      \* history: a place was clicked before all answers were there
  late        \* history: an answer came when the bans were on the screen

room    == <<status, nowCtrl, composeData>>
server  == <<job, ran, overtaken>>
choice  == <<NowChooseCard, box, hasty>>
shown   == <<ComposeGroup, Id>>
page    == <<isInit, SyncData, shown, nowGroup, choice, waiters, gone, late>>
vars    == <<room, linked, socket, sent, server, page>>

AllGroups(v) == [g \in Groups |-> [p \in Places |-> v]]

Init ==
  /\ status = "WAIT" /\ nowCtrl = NoTurn
  /\ composeData = [t \in Teams |-> AllGroups(NoCard)]
  /\ linked = "no" /\ socket = <<>> /\ sent = <<>>
  /\ job = [t \in PackThreads |-> Idle] /\ ran = <<>> /\ overtaken = FALSE
  /\ isInit = FALSE /\ SyncData = NoSync
  /\ ComposeGroup = AllGroups(NoCard) /\ Id = [p \in Places |-> NoCard]
  /\ nowGroup = 0 /\ NowChooseCard = 0 /\ box = {} /\ hasty = FALSE
  /\ waiters = <<>> /\ gone = FALSE /\ late = FALSE

-----------------------------------------------------------------------------
\* The room.

hide == {0, 1, 2, 3, 8, 9, 11}
Mask(groups) == [g \in Groups |-> [p \in Places |-> IF p \in hide THEN groups[g][p] ELSE Masked]]

\* GetAllCompose(true): at the name of a team, what that team bans from.
\* (Mutant: its own groups.)
HideComposeOwn == [t \in Teams |-> Mask(composeData[t])]
HideCompose    == [t \in Teams |-> Mask(composeData[1 - t])]

\* RoomJData.toString(); the cards no longer change when HideCompose is in it.
Text == [Status |-> status, NowCtrl |-> nowCtrl,
         HideCompose |-> IF nowCtrl = NoTurn THEN <<>> ELSE HideCompose]

Listening == linked \in {"listed", "answered"}
Busy == {t \in PackThreads : job[t] # Idle}
Space == Len(socket) + Len(waiters) + Len(sent) + Cardinality(Busy) < MaxPackets
Send(text) == /\ Space
              /\ socket' = Append(socket, [pt |-> "SYNC", data |-> text])
broadcast == IF Listening THEN Send(Text') ELSE UNCHANGED socket

\* Both are ready; the time to compose, the first turn or the second is up.
SetStatus ==
  /\ \/ status = "WAIT" /\ status' = "COMPOSE" /\ UNCHANGED nowCtrl
     \/ status = "COMPOSE" /\ status' = "BAN" /\ nowCtrl' = 0
     \/ status = "BAN" /\ nowCtrl' = nowCtrl + 1 /\ status' = IF nowCtrl = 0 THEN "BAN" ELSE "END"
  /\ UNCHANGED <<composeData, linked, sent, server, page>>
  /\ broadcast

\* Somebody else is linked, or is ready first, or bans: the page hears the room again.
PlayerAdd == /\ Listening /\ Send(Text)
             /\ UNCHANGED <<room, linked, sent, server, page>>

\* The other captain composes, or an earlier page of this one did;
\* both wait for each card.
OtherCompose ==
  /\ status = "COMPOSE"
  /\ \E o \in OtherPlaces, c \in Card :
       /\ o[1] # myTeam \/ linked = "no"
       /\ \A q \in Places : composeData[o[1]][o[2]][q] # c
       /\ composeData' = [composeData EXCEPT ![o[1]][o[2]][o[3]] = c]
  /\ UNCHANGED <<status, nowCtrl, linked, socket, sent, server, page>>

\* The page's LINK_ROOM: it is listed and the room is broadcast; then it is
\* answered.  (One that is refused leaves, as in LOLMPage.)
LinkRoom ==
  /\ \/ linked = "no" /\ linked' = "listed" /\ Send(Text)
     \/ linked = "listed" /\ linked' = "answered"
        /\ socket' = Append(socket, [pt |-> "LINK_ROOM", data |-> 0])
  /\ UNCHANGED <<room, sent, server, page>>

-----------------------------------------------------------------------------
\* The threads of the server.

Take(t) ==
  /\ job[t] = Idle /\ sent # <<>>
  /\ job' = [job EXCEPT ![t] = Head(sent)] /\ sent' = Tail(sent)
  /\ UNCHANGED <<room, linked, socket, ran, overtaken, page>>

\* Thread t has changed or read the groups, and has this to write.
ToWrite(t, answer) == /\ job' = [job EXCEPT ![t] = [pt |-> "answer", data |-> answer]]
                      /\ ran' = Append(ran, t)

\* A card goes in its place, and the team is told; nothing, once the bans are on.
Compose(t) ==
  /\ job[t].pt = "COMPOSE"
  /\ \/ /\ status = "COMPOSE"
        /\ composeData' = [composeData EXCEPT ![myTeam][job[t].group][job[t].no] = job[t].choose]
        /\ ToWrite(t, job[t])
     \/ /\ status # "COMPOSE"
        /\ job' = [job EXCEPT ![t] = Idle]
        /\ UNCHANGED <<composeData, ran>>

\* The reply is made: the groups as they are now.
GetCompose(t) ==
  /\ job[t].pt = "GET_COMPOST"
  /\ ToWrite(t, [pt |-> "GET_COMPOST", pick |-> composeData[myTeam]])
  /\ UNCHANGED composeData

Run(t) == /\ Compose(t) \/ GetCompose(t)
          /\ UNCHANGED <<status, nowCtrl, linked, socket, sent, overtaken, page>>

Write(t) ==
  /\ job[t].pt = "answer"
  /\ socket' = Append(socket, job[t].data)
  /\ job' = [job EXCEPT ![t] = Idle]
  /\ \E k \in DOMAIN ran : /\ ran[k] = t /\ ran' = RemoveAt(ran, k)
                           /\ overtaken' = (overtaken \/ k # 1)
  /\ UNCHANGED <<room, linked, sent, page>>

-----------------------------------------------------------------------------
\* The callbacks of the page.

\* CardButton.Init: a button that gets no card keeps its Id.
InitId(card, id) == IF card \in Card THEN card ELSE id
SetGroup(groups, group) == Id' = [p \in Places |-> InitId(groups[group][p], Id[p])]

Shows(groups) == ComposeGroup' = groups /\ SetGroup(groups, nowGroup)

\* SyncCallBack once isInit is set.  (Mutant: the groups are not asked for.)
DrawComposeMute(d) == /\ d.Status = "COMPOSE"
                      /\ SyncData' = [Status |-> "COMPOSE", NowCtrl |-> NoTurn]
                      /\ UNCHANGED <<sent, shown, choice, gone>>
DrawCompose(d) == /\ d.Status = "COMPOSE"
                  /\ SyncData' = [Status |-> "COMPOSE", NowCtrl |-> NoTurn]
                  /\ sent' = Append(sent, [pt |-> "GET_COMPOST"])
                  /\ UNCHANGED <<shown, choice, gone>>
DrawBan(d) == /\ d.Status = "BAN"
              /\ SyncData' = [Status |-> "BAN", NowCtrl |-> d.NowCtrl]
              /\ Shows(d.HideCompose[d.NowCtrl])
              /\ box' = {} /\ UNCHANGED <<NowChooseCard, hasty, sent, gone>>
Draw(d) ==
  \/ /\ d.Status = "WAIT" /\ SyncData' = [Status |-> "WAIT", NowCtrl |-> NoTurn]
     /\ UNCHANGED <<sent, shown, choice, gone>>
  \/ DrawCompose(d)
  \/ DrawBan(d)
  \/ /\ d.Status = "END" /\ gone' = TRUE
     /\ UNCHANGED <<sent, SyncData, shown, choice>>

GetLinkCallBack ==
  /\ isInit' = TRUE /\ ComposeGroup' = AllGroups(NoCard)
  /\ UNCHANGED <<sent, SyncData, Id, choice, waiters, gone, late>>

SyncCallBack(d) ==
  \/ isInit /\ Draw(d) /\ UNCHANGED <<isInit, waiters, late>>
  \/ /\ ~isInit /\ waiters' = Append(waiters, d)
     /\ UNCHANGED <<isInit, sent, SyncData, shown, choice, gone, late>>

\* rCompose and rGetCompose, whatever the page shows by now.
Answered(groups) ==
  /\ Shows(groups)
  /\ late' = (late \/ SyncData.Status = "BAN")
  /\ UNCHANGED <<isInit, sent, SyncData, choice, waiters, gone>>
rCompose(c) == Answered([ComposeGroup EXCEPT ![c.group][c.no] = c.choose])
rGetCompose(c) == Answered(c.pick)

onmessage ==
  /\ ~gone /\ socket # <<>>
  /\ socket' = Tail(socket)
  /\ LET packet == Head(socket)
     IN \/ packet.pt = "LINK_ROOM" /\ GetLinkCallBack
        \/ packet.pt = "SYNC" /\ SyncCallBack(packet.data)
        \/ packet.pt = "COMPOSE" /\ rCompose(packet)
        \/ packet.pt = "GET_COMPOST" /\ rGetCompose(packet)
  /\ UNCHANGED <<room, linked, server, nowGroup>>

\* The 100 ms of a text that waits are over, and the answer to LINK_ROOM is there.
Wait ==
  /\ ~gone /\ isInit
  /\ \E k \in DOMAIN waiters : Draw(waiters[k]) /\ waiters' = RemoveAt(waiters, k)
  /\ UNCHANGED <<room, linked, socket, server, isInit, nowGroup, late>>

-----------------------------------------------------------------------------
\* The clicks.  The open box covers the places and the arrows.

Outstanding == \/ sent # <<>> \/ Busy # {}
               \/ \E k \in DOMAIN socket : socket[k].pt \in {"COMPOSE", "GET_COMPOST"}

\* The card is in the group already, and not in the place that was clicked.
IsChoose(num, place) == /\ num # Id[place]
                        /\ \E p \in Places : ComposeGroup[nowGroup][p] = num
Filter(num, place) == ~IsChoose(num, place)
OpenChoosBox(place) == {c \in Card : Filter(c, place)}

\* A click on a place opens the box with the cards that may go there.
ShowChooseBox(place) ==
  /\ ~gone /\ SyncData.Status = "COMPOSE" /\ box = {}
  /\ NowChooseCard' = place
  /\ box' = OpenChoosBox(place)
  /\ hasty' = (hasty \/ Outstanding)
  /\ UNCHANGED <<room, linked, socket, sent, server, isInit, SyncData, shown, nowGroup,
                 waiters, gone, late>>

\* A click on a card of the box closes it and sends the card.
SetChooseCardData(num) ==
  /\ ~gone /\ SyncData.Status = "COMPOSE" /\ num \in box
  /\ Space
  /\ sent' = Append(sent, [pt |-> "COMPOSE", choose |-> num, group |-> nowGroup,
                           no |-> NowChooseCard])
  /\ box' = {}
  /\ UNCHANGED <<room, linked, socket, server, isInit, SyncData, shown, nowGroup,
                 NowChooseCard, hasty, waiters, gone, late>>

\* Left or right; in the bans, too.
SwitchGroup(next) ==
  /\ ~gone /\ SyncData.Status \in {"COMPOSE", "BAN"} /\ box = {}
  /\ nowGroup' = (nowGroup + next) % composeCount
  /\ SetGroup(ComposeGroup, nowGroup')
  /\ UNCHANGED <<room, linked, socket, sent, server, isInit, SyncData, ComposeGroup,
                 choice, waiters, gone, late>>

-----------------------------------------------------------------------------
Next == \/ SetStatus \/ PlayerAdd \/ OtherCompose \/ LinkRoom
        \/ \E t \in PackThreads : Take(t) \/ Run(t) \/ Write(t)
        \/ onmessage \/ Wait
        \/ \E p \in Places : ShowChooseBox(p)
        \/ \E c \in Card : SetChooseCardData(c)
        \/ \E next \in {-1, 1} : SwitchGroup(next)

Spec == Init /\ [][Next]_vars

-----------------------------------------------------------------------------
(***************************************************************************)
(* Properties.                                                             *)
(***************************************************************************)
\* A captain who composes, also on a page that was opened again, sees the groups
\* that the server has, once every request is answered and unless two answers
\* have changed places.
GroupsTrue ==
  SyncData.Status = "COMPOSE" /\ ~Outstanding /\ ~overtaken
    => ComposeGroup = composeData[myTeam]

\* In a turn of the bans the page shows, masked, the groups of the other team,
\* unless an answer from the time of composing came late.
BansAgainstTheOther ==
  SyncData.Status = "BAN" /\ ~late =>
    ComposeGroup = Mask(composeData[1 - SyncData.NowCtrl])

\* A captain who waits for each card to be there never has one twice in a group.
CardOnce ==
  ~hasty /\ ~overtaken =>
    \A g \in Groups, p, q \in Places :
      p # q /\ composeData[myTeam][g][p] # NoCard
        => composeData[myTeam][g][p] # composeData[myTeam][g][q]
=============================================================================
