------------------------------ MODULE HPBanRoom ------------------------------
(***************************************************************************)
(* One HPBanRoom (GameServer/.../Base/HPBanRoom.java): each team composes  *)
(* a few groups of twelve cards out of the other's sight; then each, in    *)
(* turn, bans one of the other's groups, of which it sees only some cards; *)
(* then everybody sees everything.  Phases and turns end by the clock.     *)
(*                                                                         *)
(* One action is one whole call of a handler, or one run of a timer task.  *)
(* COMPOSE and GET_COMPOST packets name a team themselves, and the room    *)
(* does not compare it with the team that their sender was linked as.      *)
(***************************************************************************)
EXTENDS Integers, Sequences, SequencesExt

CONSTANTS composeCount,  \* groups of each team
          Cards,         \* the cards a COMPOSE packet may carry
          Composed,      \* the places <<group, no>> that COMPOSE packets fill
          ChooseNums,    \* the values a CHOOSE packet may carry
          Ctx,           \* connections, by their channel id
          Joins,         \* the <<connection, team>> pairs that ask to be linked
          Asks,          \* the <<connection, team>> pairs that GET_COMPOST packets ask by
          MaxPlayers     \* bound: entries of allPlayers

Teams   == {0, 1}        \* 0 is blue, 1 is red
Watcher == -1
Groups  == 0 .. composeCount - 1
Places  == Groups \X (0 .. 11)
NotPut  == <<>>          \* a key that RoomJData does not have yet
NoBan   == -1
NoTurn  == -1
NoView  == [Status |-> "NONE"]

ASSUME ComposeAssumption == composeCount \in Nat \ {0} /\ Composed \subseteq Places
ASSUME NumsAssumption    == Cards \subseteq Nat /\ ChooseNums \subseteq Int
ASSUME JoinsAssumption   == Joins \subseteq Ctx \X (Teams \cup {Watcher})
ASSUME AsksAssumption    == Asks \subseteq Ctx \X Teams

VARIABLES
  status, isReady, banData, composeData, nowCtrl,
  task,        \* what the pending timer task does: "SetStatus", "nextProcess", or "none"
  allPlayers, online,
  RoomJData,   \* what RoomJData holds beside its references to the arrays
  view,        \* view[c]: the last SYNC connection c received, or NoView
  seen         \* seen[c]: the <<team, place>> whose card c was sent

data    == <<banData, composeData, nowCtrl>>
players == <<allPlayers, online>>
vars    == <<status, isReady, data, task, players, RoomJData, view, seen>>

\* The cards that are shown to the banning team; the code's name says hidden.
hide == {0, 1, 2, 3, 8, 9, 11}
Hidden == {p \in Places : p[2] \notin hide}

\* GetAllCompose(true): what is put at the name of a team is the other's groups.
HideCompose == [t \in Teams |-> [p \in Places |->
                  IF p \in Hidden THEN -1 ELSE composeData[1 - t][p]]]

Init ==
  /\ status = "WAIT"
  /\ isReady = [t \in Teams |-> FALSE]
  /\ banData = [t \in Teams |-> NoBan]
  /\ composeData = [t \in Teams |-> [p \in Places |-> 0]]
  /\ nowCtrl = 0 /\ task = "none"
  /\ allPlayers = <<>> /\ online = Ctx
  /\ RoomJData = [Status |-> "WAIT", BanList |-> FALSE, NowCtrl |-> NoTurn,
                  HideCompose |-> NotPut, Compose |-> FALSE]
  /\ view = [c \in Ctx |-> NoView]
  /\ seen = [c \in Ctx |-> {}]

-----------------------------------------------------------------------------
Linked(c) == \E i \in DOMAIN allPlayers : allPlayers[i][1] = c

\* Connection c is linked as a member of the team, or as a watcher.
Member(c, team) == \E i \in DOMAIN allPlayers : allPlayers[i] = <<c, team>>

\* findPlayer returns entry k of allPlayers: the first of connection c.
findPlayer(c, k) == /\ allPlayers[k][1] = c
                    /\ \A i \in DOMAIN allPlayers : i < k => allPlayers[i][1] # c

\* RoomJData.toString(): BanList and Compose are the arrays as they are now.
Snapshot == [Status |-> RoomJData.Status, Ready |-> isReady,
             BanList |-> IF RoomJData.BanList THEN banData ELSE NotPut,
             NowCtrl |-> RoomJData.NowCtrl, HideCompose |-> RoomJData.HideCompose,
             Compose |-> IF RoomJData.Compose THEN composeData ELSE NotPut]

\* The places whose cards are in that text.
Told == (IF RoomJData.HideCompose = NotPut THEN {} ELSE Teams \X (Places \ Hidden))
          \cup (IF RoomJData.Compose THEN Teams \X Places ELSE {})

\* broadcast(RoomJData.toString(), SYNC), the last thing a handler does.
\* (Mutant: the text is taken too early.)
Hears(c) == c \in online /\ Linked(c)'
SyncEarly == /\ view' = [c \in Ctx |-> IF Hears(c) THEN Snapshot ELSE view[c]]
             /\ seen' = [c \in Ctx |-> IF Hears(c) THEN seen[c] \cup Told ELSE seen[c]]
Sync == /\ view' = [c \in Ctx |-> IF Hears(c) THEN Snapshot' ELSE view[c]]
        /\ seen' = [c \in Ctx |-> IF Hears(c) THEN seen[c] \cup Told' ELSE seen[c]]

-----------------------------------------------------------------------------
\* The handlers of the packets of connection c.

Ready(c, team) ==
  /\ c \in online /\ Linked(c)
  /\ status = "WAIT"
  /\ isReady' = [isReady EXCEPT ![team] = TRUE]
  /\ \/ /\ \A t \in Teams : isReady'[t]        \* SetStatus(COMPOSE)
        /\ status' = "COMPOSE" /\ task' = "SetStatus"
        /\ RoomJData' = [RoomJData EXCEPT !.Status = "COMPOSE"]
     \/ /\ \E t \in Teams : ~isReady'[t]
        /\ UNCHANGED <<status, task, RoomJData>>
  /\ UNCHANGED <<data, players>>
  /\ Sync

\* Mutant: either team may ban, in the slot of its own.
ChooseAnyTeam(c, choose) ==
  /\ c \in online
  /\ status = "BAN"
  /\ \E k \in DOMAIN allPlayers : /\ findPlayer(c, k) /\ allPlayers[k][2] \in Teams
                                 /\ banData' = [banData EXCEPT ![allPlayers[k][2]] = choose]
  /\ RoomJData' = [RoomJData EXCEPT !.BanList = TRUE]
  /\ UNCHANGED <<status, isReady, composeData, nowCtrl, task, players>>
  /\ Sync

\* A ban; it may be changed until the turn's time is up.
Choose(c, choose) ==
  /\ c \in online
  /\ status = "BAN"
  /\ \E k \in DOMAIN allPlayers : findPlayer(c, k) /\ allPlayers[k][2] = nowCtrl
  /\ banData' = [banData EXCEPT ![nowCtrl] = choose]
  /\ RoomJData' = [RoomJData EXCEPT !.BanList = TRUE]
  /\ UNCHANGED <<status, isReady, composeData, nowCtrl, task, players>>
  /\ Sync

\* Mutants: the groups may still change when the bans are on; everybody is told.
ComposeAnyTime(c, team, place, choose) ==
  /\ c \in online /\ Linked(c)
  /\ composeData' = [composeData EXCEPT ![team][place] = choose]
  /\ UNCHANGED <<status, isReady, banData, nowCtrl, task, players, RoomJData, view, seen>>
ComposeToAll(c, team, place, choose) ==
  /\ c \in online /\ Linked(c)
  /\ status = "COMPOSE"
  /\ composeData' = [composeData EXCEPT ![team][place] = choose]
  /\ seen' = [d \in Ctx |-> IF d \in online /\ Linked(d)
                            THEN seen[d] \cup {<<team, place>>} ELSE seen[d]]
  /\ UNCHANGED <<status, isReady, banData, nowCtrl, task, players, RoomJData, view>>

\* A card goes in a place of the team that the packet names, and that team is told.
Compose(c, team, place, choose) ==
  /\ c \in online /\ Linked(c)
  /\ status = "COMPOSE"
  /\ composeData' = [composeData EXCEPT ![team][place] = choose]
  /\ seen' = [d \in Ctx |-> IF d \in online /\ Member(d, team)
                            THEN seen[d] \cup {<<team, place>>} ELSE seen[d]]
  /\ UNCHANGED <<status, isReady, banData, nowCtrl, task, players, RoomJData, view>>

\* The reply holds the groups of the team that the packet names.
GetCompose(c, team) ==
  /\ c \in online /\ Linked(c)
  /\ seen' = [seen EXCEPT ![c] = @ \cup ({team} \X Places)]
  /\ UNCHANGED <<status, isReady, data, task, players, RoomJData, view>>

PlayerAdd(c, team) ==
  /\ c \in online
  /\ Len(allPlayers) < MaxPlayers
  /\ allPlayers' = Append(allPlayers, <<c, team>>)
  /\ UNCHANGED <<status, isReady, data, task, online, RoomJData>>
  /\ Sync

\* The connection closes; the first of its entries goes.
RmPlayer(c) ==
  /\ c \in online
  /\ \E k \in DOMAIN allPlayers :
       findPlayer(c, k) /\ allPlayers' = RemoveAt(allPlayers, k)
  /\ online' = online \ {c}
  /\ view' = [view EXCEPT ![c] = NoView] /\ seen' = [seen EXCEPT ![c] = {}]
  /\ UNCHANGED <<status, isReady, data, task, RoomJData>>

-----------------------------------------------------------------------------
\* The timer tasks.

\* Mutant: no clock for the first ban.
BanStartsUntimed ==
  /\ task = "SetStatus"
  /\ status # "BAN"
  /\ status' = "BAN" /\ nowCtrl' = 0 /\ task' = "none"
  /\ RoomJData' = [RoomJData EXCEPT !.Status = "BAN", !.NowCtrl = 0,
                                    !.HideCompose = HideCompose]
  /\ UNCHANGED <<isReady, banData, composeData, players>>
  /\ Sync

\* SetStatus(BAN): the time to compose is up.
BanStarts ==
  /\ task = "SetStatus"
  /\ status # "BAN"
  /\ status' = "BAN" /\ nowCtrl' = 0 /\ task' = "nextProcess"
  /\ RoomJData' = [RoomJData EXCEPT !.Status = "BAN", !.NowCtrl = 0,
                                    !.HideCompose = HideCompose]
  /\ UNCHANGED <<isReady, banData, composeData, players>>
  /\ Sync

\* A team that has not banned in time bans group 0.
Timeout(ban) == IF ban = NoBan THEN 0 ELSE ban

\* The second turn is the last.  (Mutant: the turn after it.)
LastTurnLate == nowCtrl = 2
LastTurn == nowCtrl + 1 = 2

\* nextProcess(0) in a ban; after the last turn the groups are laid open.
nextProcess ==
  /\ task = "nextProcess"
  /\ status = "BAN"
  /\ banData' = [banData EXCEPT ![nowCtrl] = Timeout(@)]
  /\ LET listed == RoomJData.BanList \/ banData[nowCtrl] = NoBan
     IN \/ /\ ~LastTurn
           /\ nowCtrl' = nowCtrl + 1 /\ task' = "nextProcess" /\ status' = status
           /\ RoomJData' = [RoomJData EXCEPT !.BanList = listed, !.NowCtrl = nowCtrl']
        \/ /\ LastTurn
           /\ nowCtrl' = 0 /\ task' = "none" /\ status' = "END"
           /\ RoomJData' = [RoomJData EXCEPT !.Status = "END", !.BanList = listed,
                                             !.NowCtrl = 2, !.Compose = TRUE]
  /\ UNCHANGED <<isReady, composeData, players>>
  /\ Sync

TimerFires == BanStarts \/ nextProcess

-----------------------------------------------------------------------------
Next ==
  \/ \E c \in Ctx, team \in Teams : Ready(c, team)
  \/ \E c \in Ctx, choose \in ChooseNums : Choose(c, choose)
  \/ \E c \in Ctx, team \in Teams, place \in Composed, choose \in Cards :
       Compose(c, team, place, choose)
  \/ \E a \in Asks : GetCompose(a[1], a[2])
  \/ \E j \in Joins : PlayerAdd(j[1], j[2])
  \/ \E c \in Ctx : RmPlayer(c)
  \/ TimerFires

\* A scheduled task runs sooner or later; packets need not come.
Fairness == WF_vars(TimerFires)

Spec == Init /\ [][Next]_vars /\ Fairness

-----------------------------------------------------------------------------
(***************************************************************************)
(* Properties.                                                             *)
(***************************************************************************)

\* The types of the room's fields.
TypeOK ==
  /\ status \in {"WAIT", "COMPOSE", "BAN", "END"}
  /\ isReady \in [Teams -> BOOLEAN]
  /\ banData \in [Teams -> Int]
  /\ composeData \in [Teams -> [Places -> Nat]]
  /\ nowCtrl \in Teams
  /\ task \in {"none", "SetStatus", "nextProcess"}
  /\ allPlayers \in Seq(Ctx \X (Teams \cup {Watcher}))
  /\ online \subseteq Ctx
  /\ RoomJData \in [Status : {"WAIT", "COMPOSE", "BAN", "END"}, BanList : BOOLEAN,
                    NowCtrl : {NoTurn} \cup 0 .. 2, Compose : BOOLEAN,
                    HideCompose : {NotPut} \cup [Teams -> [Places -> Int]]]
  /\ seen \in [Ctx -> SUBSET (Teams \X Places)]

\* There is a pending task just in the phases that the clock ends, and it is the
\* one that ends this phase.
ClockMatchesPhase ==
  /\ task = "SetStatus" <=> status = "COMPOSE"
  /\ task = "nextProcess" <=> status = "BAN"

\* Until the end no connection has been sent a hidden card of a team, unless it is
\* a member of the team or asks for the team's groups itself: no card that anybody
\* puts in a place, no broadcast and no other connection's question tells it one.
HiddenUntilEnd ==
  status # "END" =>
    \A c \in Ctx, t \in Teams, p \in Hidden :
      <<t, p>> \in seen[c] => Member(c, t) \/ <<c, t>> \in Asks

\* What the teams see when they ban is what was composed: no card changes after
\* the masked copy was put in RoomJData.
BansOnTheFinalGroups == status \in {"BAN", "END"} => RoomJData.HideCompose = HideCompose

\* Every linked connection has on its screen the phase, the teams that are
\* ready, the bans, the team on the move and, at the end, the groups.
LinkedUpToDate ==
  \A c \in Ctx : c \in online /\ Linked(c) =>
    /\ view[c].Status = status /\ view[c].Ready = isReady
    /\ view[c].BanList = IF RoomJData.BanList THEN banData ELSE NotPut
    /\ RoomJData.BanList \/ banData = [t \in Teams |-> NoBan]
    /\ status = "BAN" => view[c].NowCtrl = nowCtrl
    /\ status = "END" => view[c].Compose = composeData

-----------------------------------------------------------------------------
\* The abstract draft this room implements: two slots, one ban of each team.  A
\* slot is filled when the turn's time is up; until then the team may change its
\* mind.  A ban is of a group of the other team, so both may ban the same number.
Stage  == CASE status = "BAN" -> "drafting" [] status = "END" -> "complete"
            [] OTHER -> "waiting"
Filled == CASE status = "BAN" -> nowCtrl [] status = "END" -> 2 [] OTHER -> 0
Ban(t, n) == <<t, n>>
NotFilled == Ban(1, NoBan)
Slot == [i \in 0 .. 1 |-> IF i < Filled THEN Ban(i, banData[i]) ELSE NotFilled]
Draft == INSTANCE BanPick WITH
  Turns <- 2, Order <- [i \in 0 .. 1 |-> i],
  Hero <- {Ban(t, n) : t \in Teams, n \in ChooseNums \cup {0}},
  NoHero <- Ban(0, NoBan), Empty <- NotFilled,
  stage <- Stage, slot <- Slot, filled <- Filled,
  onMove <- IF status = "END" THEN 1 ELSE nowCtrl

\* The room implements the abstract draft, its liveness included.
ImplementsDraft == Draft!Spec
=============================================================================
