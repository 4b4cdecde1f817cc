---------------------------- MODULE LOLM3BanRoom ----------------------------
(***************************************************************************)
(* One LOLM3BanRoom (GameServer/.../Base/LOLM3BanRoom.java): the room in   *)
(* which two teams ban and then pick heroes, turn by turn, each turn with  *)
(* a clock.                                                                *)
(*                                                                         *)
(* One action is one whole call of a handler of the room, or one run of a  *)
(* timer task.  The room itself does not serialise these calls; the module *)
(* LOLM3BanRoomThreads takes them apart.  This one says what the room does *)
(* as long as no two of them overlap.                                      *)
(***************************************************************************)
EXTENDS Integers, Sequences, SequencesExt

CONSTANTS BanCount,      \* bans of each team
          MaxHeroCount,  \* length of the hero table; heroes are 0 .. MaxHeroCount-1
          Ctx,           \* connections, by their channel id
          Joins,         \* the <<connection, team>> pairs that ask to be linked
          HeroNums,      \* the values a CHOOSE packet may carry
          PreviewNums,   \* the values a PREVIEW packet may carry
          MaxPlayers     \* bound: entries of allPlayers

Teams == {0, 1}          \* 0 is blue, 1 is red
Watcher == -1            \* the team of a connection that only looks on

ASSUME BanCountAssumption == BanCount \in Nat \ {0}
ASSUME HeroAssumption     == MaxHeroCount \in Nat \ {0}
ASSUME NumsAssumption     == HeroNums \subseteq Int /\ PreviewNums \subseteq Int
ASSUME JoinsAssumption    == Joins \subseteq Ctx \X (Teams \cup {Watcher})

VARIABLES
  status,      \* _status
  chosen,      \* the keys of the map chosen
  isReady, banData, pickData, nowCtrl, banFlage, pickFlage, previewNum,
  timer,       \* the Timer in the field timer has a task that has not run
  orphans,     \* tasks that have not run, of Timers the room no longer holds
  allPlayers,  \* the list of linked players, in the order they were added
  online,      \* the connections that are open
  RoomJData,   \* the boxed copies in RoomJData (its arrays are the room's own)
  view,        \* view[c]: the last SYNC connection c received, or NoView
  shown        \* the hero the last PREVIEW packet of this turn announced, or 0

draft == <<status, chosen, banData, pickData, nowCtrl, banFlage, pickFlage>>
vars  == <<draft, isReady, previewNum, timer, orphans, allPlayers, online,
           RoomJData, view, shown>>

Empty    == -1
NotPut   == -1           \* a key that RoomJData does not have yet
NoView   == [Status |-> "NONE"]
BanSlots  == 0 .. 2 * BanCount - 1
PickSlots == 0 .. 9
banProcess  == [i \in BanSlots |-> i % 2]
pickProcess == [i \in PickSlots |-> IF i \in {0, 3, 4, 7, 8} THEN 0 ELSE 1]

Init ==
  /\ status = "WAIT"
  /\ chosen = {}
  /\ isReady = [t \in Teams |-> FALSE]
  /\ banData = [i \in BanSlots |-> Empty]
  /\ pickData = [i \in PickSlots |-> Empty]
  /\ nowCtrl = 0 /\ banFlage = 0 /\ pickFlage = 0 /\ previewNum = 0
  /\ timer = FALSE /\ orphans = 0
  /\ allPlayers = <<>> /\ online = Ctx
  /\ RoomJData = [Status |-> "WAIT", nowCtrl |-> NotPut,
                  banFlage |-> NotPut, pickFlage |-> NotPut]
  /\ view = [c \in Ctx |-> NoView]
  /\ shown = 0

-----------------------------------------------------------------------------
\* Players and packets.

Linked(c) == \E i \in DOMAIN allPlayers : allPlayers[i][1] = c

\* findPlayer returns entry k of allPlayers: the first of connection c.
findPlayer(c, k) == /\ allPlayers[k][1] = c
                    /\ \A i \in DOMAIN allPlayers : i < k => allPlayers[i][1] # c

InControl(c) == \E k \in DOMAIN allPlayers :
                   findPlayer(c, k) /\ allPlayers[k][2] = nowCtrl

\* What RoomJData.toString() says.
Snapshot == [Status |-> RoomJData.Status, BanList |-> banData,
             PickList |-> pickData, Ready |-> isReady,
             nowCtrl |-> RoomJData.nowCtrl, banFlage |-> RoomJData.banFlage,
             pickFlage |-> RoomJData.pickFlage]

\* broadcast(RoomJData.toString(), SYNC), the last thing a handler does; a
\* write to a closed channel is dropped.  (Mutant: the text is taken too early.)
SyncEarly == view' = [c \in Ctx |-> IF c \in online /\ Linked(c)' THEN Snapshot
                                                                   ELSE view[c]]
Sync == view' = [c \in Ctx |-> IF c \in online /\ Linked(c)' THEN Snapshot'
                                                             ELSE view[c]]

-----------------------------------------------------------------------------
\* The turn.

\* Mutants: a taken hero again; no empty choice.
AcceptableTwice(choose)  == choose < MaxHeroCount
AcceptableNotNo(choose)  == choose < MaxHeroCount /\ choose \notin chosen \cup {0}
Acceptable(choose) == choose < MaxHeroCount /\ (choose = 0 \/ choose \notin chosen)

\* Mutant: the owner of the slot just filled is left in control.
BanTurnLate(choose) ==
  /\ status = "BAN"
  /\ banData' = [banData EXCEPT ![banFlage] = choose]
  /\ banFlage' = banFlage + 1
  /\ status' = IF banFlage' = 2 * BanCount THEN "PICK" ELSE status
  /\ nowCtrl' = IF banFlage' = 2 * BanCount THEN 0 ELSE banProcess[banFlage]
  /\ RoomJData' = [RoomJData EXCEPT !.Status = status', !.nowCtrl = nowCtrl',
                                    !.banFlage = banFlage']
  /\ UNCHANGED <<pickData, pickFlage>>

\* A ban goes in its slot; the last one opens the picks.
BanTurn(choose) ==
  /\ status = "BAN"
  /\ banData' = [banData EXCEPT ![banFlage] = choose]
  /\ banFlage' = banFlage + 1
  /\ \/ /\ banFlage' = 2 * BanCount
        /\ status' = "PICK" /\ nowCtrl' = 0
        /\ RoomJData' = [Status |-> "PICK", nowCtrl |-> 0, banFlage |-> banFlage',
                         pickFlage |-> pickFlage]
     \/ /\ banFlage' # 2 * BanCount
        /\ status' = status /\ nowCtrl' = banProcess[banFlage']
        /\ RoomJData' = [RoomJData EXCEPT !.nowCtrl = nowCtrl', !.banFlage = banFlage']
  /\ UNCHANGED <<pickData, pickFlage>>

\* Mutant: the flag moves before the slot is filled.
PickTurnAhead(choose) ==
  /\ status = "PICK"
  /\ pickFlage' = pickFlage + 1
  /\ pickData' = [i \in PickSlots |-> IF i = pickFlage' THEN choose ELSE pickData[i]]
  /\ status' = IF pickFlage' = 10 THEN "END" ELSE status
  /\ nowCtrl' = IF pickFlage' = 10 THEN nowCtrl ELSE pickProcess[pickFlage']
  /\ RoomJData' = [RoomJData EXCEPT !.Status = status', !.nowCtrl = nowCtrl',
                                    !.pickFlage = pickFlage']
  /\ UNCHANGED <<banData, banFlage>>

\* A pick goes in its slot; the tenth one ends the draft.
PickTurn(choose) ==
  /\ status = "PICK"
  /\ pickData' = [pickData EXCEPT ![pickFlage] = choose]
  /\ pickFlage' = pickFlage + 1
  /\ status' = IF pickFlage' = 10 THEN "END" ELSE status
  /\ nowCtrl' = IF pickFlage' = 10 THEN nowCtrl ELSE pickProcess[pickFlage']
  /\ RoomJData' = [RoomJData EXCEPT !.Status = status', !.nowCtrl = nowCtrl',
                                    !.pickFlage = pickFlage']
  /\ UNCHANGED <<banData, banFlage>>

\* Before and after the draft nextProcess fills no slot.
NoTurn == /\ status \in {"WAIT", "END"}
          /\ UNCHANGED <<status, banData, pickData, nowCtrl, banFlage, pickFlage,
                         RoomJData>>

Turn(choose) == BanTurn(choose) \/ PickTurn(choose) \/ NoTurn

\* nextProcess(choose), called with `current` saying whether the Timer in the
\* field timer still has its task.
nextProcess(choose, current) ==
  /\ previewNum' = 0
  /\ UNCHANGED <<isReady, allPlayers, online>>
  /\ \/ /\ ~Acceptable(choose)
        /\ timer' = current
        /\ UNCHANGED <<draft, RoomJData, view, shown>>
     \/ /\ Acceptable(choose)
        /\ chosen' = chosen \cup ({choose} \ {0})
        /\ Turn(choose)
        /\ timer' = (status' # "END")      \* cancelled, and a new one scheduled
        /\ shown' = 0
        /\ Sync

-----------------------------------------------------------------------------
\* The handlers a packet of connection c reaches.

Ready(c, team) ==
  /\ c \in online /\ Linked(c)
  /\ status = "WAIT"
  /\ isReady' = [isReady EXCEPT ![team] = TRUE]
  /\ \/ /\ \A t \in Teams : isReady'[t]     \* SetStatus(BAN)
        /\ status' = "BAN" /\ nowCtrl' = 0
        /\ timer' = TRUE                    \* the old one is not cancelled
        /\ orphans' = orphans + IF timer THEN 1 ELSE 0
        /\ RoomJData' = [RoomJData EXCEPT !.Status = "BAN", !.nowCtrl = 0,
                                          !.banFlage = banFlage]
     \/ /\ \E t \in Teams : ~isReady'[t]
        /\ UNCHANGED <<status, nowCtrl, timer, orphans, RoomJData>>
  /\ UNCHANGED <<chosen, banData, pickData, banFlage, pickFlage, previewNum,
                 allPlayers, online, shown>>
  /\ Sync

\* Mutant: the timer of the turn is not cancelled.
ChooseUncancelled(c, choose) ==
  /\ c \in online
  /\ InControl(c)
  /\ nextProcess(choose, timer)
  /\ orphans' = orphans + IF timer /\ Acceptable(choose) THEN 1 ELSE 0

Choose(c, choose) ==
  /\ c \in online
  /\ InControl(c)
  /\ nextProcess(choose, timer)
  /\ UNCHANGED orphans

\* Mutant: a taken hero may be previewed.
PreviewTaken(c, num) ==
  /\ c \in online /\ Linked(c)
  /\ previewNum' = num
  /\ shown' = IF InControl(c) /\ status \in {"BAN", "PICK"} THEN num ELSE shown
  /\ UNCHANGED <<draft, isReady, timer, orphans, allPlayers, online, RoomJData, view>>

Preview(c, num) ==
  /\ c \in online /\ Linked(c)
  /\ num = 0 \/ num \notin chosen
  /\ previewNum' = num
  /\ shown' = IF InControl(c) /\ status \in {"BAN", "PICK"} THEN num ELSE shown
  /\ UNCHANGED <<draft, isReady, timer, orphans, allPlayers, online, RoomJData, view>>

\* LINK_ROOM; a connection may be linked more than once.
PlayerAdd(c, team) ==
  /\ c \in online
  /\ Len(allPlayers) < MaxPlayers
  /\ allPlayers' = Append(allPlayers, <<c, team>>)
  /\ UNCHANGED <<draft, isReady, previewNum, timer, orphans, online, RoomJData, shown>>
  /\ Sync

\* The connection closes and its player leaves the room it was last linked to.
\* Only the first entry goes.
RmPlayer(c) ==
  /\ c \in online
  /\ \E k \in DOMAIN allPlayers :
       findPlayer(c, k) /\ allPlayers' = RemoveAt(allPlayers, k)
  /\ online' = online \ {c}
  /\ view' = [view EXCEPT ![c] = NoView]
  /\ UNCHANGED <<draft, isReady, previewNum, timer, orphans, RoomJData, shown>>

\* The task of the Timer in the field timer runs.
TimerFires == /\ timer
              /\ nextProcess(previewNum, FALSE)
              /\ UNCHANGED orphans

\* The task of a Timer the room has lost hold of runs.
OrphanFires == /\ orphans > 0
               /\ orphans' = orphans - 1
               /\ nextProcess(previewNum, timer)

-----------------------------------------------------------------------------
Next ==
  \/ \E c \in Ctx, team \in Teams : Ready(c, team)
  \/ \E c \in Ctx, choose \in HeroNums : Choose(c, choose)
  \/ \E c \in Ctx, num \in PreviewNums : Preview(c, num)
  \/ \E j \in Joins : PlayerAdd(j[1], j[2])
  \/ \E c \in Ctx : RmPlayer(c)
  \/ TimerFires
  \/ OrphanFires

\* A scheduled java.util.Timer task runs sooner or later; packets need not come.
Fairness == WF_vars(TimerFires)

Spec == Init /\ [][Next]_vars /\ Fairness

-----------------------------------------------------------------------------
(***************************************************************************)
(* Properties.                                                             *)
(***************************************************************************)
Snapshots == [Status : {"WAIT", "BAN", "PICK", "END"},
              BanList : [BanSlots -> Int], PickList : [PickSlots -> Int],
              Ready : [Teams -> BOOLEAN], nowCtrl : Teams \cup {NotPut},
              banFlage : 0 .. 2 * BanCount \cup {NotPut},
              pickFlage : 0 .. 10 \cup {NotPut}]

\* The types of the room's fields; in particular a flag never runs past the
\* array it indexes, and at most one timer task is ever out of the room's hands.
TypeOK ==
  /\ status \in {"WAIT", "BAN", "PICK", "END"}
  /\ chosen \subseteq Int
  /\ isReady \in [Teams -> BOOLEAN]
  /\ banData \in [BanSlots -> Int]
  /\ pickData \in [PickSlots -> Int]
  /\ nowCtrl \in Teams
  /\ banFlage \in 0 .. 2 * BanCount
  /\ pickFlage \in 0 .. 10
  /\ previewNum \in PreviewNums \cup {0}
  /\ timer \in BOOLEAN
  /\ orphans \in 0 .. 1
  /\ allPlayers \in Seq(Ctx \X (Teams \cup {Watcher}))
  /\ online \subseteq Ctx
  /\ RoomJData \in [Status : {"WAIT", "BAN", "PICK", "END"},
                    nowCtrl : Teams \cup {NotPut},
                    banFlage : 0 .. 2 * BanCount \cup {NotPut},
                    pickFlage : 0 .. 10 \cup {NotPut}]
  /\ view \in [Ctx -> Snapshots \cup {NoView}]
  /\ shown \in Int

\* The status, the two flags and the team in control always tell the same
\* story: no pick before the last ban, none after the tenth, and the team in
\* control is the owner of the slot that nextProcess will write.
TurnOrder ==
  /\ status = "WAIT" => banFlage = 0 /\ pickFlage = 0 /\ nowCtrl = 0
  /\ status = "BAN"  => banFlage < 2 * BanCount /\ pickFlage = 0
                        /\ nowCtrl = banProcess[banFlage]
  /\ status = "PICK" => banFlage = 2 * BanCount /\ pickFlage < 10
                        /\ nowCtrl = pickProcess[pickFlage]
  /\ status = "END"  => banFlage = 2 * BanCount /\ pickFlage = 10

\* The slots at and above the flags are still as initIntArray left them.
RestEmpty == /\ \A i \in BanSlots : i >= banFlage => banData[i] = Empty
             /\ \A i \in PickSlots : i >= pickFlage => pickData[i] = Empty

\* A hero that stands in a slot is in the map chosen (and so is refused later)
\* and is in the hero table; 0, the empty ban, may stand in any number of them.
Taken(h) == h < MaxHeroCount /\ (h # 0 => h \in chosen)
TakenAreChosen == /\ \A i \in BanSlots : i < banFlage => Taken(banData[i])
                  /\ \A i \in PickSlots : i < pickFlage => Taken(pickData[i])

\* No hero is banned twice, picked twice, or picked after it was banned.
HeroOnce ==
  /\ \A i, j \in BanSlots : i < j /\ j < banFlage /\ banData[i] # 0
                               => banData[i] # banData[j]
  /\ \A i, j \in PickSlots : i < j /\ j < pickFlage /\ pickData[i] # 0
                               => pickData[i] # pickData[j]
  /\ \A i \in BanSlots, j \in PickSlots :
       i < banFlage /\ j < pickFlage /\ banData[i] # 0 => banData[i] # pickData[j]

\* The preview that a timeout would choose is a hero nobody has taken.  The
\* one-shot timer is not scheduled again when nextProcess refuses its choice.
PreviewFree == previewNum = 0 \/ previewNum \notin chosen

\* Every linked connection has on its screen the room as it now is: the slots,
\* the status, and in a running draft the team and the slot whose turn it is.
LinkedUpToDate ==
  \A c \in Ctx : c \in online /\ Linked(c) =>
    /\ view[c].Status = status /\ view[c].Ready = isReady
    /\ view[c].BanList = banData /\ view[c].PickList = pickData
    /\ status = "BAN" => view[c].banFlage = banFlage /\ view[c].nowCtrl = nowCtrl
    /\ status = "PICK" => view[c].pickFlage = pickFlage /\ view[c].nowCtrl = nowCtrl

\* What a step may never do: change or clear a filled slot, take back a hero,
\* go back in status, or fill more than one slot.
Irrevocable ==
  [][ /\ \A i \in BanSlots : i < banFlage => banData'[i] = banData[i]
      /\ \A i \in PickSlots : i < pickFlage => pickData'[i] = pickData[i]
      /\ chosen \subseteq chosen'
      /\ banFlage + pickFlage <= banFlage' + pickFlage'
      /\ banFlage' + pickFlage' <= banFlage + pickFlage + 1
      /\ status = "END" => status' = "END"
      /\ status # "WAIT" => status' # "WAIT" ]_vars

\* The clock of the turn runs: in a draft under way some task is scheduled that
\* will end the turn when no team answers.
ClockRuns == status \in {"BAN", "PICK"} => timer

-----------------------------------------------------------------------------
\* The abstract draft this room implements: the bans, then the picks.
DraftSlots == 0 .. 2 * BanCount + 9
Order == [i \in DraftSlots |-> IF i \in BanSlots THEN banProcess[i]
                                                 ELSE pickProcess[i - 2 * BanCount]]
Slot  == [i \in DraftSlots |-> IF i \in BanSlots THEN banData[i]
                                                 ELSE pickData[i - 2 * BanCount]]
Stage == IF status = "WAIT" THEN "waiting"
         ELSE IF status = "END" THEN "complete" ELSE "drafting"
Hero  == {h \in HeroNums \cup PreviewNums \cup {0} : h < MaxHeroCount}

Draft == INSTANCE BanPick WITH
  Turns <- 2 * BanCount + 10, stage <- Stage, slot <- Slot,
  filled <- banFlage + pickFlage, onMove <- nowCtrl, NoHero <- 0

\* The room implements the abstract draft, its liveness included.
ImplementsDraft == Draft!Spec
=============================================================================
