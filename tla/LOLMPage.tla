------------------------------ MODULE LOLMPage ------------------------------
(***************************************************************************)
(* One draft page (LOLM_BPSystem/.../UI/View/UI_BP.ts) and the room it is  *)
(* linked to.  The room is any that implements BanPick, as LOLM3BanRoom    *)
(* does; it broadcasts after every step.  The socket delivers in order,    *)
(* but the page does not draw in that order: a SYNC or a PREVIEW that      *)
(* comes before the answer to LINK_ROOM waits, and looks again every       *)
(* 100 ms whether the answer is there, while a later one is drawn at once. *)
(* Nor are the pictures there in the order in which they were asked for.   *)
(*                                                                         *)
(* A behaviour follows the clicks of the page's captain, or the picture of *)
(* one slot: neither reads what the other writes, and the icons do not     *)
(* share anything.  Pictures that cannot be loaded and the countdown are   *)
(* left out.                                                               *)
(***************************************************************************)
EXTENDS Integers, Sequences, FiniteSets, SequencesExt

CONSTANTS BanCount,   \* bans of each team
          PickCount,  \* bound: picks of the draft; the room has 10
          Hero,       \* the heroes of the table; 0 is none
          Tagged,     \* the heroes that have the tag of the filter
          myTeam,     \* the team of the page's link, -1 for one that looks on
          Watched,    \* the slots whose picture may be followed
          MaxTexts,   \* bound: packets on their way to the page, or waiting there
          MaxLoads    \* bound: pictures of that slot loading when one is previewed

Teams == {0, 1}
Empty == -1
None  == -2           \* undefined

ASSUME BanCountAssumption  == BanCount \in Nat \ {0}
ASSUME PickCountAssumption == PickCount \in 1 .. 10
ASSUME HeroAssumption      == Hero \subseteq Nat
ASSUME TaggedAssumption    == Tagged \subseteq Hero
ASSUME MyTeamAssumption    == myTeam \in Teams \cup {-1}
ASSUME WatchedAssumption   == Watched \subseteq 0 .. 2 * BanCount + PickCount - 1

VARIABLES
  stage, slot, filled, onMove,  \* the draft of the room
  ready,      \* the teams that are ready
  linked,     \* the page in the room: "no", "listed", "answered" or "refused"
  connected,  \* _isConnent
  socket,     \* the packets on their way to the page
  sent,       \* the packet of the check button on its way to the server, or none
  isInit, SyncData, NowChoose,
  icon,       \* icon[i]: the num of the BanPickIcon of slot i
  hidden,     \* isChoose: the heroes whose buttons are gone for good
  active,     \* the heroes whose buttons can be seen
  watched,    \* the slot whose picture is followed, or None: the clicks are
  pic,        \* the picture on its icon
  loads,      \* the pictures that are being loaded for it, in the order asked for
  marked,     \* the mark of the next choice is on it
  waiters,    \* the packets that wait for isInit
  gone,       \* the page has left for another one
  passed,     \* history: a text was drawn before an older one
  overtook    \* history: a picture was there before one that was asked for earlier

draft   == <<stage, slot, filled, onMove, ready>>
picture == <<watched, pic, loads, marked, overtook>>
shown   == <<icon, hidden, active, picture>>
page    == <<isInit, SyncData, NowChoose, shown, waiters, gone, passed>>
vars    == <<draft, linked, connected, socket, sent, page>>

Slots == 0 .. 2 * BanCount + PickCount - 1
Order == [i \in Slots |-> IF i < 2 * BanCount THEN i % 2
                          ELSE IF i - 2 * BanCount \in {0, 3, 4, 7, 8} THEN 0 ELSE 1]

Room == INSTANCE BanPick WITH Turns <- 2 * BanCount + PickCount, NoHero <- 0

NoSync == [Status |-> "NONE"]

Init == /\ Room!Init /\ ready = {}
        /\ linked = "no" /\ connected = TRUE /\ socket = <<>> /\ sent = {}
        /\ isInit = FALSE /\ SyncData = NoSync /\ NowChoose = -1
        /\ icon = [i \in Slots |-> Empty] /\ hidden = {} /\ active = Hero
        /\ watched \in Watched \cup {None}
        /\ pic = Empty /\ loads = <<>> /\ marked = FALSE /\ overtook = FALSE
        /\ waiters = <<>> /\ gone = FALSE /\ passed = FALSE

-----------------------------------------------------------------------------
\* The room.

\* RoomJData.toString(); nowCtrl is not there before the draft.
Text == [Status  |-> IF stage = "waiting" THEN "WAIT"
                     ELSE IF stage = "complete" THEN "END"
                     ELSE IF filled < 2 * BanCount THEN "BAN" ELSE "PICK",
         List    |-> slot,
         Ready   |-> ready,
         nowCtrl |-> IF stage = "waiting" THEN None ELSE onMove]

Listening == linked \in {"listed", "answered"} /\ connected
Send(packet) == /\ Len(socket) + Len(waiters) < MaxTexts
                /\ socket' = Append(socket, packet)
broadcast == IF Listening THEN Send(<<"SYNC", Text'>>) ELSE UNCHANGED socket

\* A captain is ready; the second one starts the draft.
Ready(team) ==
  /\ stage = "waiting"
  /\ ready' = ready \cup {team}
  /\ \/ ready' = Teams /\ Room!Start
     \/ ready' # Teams /\ UNCHANGED <<stage, slot, filled, onMove>>
  /\ broadcast

\* Mutant: the turn is not told.
nextProcessSilent(h) == Room!Fill(h) /\ UNCHANGED <<ready, socket>>
\* A turn ends, by a choice of this page or another, or by the clock.
nextProcess(h) == Room!Fill(h) /\ UNCHANGED ready /\ broadcast

\* Somebody else's packet, or the clock.
Others == /\ \/ \E team \in Teams : Ready(team)
             \/ \E h \in Hero : nextProcess(h)
          /\ UNCHANGED <<linked, connected, sent, page>>

\* Accepted, as Choose and Preview look at it.
Accepts(h) == stage = "drafting" /\ onMove = myTeam /\ Room!Free(h)

\* A READY or a CHOOSE of the page is handled; the room may ignore it.
Serve ==
  /\ sent # {} /\ sent' = {}
  /\ \E packet \in sent :
       \/ packet[1] = "READY" /\ Ready(myTeam)
       \/ packet[1] = "CHOOSE" /\ Accepts(packet[2]) /\ nextProcess(packet[2])
       \/ /\ IF packet[1] = "READY" THEN stage # "waiting" ELSE ~Accepts(packet[2])
          /\ UNCHANGED <<draft, socket>>
  /\ UNCHANGED <<linked, connected, page>>

\* A captain, also this page's, previews a hero for the turn.
Preview == /\ stage = "drafting" /\ Listening
           /\ watched # None /\ Len(loads) < MaxLoads
           /\ \E h \in Hero : Room!Free(h) /\ Send(<<"PREVIEW", h>>)
           /\ UNCHANGED <<draft, linked, connected, sent, page>>

\* Somebody else is linked.
PlayerAdd == /\ Listening /\ Send(<<"SYNC", Text>>)
             /\ UNCHANGED <<draft, linked, connected, sent, page>>

\* The page's own LINK_ROOM: it is listed and the room is broadcast; then it is
\* answered.  Or there is no such room, or the password is wrong.
LinkRoom ==
  /\ connected
  /\ \/ linked = "no" /\ linked' = "listed" /\ Send(<<"SYNC", Text>>)
     \/ linked = "listed" /\ linked' = "answered" /\ socket' = Append(socket, <<"LINK_ROOM", 0>>)
     \/ linked = "no" /\ linked' = "refused" /\ socket' = Append(socket, <<"LINK_ROOM", 1>>)
  /\ UNCHANGED <<draft, connected, sent, page>>

-----------------------------------------------------------------------------
\* The page.

\* Mutant: the choice stays selected.
CloseChooseboxKeeps(ctrl) == NowChoose
\* What NowChoose is after it; a nowCtrl that is undefined returns first.
CloseChoosebox(ctrl) == IF ctrl \in Teams THEN -1 ELSE NowChoose

\* Mutant: a slot is drawn in the place of the next one.
DrawnNext(d) ==
  [i \in Slots |-> IF d.Status # "WAIT" /\ i > 0 /\ d.List[i - 1] # Empty THEN d.List[i - 1]
                   ELSE icon[i]]
\* The icons after text d is drawn: the slots it leaves empty are not cleared.
Drawn(d) ==
  [i \in Slots |-> IF d.Status # "WAIT" /\ d.List[i] # Empty THEN d.List[i] ELSE icon[i]]

\* The buttons that text d removes; the one for no hero stays.
isChoose(d) == IF d.Status = "WAIT" THEN {} ELSE {d.List[i] : i \in Slots} \ {Empty, 0}

\* The flag of the next choice; the slot of the text that is drawn.
Flag(d) == Cardinality({i \in Slots : d.List[i] # Empty})

\* Mutant: a num that is there already is loaded again, and the mark stays.
SetChooseAgain(num) == loads' = Append(loads, num) /\ UNCHANGED marked
\* BanPickIcon.SetChoose: a num that is there already is not loaded again; else
\* the mark goes, and the picture comes when it is loaded.
SetChoose(num) ==
  IF num = icon[watched] THEN UNCHANGED <<loads, marked>>
  ELSE loads' = Append(loads, num) /\ marked' = FALSE

\* BanPickIcon.SetReady, of the next slot.
SetReady == marked' = TRUE /\ UNCHANGED loads

\* What text d does to the icon that is followed.
DrawWatched(d) ==
  IF watched = None \/ d.Status = "WAIT" THEN UNCHANGED <<loads, marked>>
  ELSE IF d.List[watched] # Empty THEN SetChoose(d.List[watched])
  ELSE IF Flag(d) = watched THEN SetReady
  ELSE UNCHANGED <<loads, marked>>

\* SyncCallBack once isInit is set: the end leaves for the page of the result.
Draw(d) ==
  \/ /\ d.Status = "END" /\ gone' = TRUE
     /\ UNCHANGED <<SyncData, NowChoose, shown>>
  \/ /\ d.Status # "END"
     /\ SyncData' = d
     /\ icon' = Drawn(d)
     /\ hidden' = hidden \cup isChoose(d) /\ active' = active \ isChoose(d)
     /\ DrawWatched(d)
     /\ NowChoose' = CloseChoosebox(d.nowCtrl)
     /\ UNCHANGED <<watched, pic, overtook, gone>>

\* PreviewCallBack once isInit is set: a picture on the next slot of the text
\* that was drawn last, and nothing (it throws) if there was none.
SetPreView(num) ==
  /\ loads' = IF SyncData.Status \in {"BAN", "PICK"} /\ Flag(SyncData) = watched
              THEN Append(loads, num) ELSE loads
  /\ UNCHANGED <<SyncData, NowChoose, icon, hidden, active, watched, pic, marked,
                 overtook, gone>>

Show(packet) == \/ packet[1] = "SYNC" /\ Draw(packet[2])
                \/ packet[1] = "PREVIEW" /\ SetPreView(packet[2])

GetLinkCallBack(resCode) ==
  /\ isInit' = (isInit \/ resCode = 0)
  /\ gone' = (resCode = 1)
  /\ UNCHANGED <<SyncData, NowChoose, shown, waiters, passed>>

\* Among the packets that wait before the k-th there is a text.
Older(k) == \E j \in 1 .. k - 1 : waiters[j][1] = "SYNC"

\* Mutant: a packet is dropped, without waiting for the answer.
CallBackDrops(packet) == /\ IF isInit THEN Show(packet)
                            ELSE UNCHANGED <<SyncData, NowChoose, shown, gone>>
                         /\ UNCHANGED <<isInit, waiters, passed>>
\* SyncCallBack and PreviewCallBack.
CallBack(packet) ==
  \/ /\ isInit /\ Show(packet)
     /\ passed' = (passed \/ (packet[1] = "SYNC" /\ Older(Len(waiters) + 1)))
     /\ UNCHANGED <<isInit, waiters>>
  \/ /\ ~isInit
     /\ waiters' = Append(waiters, packet)
     /\ UNCHANGED <<isInit, SyncData, NowChoose, shown, gone, passed>>

\* onmessage: the callback of the packet's number.
onmessage ==
  /\ ~gone /\ socket # <<>>
  /\ socket' = Tail(socket)
  /\ LET packet == Head(socket)
     IN \/ packet[1] = "LINK_ROOM" /\ GetLinkCallBack(packet[2])
        \/ packet[1] # "LINK_ROOM" /\ CallBack(packet)
  /\ UNCHANGED <<draft, linked, connected, sent>>

\* The 100 ms of a packet that waits are over, and the answer is there.
Wait ==
  /\ ~gone /\ isInit
  /\ \E k \in DOMAIN waiters :
       /\ Show(waiters[k]) /\ waiters' = RemoveAt(waiters, k)
       /\ passed' = (passed \/ (waiters[k][1] = "SYNC" /\ Older(k)))
  /\ UNCHANGED <<draft, linked, connected, socket, sent, isInit>>

\* A picture has been loaded.
Loaded ==
  /\ ~gone
  /\ \E k \in DOMAIN loads :
       /\ pic' = loads[k] /\ loads' = RemoveAt(loads, k)
       /\ overtook' = (overtook \/ k # 1)
  /\ UNCHANGED <<draft, linked, connected, socket, sent, isInit, SyncData, NowChoose,
                 icon, hidden, active, watched, marked, waiters, gone, passed>>

\* A click on a hero whose button can be seen; it is previewed, too.
SetChoosebox(num) ==
  /\ ~gone /\ watched = None /\ num \in active
  /\ SyncData # NoSync /\ SyncData.nowCtrl = myTeam
  /\ NowChoose' = num
  /\ UNCHANGED <<draft, linked, connected, socket, sent, isInit, SyncData, shown,
                 waiters, gone, passed>>

\* Mutant: the heroes that were chosen come back.
FilterAll(tag) == IF tag = -1 THEN Hero ELSE Tagged
\* The buttons that a filter leaves, by the tag or with -1 for all of them.
Filter(tag) == (IF tag = -1 THEN Hero ELSE Tagged) \ hidden

OnClick_filter ==
  /\ ~gone /\ watched = None
  /\ \E tag \in {-1, 1} : active' = Filter(tag)
  /\ UNCHANGED <<draft, linked, connected, socket, sent, isInit, SyncData, NowChoose,
                 icon, hidden, picture, waiters, gone, passed>>

\* The check button, which can be pressed before the draft and in a turn of the
\* page's team; what was chosen stays chosen.
OnCheckButton ==
  /\ ~gone /\ watched = None /\ connected /\ sent = {}
  /\ \/ /\ SyncData.Status = "WAIT" /\ myTeam # -1 /\ myTeam \notin SyncData.Ready
        /\ sent' = {<<"READY", 0>>}
     \/ /\ SyncData.Status \in {"BAN", "PICK"} /\ SyncData.nowCtrl = myTeam
        /\ NowChoose # -1
        /\ sent' = {<<"CHOOSE", NowChoose>>}
  /\ UNCHANGED <<draft, linked, connected, socket, page>>

\* The connection is lost; the page does not ask for another one.
onclose == /\ connected /\ connected' = FALSE /\ socket' = <<>> /\ sent' = {}
           /\ UNCHANGED <<draft, linked, page>>

Next == \/ Others \/ Serve \/ Preview \/ PlayerAdd \/ LinkRoom
        \/ onmessage \/ Wait \/ Loaded \/ onclose
        \/ \E num \in Hero : SetChoosebox(num)
        \/ OnClick_filter \/ OnCheckButton

\* The server answers, the network delivers and a timeout of the page expires;
\* nobody need be ready, choose or click.
Spec == Init /\ [][Next]_vars /\ WF_vars(LinkRoom) /\ WF_vars(onmessage) /\ WF_vars(Wait)

-----------------------------------------------------------------------------
(***************************************************************************)
(* Properties.                                                             *)
(***************************************************************************)
\* In whatever order texts are drawn, an icon shows the hero of its slot or
\* none, and the heroes whose buttons are gone are in slots.
IconsTrue ==
  /\ \A i \in Slots : icon[i] # Empty => icon[i] = slot[i]
  /\ \A h \in hidden : \E i \in Slots : slot[i] = h

\* In a turn, what the check button would send is a choice of the team that is
\* on the move, of a hero that is not drawn as taken; and if the page has drawn
\* the room as it is, the room accepts it.
OfferIsLegal ==
  NowChoose # -1 /\ SyncData.Status \in {"BAN", "PICK"} =>
    /\ SyncData.nowCtrl = myTeam /\ NowChoose \notin hidden
    /\ SyncData = Text => Accepts(NowChoose)

\* Unless a text was drawn before an older one: when all pictures are there, and
\* came in the order in which they were asked for, an icon with a hero has its
\* picture; and it has the mark just when it is the next one.
PictureTrue == watched # None /\ ~passed =>
  /\ loads = <<>> /\ ~overtook /\ icon[watched] # Empty => pic = icon[watched]
  /\ SyncData.Status \in {"BAN", "PICK"} => (marked <=> Flag(SyncData) = watched)

\* What is in a slot when the page is listed, or comes there at any time later, is
\* drawn, unless the page is left or loses its connection.
CatchesUp ==
  \A i \in Slots : slot[i] # Empty /\ linked \in {"listed", "answered"}
                     ~> icon[i] = slot[i] \/ gone \/ ~connected

\* When nothing is on its way the page has drawn the room as it is, unless a
\* text was drawn before an older one.
SyncNewest ==
  connected /\ ~gone /\ linked = "answered" /\ socket = <<>> /\ waiters = <<>> /\ ~passed
    => SyncData = Text
=============================================================================
