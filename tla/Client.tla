------------------------------- MODULE Client -------------------------------
(***************************************************************************)
(* A browser on its way through the client (LOLM_BPSystem and HP_BPSystem; *)
(* public/Manager.ts, Network.ts and the pages of UI/View): the form that  *)
(* creates a room, the page with its links, the draft page that one of the *)
(* links opens, and the page of the result.  Every page is loaded anew,    *)
(* with a connection and a login of its own; what it knows of the one      *)
(* before is in its address.                                               *)
(*                                                                         *)
(* The two clients have the same Manager, Network and RoomLink and talk to *)
(* the same server; both forms create a room of game type 2, HPBanRoom.    *)
(* Cards are left to HPPage, so a group is known by its team and number;   *)
(* the page of one captain, or of one who looks on, is followed, and the   *)
(* other captain is any.                                                   *)
(***************************************************************************)
EXTENDS Integers, Sequences, FiniteSets, SequencesExt

CONSTANTS Clients,       \* which clients are used: "LOLM", "HP"
          Typed,         \* the names of the teams, as they are typed into the form
          composeCount,  \* groups of each team
          MaxOnTheWay    \* bound: packets on their way to or from the page, when a
                         \* captain causes one more

Teams   == {0, 1}
Groups  == 0 .. composeCount - 1
Nobody  == -1           \* the team of one who looks on
Unnamed == ""
NoPass  == <<>>         \* who looks on has none
NoGroup == <<>>
Missing == -2           \* null, undefined
NoBan   == -1
NoSync  == [Status |-> "NONE", NowCtrl |-> Missing]
NoRows  == <<>>

ASSUME ClientsAssumption == Clients \subseteq {"LOLM", "HP"}
ASSUME TypedAssumption   == Typed \subseteq [Teams -> STRING \ {Unnamed}]
ASSUME CountAssumption   == composeCount \in Nat \ {0}

VARIABLES
  client,      \* the client that is used
  made,        \* the rooms that were created
  names, inTable, status, ready, nowCtrl, banData,  \* the last of them
  member,      \* the team the page is linked with, or Missing
  href,        \* the address: the page, and what its parameters hold
  start,       \* Manager: "load", "poll" for the connection, "login" or "open"
  conn,        \* the socket: "none", "connecting", "open" or "closed"
  up, down,    \* the packets on their way to the server and to the page
  isClick,     \* UI_CreateRoom
  isInit, SyncData, nowGroup, waiters,  \* UI_BP, UI_Output
  rows,        \* rows[t]: the groups that UI_Output shows of team t
  label,       \* history: the text at the link that was clicked
  meant,       \* history: the group that was on the screen for the last CHOOSE
               \* the room took from this captain
  told         \* history: the page has said that there is no room

room    == <<made, names, inTable, status, ready, nowCtrl, banData>>
view    == <<isClick, isInit, SyncData, nowGroup, waiters, rows>>
tab     == <<href, start, conn, view>>
history == <<label, meant, told>>
vars    == <<client, room, member, tab, up, down, history>>

Init ==
  /\ client \in Clients
  /\ made = 0 /\ names = <<>> /\ inTable = FALSE
  /\ status = "WAIT" /\ ready = {} /\ nowCtrl = Missing /\ banData = [t \in Teams |-> NoBan]
  /\ member = Missing
  /\ href \in {[page |-> Missing], [page |-> 0]}
  /\ start = "load" /\ conn = "none" /\ up = <<>> /\ down = <<>>
  /\ isClick = FALSE /\ isInit = FALSE /\ SyncData = NoSync /\ nowGroup = 0
  /\ waiters = <<>> /\ rows = NoRows
  /\ label = Unnamed /\ meant = NoGroup /\ told = FALSE

\* window.location.href = url: nothing of the page is left but the new address.
Leave(url) ==
  /\ href' = url /\ start' = "load" /\ conn' = "none" /\ up' = <<>> /\ down' = <<>>
  /\ isClick' = FALSE /\ isInit' = FALSE /\ SyncData' = NoSync /\ nowGroup' = 0
  /\ waiters' = <<>> /\ rows' = NoRows /\ member' = Missing

-----------------------------------------------------------------------------
\* Manager and Network.

\* A page that was sent back to the form is not followed further.
onLoad ==
  /\ start = "load" /\ ~told
  /\ \/ href.page = Missing /\ Leave([page |-> 0])
     \/ /\ href.page # Missing
        /\ start' = "poll" /\ conn' = "connecting"
        /\ UNCHANGED <<href, view, up, down, member>>
  /\ UNCHANGED <<client, room, history>>

onopen == /\ conn = "connecting" /\ conn' = "open"
          /\ UNCHANGED <<client, room, member, href, start, view, up, down, history>>

\* The socket cannot be opened, or is lost; nobody opens another one.
onclose == /\ conn \in {"connecting", "open"} /\ conn' = "closed"
           /\ up' = <<>> /\ down' = <<>> /\ member' = Missing
           /\ UNCHANGED <<client, room, href, start, view, history>>

\* Without a connection there is an alert instead.
Send(packet) == up' = IF conn = "open" THEN Append(up, packet) ELSE up

\* One of the looks, every 100 ms, finds the connection.
SendLogin == /\ start = "poll" /\ conn = "open" /\ start' = "login"
             /\ Send([pt |-> "LOGIN"])
             /\ UNCHANGED <<client, room, member, href, conn, view, down, history>>

-----------------------------------------------------------------------------
\* The server.  Packets wait in one queue for two threads: the second packet may
\* be done before the first.

OnTheWay == Len(up) + Len(down) + Len(waiters)

Text == [Status |-> status, NowCtrl |-> nowCtrl, BanList |-> banData, Ready |-> ready]
\* To the page, too, if it is linked with team m.
broadcast(m) == down' = IF m = Missing THEN down ELSE Append(down, [pt |-> "SYNC", data |-> Text'])

\* Mutant: the kind of game is not in the request, as in the LOLM client.
GetDataUntyped == [pt |-> "GET_DATA"]
\* What UI_BP and UI_Output of the HP client ask for.
GetData == [pt |-> "GET_DATA", gameType |-> 2]
\* What UI_BP of the LOLM client asks for.
GetLOLMData == [pt |-> "GET_DATA"]

\* GetDataProtocol.Run: without a gameType it has nothing to answer, and the
\* thread's catch drops the packet.
GetDataProtocol(packet) ==
  down' = IF "gameType" \in DOMAIN packet THEN Append(down, [pt |-> "GET_DATA"]) ELSE down

CreateRoomProtocol(packet) ==
  /\ made' = made + 1 /\ names' = packet.names /\ inTable' = TRUE
  /\ down' = Append(down, [pt |-> "CREATE_ROOM", key |-> made', names |-> names',
                           pass |-> [t \in Teams |-> <<made', t>>]])
  /\ UNCHANGED <<status, ready, nowCtrl, banData>>

\* The time to compose, the first turn or the second is up.
SetStatus ==
  \/ status = "COMPOSE" /\ status' = "BAN" /\ nowCtrl' = 0 /\ UNCHANGED banData
  \/ /\ status = "BAN"
     /\ banData' = [banData EXCEPT ![nowCtrl] = IF @ = NoBan THEN 0 ELSE @]
     /\ nowCtrl' = 1 - nowCtrl
     /\ status' = IF nowCtrl = 0 THEN "BAN" ELSE "END"

Ready(team) ==
  /\ status = "WAIT" /\ ready' = ready \cup {team}
  /\ status' = IF ready' = Teams THEN "COMPOSE" ELSE "WAIT"
  /\ UNCHANGED <<made, names, inTable, nowCtrl, banData>>
  /\ broadcast(member)

Choose(team, group) ==
  /\ status = "BAN" /\ team = nowCtrl
  /\ banData' = [banData EXCEPT ![team] = group]
  /\ UNCHANGED <<made, names, inTable, status, ready, nowCtrl>>
  /\ broadcast(member)

\* LinkRoomProtocol.Run: is there such a room, and is it the team's password?
Allowed(packet) == /\ inTable /\ packet.key = made
                   /\ packet.team = Nobody \/ packet.pass = <<made, packet.team>>

Taken == DOMAIN up \cap {1, 2}

\* The k-th packet is handled.  A link is listed first, which the room tells
\* everybody, and then answered.
Serve(k) ==
  LET packet == up[k]
      Done == up' = RemoveAt(up, k)
  IN /\ \/ /\ packet.pt = "LOGIN" /\ Done
           /\ down' = Append(down, packet) /\ UNCHANGED <<room, member, meant>>
        \/ /\ packet.pt = "GET_DATA" /\ Done
           /\ GetDataProtocol(packet) /\ UNCHANGED <<room, member, meant>>
        \/ /\ packet.pt = "CREATE_ROOM" /\ Done
           /\ CreateRoomProtocol(packet) /\ UNCHANGED <<member, meant>>
        \/ /\ packet.pt = "LINK_ROOM" /\ Allowed(packet)
           /\ up' = [up EXCEPT ![k] = [pt |-> "LINKED"]]
           /\ UNCHANGED <<room, meant>>
           /\ member' = packet.team /\ broadcast(packet.team)
        \/ /\ packet.pt = "LINKED" /\ Done
           /\ down' = Append(down, [pt |-> "LINK_ROOM", resCode |-> 0])
           /\ UNCHANGED <<room, member, meant>>
        \/ /\ packet.pt = "LINK_ROOM" /\ ~Allowed(packet) /\ Done
           /\ down' = Append(down, [pt |-> "LINK_ROOM", resCode |-> 1])
           /\ UNCHANGED <<room, member, meant>>
        \/ packet.pt = "READY" /\ Done /\ Ready(packet.team) /\ UNCHANGED <<member, meant>>
        \/ /\ packet.pt = "CHOOSE" /\ Done /\ Choose(member, packet.choose)
           /\ meant' = packet.shown /\ UNCHANGED member
        \/ /\ \/ packet.pt = "READY" /\ status # "WAIT"
              \/ packet.pt = "CHOOSE" /\ ~(status = "BAN" /\ member = nowCtrl)
           /\ Done /\ UNCHANGED <<room, member, down, meant>>
     /\ UNCHANGED <<client, tab, label, told>>

\* The turn of the clock.
Clock == /\ conn # "closed" /\ SetStatus
         /\ UNCHANGED <<client, made, names, inTable, ready, member, tab, up, history>>
         /\ broadcast(member)

\* Another captain, or another page of this one before it is linked, is ready or
\* bans; or somebody is linked.
Other ==
  /\ made > 0 /\ OnTheWay < MaxOnTheWay /\ conn # "closed"
  /\ UNCHANGED <<client, member, tab, up, history>>
  /\ \/ \E t \in Teams \ {member} : Ready(t) \/ \E g \in Groups : Choose(t, g)
     \/ member # Missing /\ UNCHANGED room /\ broadcast(member)

\* The room is out of time.
Expire == /\ inTable /\ conn # "closed" /\ inTable' = FALSE
          /\ UNCHANGED <<client, made, names, status, ready, nowCtrl, banData, member, tab,
                         up, down, history>>

-----------------------------------------------------------------------------
\* Page 0, the form.

Form == start = "open" /\ href.page = 0
CreateRoom(pair) == Send([pt |-> "CREATE_ROOM", names |-> pair])

\* A click on the button of the HP form.  What is wrong is only said.
OnClickHP(typed) == /\ ~isClick /\ typed[0] # typed[1]
                    /\ isClick' = TRUE /\ CreateRoom(typed)

\* A click on the one of the LOLM form: the sides may be drawn by lot, and the
\* number of bans is looked at, but the room has none.
OnClickLOLM(typed) == /\ ~isClick /\ typed[0] # typed[1]
                      /\ isClick' = TRUE
                      /\ \/ CreateRoom(typed)
                         \/ CreateRoom([t \in Teams |-> typed[1 - t]])

OnClick ==
  /\ Form /\ made + Len(up) < 2
  /\ \E typed \in Typed : \/ client = "HP" /\ OnClickHP(typed)
                          \/ client = "LOLM" /\ OnClickLOLM(typed)
  /\ UNCHANGED <<client, room, member, href, start, conn, isInit, SyncData, nowGroup,
                 waiters, rows, down, history>>

\* Mutant: the names change sides on the way to the links.
GetCallBackSwapped(a) == Leave([page |-> 1, key |-> a.key, pass |-> a.pass,
                                names |-> [t \in Teams |-> a.names[1 - t]]])
\* UI_CreateRoom.GetCallBack: on to the links, with all that came back.
GetCallBack(a) == Leave([page |-> 1, key |-> a.key, pass |-> a.pass, names |-> a.names])

-----------------------------------------------------------------------------
\* Page 1, the links.

\* Mutant: a link has the password of the other team.
UrlsCrossed(n) == IF n \in Teams THEN [page |-> 2, key |-> href.key, team |-> n, pass |-> href.pass[1 - n]]
                  ELSE [page |-> 2, key |-> href.key, team |-> Nobody, pass |-> NoPass]
\* UI_RoomLink.Open: one link for each team, and one to look on.
Urls(n) == IF n \in Teams THEN [page |-> 2, key |-> href.key, team |-> n, pass |-> href.pass[n]]
           ELSE [page |-> 2, key |-> href.key, team |-> Nobody, pass |-> NoPass]

\* The link opens a page of its own, which is followed from here.
OnClick_Goto ==
  /\ start = "open" /\ href.page = 1
  /\ \E n \in 0 .. 2 : /\ Leave(Urls(n))
                      /\ label' = IF n \in Teams THEN href.names[n] ELSE Unnamed
  /\ UNCHANGED <<client, room, meant, told>>

-----------------------------------------------------------------------------
\* Page 2, the draft, of UI_BP; and page 3, the result, of UI_Output.

\* The page asks for the table of heroes or cards first.  (The result page of LOLM
\* links itself at once, see LOLMOutput; it is not reached here, as the request of
\* the LOLM draft page is not answered.)
Open == Send(IF client = "HP" THEN GetData ELSE GetLOLMData)

\* GetLoginCallBack opens the page of the address.
GetLoginCallBack == /\ start' = "open"
                    /\ IF href.page \in {2, 3} THEN Open ELSE UNCHANGED up
                    /\ UNCHANGED <<isInit, SyncData, waiters, rows>>

\* GetLOLMDataCallBack, of either page: the page links itself to the room.
GetLOLMDataCallBack ==
  /\ Send([pt |-> "LINK_ROOM", key |-> href.key, team |-> href.team, pass |-> href.pass])
  /\ UNCHANGED <<start, isInit, SyncData, waiters, rows>>

\* A link that was answered makes the page ready to draw.
GetLinkCallBack == isInit' = TRUE /\ UNCHANGED <<start, up, SyncData, waiters, rows>>

\* Mutant: a team's own ban is left out.
ShownOwn(d, t) == {group \in Groups : group # d.BanList[t]}
\* UI_Output leaves out the group that the other team has banned.
Shown(d, t) == {group \in Groups : group # d.BanList[1 - t]}
Rows(d) == [t \in Teams |-> Shown(d, t)]

\* Text d is drawn, by the page that is open; UI_Output draws the end only.
Draw(d) ==
  \/ href.page = 2 /\ d.Status # "END" /\ SyncData' = d /\ UNCHANGED rows
  \/ href.page = 3 /\ UNCHANGED SyncData /\ rows' = IF d.Status = "END" THEN Rows(d) ELSE rows

\* The end of the draft leaves for the result.
Ends(d) == href.page = 2 /\ d.Status = "END"
LeaveForResult == Leave([page |-> 3, key |-> href.key, team |-> Nobody, pass |-> NoPass])

SyncCallBack(d) ==
  /\ \/ isInit /\ Draw(d) /\ UNCHANGED waiters
     \/ ~isInit /\ waiters' = Append(waiters, d) /\ UNCHANGED <<SyncData, rows>>
  /\ UNCHANGED <<start, up, isInit>>

\* The packets after which the page is another one.
Leaving(packet) ==
  \/ packet.pt = "CREATE_ROOM" /\ GetCallBack(packet) /\ UNCHANGED told
  \/ packet.pt = "LINK_ROOM" /\ packet.resCode = 1 /\ Leave([page |-> 0]) /\ told' = TRUE
  \/ packet.pt = "SYNC" /\ isInit /\ Ends(packet.data) /\ LeaveForResult /\ UNCHANGED told

Staying(packet) ==
  /\ \/ packet.pt = "LOGIN" /\ GetLoginCallBack
     \/ packet.pt = "GET_DATA" /\ GetLOLMDataCallBack
     \/ packet.pt = "LINK_ROOM" /\ packet.resCode = 0 /\ GetLinkCallBack
     \/ packet.pt = "SYNC" /\ SyncCallBack(packet.data)
  /\ down' = Tail(down)
  /\ UNCHANGED <<member, href, conn, isClick, nowGroup, told>>

onmessage == /\ down # <<>>
             /\ Leaving(Head(down)) \/ Staying(Head(down))
             /\ UNCHANGED <<client, room, label, meant>>

\* The 100 ms of a text that waits are over.
Wait ==
  /\ isInit
  /\ \E k \in DOMAIN waiters :
       \/ Ends(waiters[k]) /\ LeaveForResult
       \/ /\ Draw(waiters[k]) /\ waiters' = RemoveAt(waiters, k)
          /\ UNCHANGED <<member, href, start, conn, up, down, isClick, isInit, nowGroup>>
  /\ UNCHANGED <<client, room, history>>

\* The check button of the draft page: ready, or a ban of the group on the screen.
OnCheckButton ==
  /\ href.page = 2 /\ conn = "open" /\ OnTheWay < MaxOnTheWay
  /\ \/ /\ SyncData.Status = "WAIT" /\ href.team \notin SyncData.Ready \cup {Nobody}
        /\ Send([pt |-> "READY", team |-> href.team])
     \/ /\ SyncData.Status = "BAN" /\ href.team = SyncData.NowCtrl
        /\ Send([pt |-> "CHOOSE", choose |-> nowGroup, shown |-> <<1 - SyncData.NowCtrl, nowGroup>>])
  /\ UNCHANGED <<client, room, member, tab, down, history>>

\* Without a connection the page's clicks come to nothing, and it is not followed.
\* Left or right, from the last group to the first.
SwitchGroup ==
  /\ href.page = 2 /\ conn = "open" /\ SyncData.Status \in {"COMPOSE", "BAN"} /\ href.team # Nobody
  /\ \E next \in {-1, 1} : nowGroup' = (nowGroup + next) % composeCount
  /\ UNCHANGED <<client, room, member, href, start, conn, isClick, isInit, SyncData,
                 waiters, rows, up, down, history>>

-----------------------------------------------------------------------------
Next == \/ onLoad \/ onopen \/ onclose \/ SendLogin
        \/ \E k \in Taken : Serve(k)
        \/ Clock \/ Other \/ Expire
        \/ OnClick \/ OnClick_Goto \/ onmessage \/ Wait \/ OnCheckButton \/ SwitchGroup

\* The browser loads a page, a socket is opened or is not, the page's timeouts
\* expire, the network delivers, the server answers, and its clocks run.
Spec == /\ Init /\ [][Next]_vars
        /\ WF_vars(onLoad) /\ WF_vars(SendLogin)
        /\ WF_vars(conn = "connecting" /\ (onopen \/ onclose))
        /\ WF_vars(\E k \in Taken : Serve(k)) /\ WF_vars(Clock)
        /\ WF_vars(onmessage) /\ WF_vars(Wait)

-----------------------------------------------------------------------------
(***************************************************************************)
(* Properties.                                                             *)
(***************************************************************************)
\* Who follows a link is on the side that the link was labelled with, whatever
\* the form, the server, two addresses and the draft page did with the names.
SideAsLabelled == member \in Teams => names[member] = label

\* A link of the room is refused only after the room has left the table.
RefusedOnlyIfGone == told => ~inTable

\* The result shows of each team all groups but one; and never the group that
\* the captain saw when the room took the captain's last ban.
ResultTrue ==
  rows # NoRows => /\ \A t \in Teams : Cardinality(rows[t]) = composeCount - 1
                   /\ meant # NoGroup => meant[2] \notin rows[meant[1]]

\* Who opens a page of an HP draft gets to see the room, or hears that there is
\* none; and who is in a draft gets to see its result; or the connection is lost.
ReachesResult ==
  /\ href.page = 2 /\ client = "HP" ~> isInit \/ told \/ conn = "closed"
  /\ member # Missing /\ status # "WAIT" ~> rows # NoRows \/ told \/ conn = "closed"
=============================================================================
