# Verification of the ban/pick rooms

The repository is a server for drafting teams before a match (`src/GameServer`, Java) and two
browser clients (`src/LOLM_BPSystem`, `src/HP_BPSystem`, Cocos Creator, TypeScript).  Two captains
meet in a room, ban and pick in turns against a clock, and spectators watch.  This directory holds
TLA+ models of it, TLC configurations that check them on small instances, and TLAPS proofs.

## 1. Inventory

| component | state | operations | talks to |
|---|---|---|---|
| LOLM room, `LOLM3BanRoom.java` | `_status`, `isReady`, `banData`/`pickData`, `chosen`, `nowCtrl`, both flags, `previewNum`, `timer`, `allPlayers`, the JSON it broadcasts | `Ready`, `Choose`, `Preview`, `PlayerAdd`, `RmPlayer`, `nextProcess` (on a choice or a timeout) | called by PackThreads, by its Timers, by `Logout`; broadcasts to connections |
| HP room, `HPBanRoom.java` | the same skeleton, with `composeData` and `banData[2]` | `Ready`, `Compose`, `GetCompose`, `Choose`, `SetStatus` and `nextProcess` from tasks | as above |
| Room table, `GameRoomManager.java` | `AllGame`, one Timer | `CreateNewGameRoom`, `GetRoom`, the sweep `checkRoom` | CREATE_ROOM and LINK_ROOM |
| Players, `PlayerManager.java`, `Player.java` | `_allPlayer`, the `_room` of each | `AddPlayer`, `GetPlayer`, `Logout` | LOGIN, LINK_ROOM, the event loops |
| Packets, `WebSocketServerHandler.java`, `PackThread.java` | `QuePacket`, two threads | `channelRead0`, `run`, `doPacket`, `handlerRemoved` | all protocols |
| LOLM draft page, `UI_BP.ts`, `HeroButton.ts`, `BanPickIcon.ts` | `SyncData`, `isInit`, `NowChoose`, the icons and their pictures, the buttons | callbacks of LINK_ROOM, SYNC, PREVIEW; clicks, the filter | the server, through `Network.ts` |
| LOLM result page, `UI_Output.ts` | `isInit`, the icons | callbacks of LINK_ROOM, SYNC | opened by the draft page at the end |
| HP draft page, `UI_BP.ts`, `CardButton.ts`, `MagicCardManager.ts` | as above, `ComposeGroup`, `nowGroup`, `NowChooseCard`, the `Id` of each button | callbacks of LINK_ROOM, SYNC, COMPOSE, GET_COMPOST; clicks | as above |
| HP result page, `UI_Output.ts` | `isInit`, the groups it lists of each team | callbacks of GET_DATA, LINK_ROOM, SYNC | opened by the draft page at the end |
| Forms and links, `UI_CreateRoom.ts`, `UI_RoomLink.ts` | `isClick`, the fields, the address | the click that creates a room, the answer, three links | the server; the next page, by its address |
| Client start and network, `Manager.ts`, `Network.ts` | the socket, the callbacks, the page that is open | `onLoad`, `SendLogin`, `GetLoginCallBack`, `onmessage`, `Wait` | every page |
| Hero and card data, `GetDataProtocol.java` | tables read once | `Run` | GET_DATA of the pages |
| Start-up, pipeline, logging | configuration | - | - |

**What is hard.**  A handler runs on one of two PackThreads, a timeout on the thread of its own
`java.util.Timer`, and a `Logout` on the event loop of the connection that closed.  The rooms hold no
lock: `synchronized` guards only the additions to and removals from `allPlayers` and the two maps.
A clock is one-shot and is started again by the code it calls, so a path that skips the restart stops
the draft.  What a page shows is the last text it was sent.  The complete list, with lines and the
property that covers each, or the reason why none does, is `hazards` in `PROJECT.json`.

**What makes each component correct.**

- LOLM room: no hero in two slots; the turn order of the game; a filled slot is final; the clock
  always runs and the draft ends; everybody linked sees the room as it is.
- HP room: nobody is told what a team hides before the end, unless he asks for it; teams ban on the groups that will be
  played; both bans are made; the draft ends.
- Room table: only expired rooms leave, and all of them do.
- Connections: a LINK_ROOM is answered; whoever is connected is known; nothing is left of whoever is
  gone.
- LOLM page: what is drawn is the newest room, with the pictures of its heroes; a choice is only offered
  in one's own turn; the result is all of the draft.
- HP page: the groups on the screen are the server's; no card is twice in a group; a ban is of a
  group the captain was shown.
- Client: a link opens the side it is labelled with; who opens a page sees the room, or hears that there is
  none; the result leaves out what was banned.

## 2. Modules

| module | models | grain |
|---|---|---|
| `BanPick` | the abstract draft: slots that are filled once, in order, and end | specification |
| `LOLM3BanRoom` | the LOLM room | one action per handler |
| `LOLM3BanRoomProofs` | theorems of `LOLM3BanRoom` | TLAPS |
| `LOLM3BanRoomThreads` | the LOLM room on several threads | one action per read or write of shared state |
| `LOLM3BanRoomThreadsProofs` | theorems of `LOLM3BanRoomThreads` | TLAPS |
| `HPBanRoom` | the HP room | one action per handler |
| `HPBanRoomProofs` | theorems of `HPBanRoom` | TLAPS |
| `HPBanRoomThreads` | the HP room on several threads | one action per read or write of shared state |
| `HPBanRoomThreadsProofs` | theorems of `HPBanRoomThreads` | TLAPS |
| `GameRoomManager` | the table and its sweep | one action per iterator step |
| `Sessions` | connections, queue, threads, players, the list of one room | one action per critical section or iterator step |
| `ServerProofs` | theorems of `Sessions` and of `GameRoomManager` | TLAPS |
| `LOLMPage` | a LOLM draft page and any room that implements `BanPick` | one action per callback or click |
| `LOLMOutput` | `LOLMPage` and the result page it leaves for | as above |
| `LOLMPageProofs` | theorems of `LOLMPage` and `LOLMOutput` | TLAPS |
| `HPPage` | the page of an HP captain and the two threads that answer it | one action per callback or click |
| `HPPageProofs` | theorems of `HPPage` | TLAPS |
| `Client` | a browser from the form to the result, with the server's part of it | one action per packet, callback or click |
| `ClientProofs` | theorems of `Client` | TLAPS |
| `MC...` | constants of the instances | - |

Composition: `LOLM3BanRoom` and `HPBanRoom` each take `BanPick` with `INSTANCE ... WITH` and are shown
to implement it; `LOLMPage` takes it as the room it is linked to, so that what the page shows holds with any room
that implements it; `LOLM3BanRoomThreads` takes `LOLM3BanRoom`, and `HPBanRoomThreads` takes `HPBanRoom`, the
same way, and shows that the statements of a handler that overlaps with no other add up to its atomic
action.  So the proofs about the atomic modules are about the code as long as handlers do not overlap, and
the Threads modules say what happens when they do.  `LOLMOutput` extends `LOLMPage`: the page that is left and
the page it leaves for, one room under both.

### LOLM3BanRoom

The variables have the names of the fields; `RoomJData` is what the fields had when they were last
put into the JSON object, a copy of its own because several `put`s come late; `view[c]` is the last
text connection `c` was sent; `timer` says whether a task is scheduled that `timer.cancel()` can reach;
`orphans` counts tasks it cannot reach any more (`SetStatus(BAN)` overwrites `timer` when a choice made
in WAIT has started one).  `Preview` keeps the order of the code: `previewNum` is stored before the
team is looked at.  `chosen`, the guard of `nextProcess` and the reset of `previewNum` are as in the
code, so a choice that is refused has its side effect.  Heroes are numbers, of which some are not
below `MaxHeroCount`; a connection may be linked twice or with any team; it may leave at any time.

### LOLM3BanRoomThreads

`pc[t]` is the statement thread `t` is at, `loc[t]` what it holds in local variables.  `PackThreads`
take packets in any order (the queue's order is `Sessions`' subject); each Timer is a thread.
`Schedule` is three statements, `task = new TimerTask`, `timer = new Timer`, `timer.schedule`, because
two threads can exchange their tasks and timers between them: scheduling a task twice, or on a timer that
was cancelled, throws.  The visibility of unsynchronised writes between threads is taken as sequentially
consistent; what the memory model of Java allows beyond it is not modelled.  `derailed` and `settled` are
history variables for the two properties that need them.
The constants' assumptions say what a start may be: picks begin after the last ban, and PackThreads are finite and no Timers.

### HPBanRoom

`seen[c]` is every place of a group connection `c` was ever sent; `hide` is the array of the code,
restricted to the places of the instance by `Composed`.  `task` names the task that is scheduled:
`SetStatus` (the compose clock) or `nextProcess` (a turn's clock).  COMPOSE and GET_COMPOST packets name a team,
and the room does not compare it with the team that their sender was linked as (lines 98 to 117): any linked
connection may put a card in either team's groups, and is answered with the groups it asks for, in every phase.
So `Compose` and `GetCompose` ask only that the connection is linked, and `HiddenUntilEnd` is not a promise against one
that asks.  It says that nothing else tells a connection a hidden card before the end: no card that others put, no
broadcast, no link, no masked copy, no reply to somebody else.  `Asks` are the connections that ask and the teams they
ask about; the pages ask for their own team only.  `Stage`, `Slot`, `Filled` and `Ban` are the
refinement mapping to `BanPick`: a slot is filled when its turn ends, as a captain may ban again until then.

### HPBanRoomThreads

As `LOLM3BanRoomThreads`, with one card of each team.  `pending` is the set of scheduled tasks with the
instant they are due.  One assumption on time keeps the module to what can happen: clocks run for minutes and
handlers for moments, so a handler may overlap the end of a clock, and two clocks that were set by the same
event may overlap each other, but no handler lasts from the start of a clock to its end (`due`, `during`).
`doubled` and `overtaken` are history variables.  They mark the two ways in which the code does go wrong, which
the properties leave out:

- Two READY packets, on two threads, may both see both captains ready, and both pass `status != COMPOSE`: the clock
  of the time to compose is set twice.  Both run `SetStatus(BAN)`, or both the turns after it: `nowCtrl` may
  be counted up twice for one turn, so that a team does not ban, or a task may be scheduled a second time, throw,
  and leave the draft in BAN without a clock (`HPBanRoom.java:68`, `doubled`).
- A CHOOSE is tested at line 81 and stored at line 82 by the `nowCtrl` of that moment.  If the turn ends in between,
  the ban lands in the other team's slot, or, after the end, in slot 0 (`overtaken`).

### Client

One browser on its way through the pages: `href` is the address (the page's number and what its parameters hold),
`start` how far `Manager` is, `conn` the socket, `up` and `down` the packets on their way.  Each page is loaded anew
(`Leave`), so all that a page knows of the one before is in `href`.  The server's part is the table of one room,
`GetDataProtocol`, `CreateRoomProtocol`, `LinkRoomProtocol` and the draft of `HPBanRoom` without cards: both forms
send game type 2, so no client creates a `LOLM3BanRoom` at this commit.  Two packets may be done in the other order, as
two threads take them.  `label`, `meant` and `told` are history variables.

### GameRoomManager

The map is the order its iterator lists it in; `modCount` and the cursor are those of `HashMap`'s
iterator, which throws when they differ and stops at the end without looking.  The sweep's Timer is dead
once an exception leaves `checkRoom`.  An iterator goes stale in two ways, by a room that is created after it was
made and by the sweep's own removal; `QuietSpec` is `TableSpec` without rooms that are created while a sweep runs, so
that only the second is left.  `Expire` is the four hours of a room
passing; `due` are the rooms that had expired when the running sweep began, for `SweepComplete`.

### Sessions

`asked[c]` is how far the page of `c` is: it sends LOGIN and, when that was answered, LINK_ROOM.
`QuePacket`, `players` (`_allPlayer`), `inRoom` (`_room`), `allPlayers` with its `modCount`, and `lock` (the
monitor of `_allPlayer`, which a `Logout` holds all through `RmRoom`).  `cut` and `thrown` are history variables.  `cut`
marks the two ways in which something is left of a closed connection, which `NothingLeft` leaves out: a packet of it
was still to be handled (`PlayerManager.java:28`), or an entry was added to the list, by a LINK_ROOM that does not hold that lock, while
the Logout was looking for its own, which throws (`LOLM3BanRoom.java:265`).  `thrown` marks a LINK_ROOM whose broadcast threw, and
so has no answer.  The broadcasts of turns only read
the list, so they are not in this module.

### LOLMPage and LOLMOutput

`socket` delivers packets in order; `waiters` are the SYNC and PREVIEW packets whose callback is in
`while (!isInit) await Wait(100)`, and any of them may be drawn next once `isInit` is set, before or after
packets that come later.  `Draw` is the rest of `SyncCallBack`: the end leaves the page, another text replaces
`SyncData`, fills `icon` (slots the text leaves empty are not cleared), removes buttons (`hidden`) and closes
the choose box.  `linked` is the LINK_ROOM of this page: the room lists it and broadcasts, then answers.
`active` are the buttons the filter leaves; `sent` is the packet of the check button on its way.

A behaviour follows either the clicks of the captain (`watched = None`) or the picture of one icon: `loads` are the
pictures that are loading for it, which may be there in another order (`Loaded`), `pic` the last one that was, `marked`
the mark of the next choice.  The two share no state, so nothing is lost by following one at a time.
`passed` marks that a text was drawn before an older one, `overtook` that a picture was there before one that
was asked for earlier: `SyncNewest` and `PictureTrue` hold without these, and fail with them.  A
text that waited for the answer to LINK_ROOM is drawn over a younger one (`UI_BP.ts:105`), and the picture of a
preview stays over that of the choice (`BanPickIcon.ts:25`).

`LOLMOutput` is the page after the end, a page with a connection and a link of its own, whose icons of the bans are made
by the answer and filled by the text that the link brings.

### HPPage

`sent` and `job` carry the page's COMPOSE and GET_COMPOST packets through the queue and the threads: taken,
run (the groups are changed, or read), written.  `Id[p]` is the `Id` of the button of place `p`, which
`CardButton.Init` leaves alone when the place is empty; `box` is what the open box of cards offers.  The box is
taken to cover the places and the arrows while it is open.  `overtaken`, `hasty` and `late` are history
variables: the properties say what holds as long as answers do not overtake each other, the captain waits for
each card, and no answer from the time of composing arrives in the bans.  Without these conditions the
properties fail, as the entries of `hazards` at `UI_BP.ts:296`, `306` and `313` say.


## 3. Runs

| run | instance | checks | states |
|---|---|---|---|
| `lolm_room` | two bans per team, two captains, one linked twice, that may leave; chosen heroes in and out of the table | `TypeOK`, `TurnOrder`, `HeroOnce`, `PreviewFree`, `LinkedUpToDate`, `ClockRuns`, `ImplementsDraft` | 68 000 |
| `lolm_threads` | two READY on two threads; a choice against the timeout, at the last ban and at the last pick; every packet, one handler at a time | `AtomicWhenAlone`, `StartNotLost`, `ClockKept` | 137 000 |
| `lolm_hero_race` | a choice of the previewed hero against the timeout | `HeroOnce` is violated | - |
| `hp_room` | two groups, one hidden and one open place, two captains who ask for their own groups and a watcher who asks for blue's; each may write into both teams' groups | `TypeOK`, `ClockMatchesPhase`, `HiddenUntilEnd`, `BansOnTheFinalGroups`, `LinkedUpToDate`, `ImplementsDraft` | 104 000 |
| `hp_threads` | two READY at once; cards at the end of composing; bans at the end of either turn; a whole draft, one handler at a time | `BothBanned`, `OwnBans`, `AtomicWhenAlone`, `DraftEnds` | 36 000 |
| `room_table` | three keys, four rooms | `TypeOK`, `OnlyExpiredLeave`, `SweepComplete`, `ExpiredLeaveOrDead` | 60 000 |
| `room_sweep` | two rooms, and none is created while a sweep runs (`QuietSpec`) | `ExpiredLeave` is violated | - |
| `sessions` | two connections, two threads | `KnownWhileOpen`, `RoomBothWays`, `NothingLeft`, `AnsweredOrThrown` | 58 000 |
| `lolm_page` | the blue captain's page, two bans and a pick, linked at any moment, and the result after it (`LOLMOutput`) | `IconsTrue`, `OfferIsLegal`, `PictureTrue`, `SyncNewest`, `CatchesUp`, `ResultShown` | 141 000 |
| `hp_page` | the blue captain's page, two groups, a place that is shown in the bans and one that is not | `GroupsTrue`, `BansAgainstTheOther` | 1 343 000 |
| `hp_cards` | as above | `CardOnce` is violated | - |
| `client` | a browser with either client, two names, a draft of two groups | `SideAsLabelled`, `RefusedOnlyIfGone`, `ResultTrue`, `ReachesResult` | 186 000 |

What the runs show, read together.  With handlers that do not overlap, both rooms are correct: they implement the
abstract draft, fairness included, nobody linked is left behind, and the clocks carry every draft to its end.  The
statements of a handler add up to its atomic action in both rooms, so what can go wrong comes from
overlap.  In the LOLM room the start survives it, the clock survives it unless a thread ran past the end of an array
or a timeout's hero was refused, and the rule that a hero is used once does not.  In the HP room every draft ends with
both bans made, unless two READY met (`doubled`), and nobody bans for the other team, unless a turn ended in the middle
of a ban (`overtaken`).  Pages draw texts in an order of their own; what they draw is true, but may be old.

**Why the bounds are enough.**  The rules of a turn do not depend on how many turns there are, except at
the first and the last ban and at the first and the last pick: `BanCount = 2` has
all four, and bans that are neither.  For both rooms the proofs below take the bounds away.
`Starts` in the Threads runs (bans made, picks made, packets on their way) places the room
right before such a turn instead of replaying the draft.
In `lolm_threads` three handlers may be under way at once at the start of the draft, and two after it (`mcAtOnce`,
a constraint of the run): the theorems on `StartNotLost` and `ClockKept` need no such bound.
Two heroes are needed for one that is taken and one that is free, one number beyond the table for a refusal.
Two PackThreads are what `ThreadManager` starts.  Three rooms are the least for a sweep that removes one and
then does, or does not, look at another; the fourth allows a room to be made during a sweep.
On the pages one text that waits and one that overtakes it
are enough for every order of drawing (`MaxTexts = 2`), and a picture that loads beside one that is previewed is enough for
them to overtake each other (`MaxLoads = 1` bounds only previews); `MaxPackets = 2` has two answers
that overtake each other, and an answer that meets the bans.  `MaxOnTheWay = 3` is a text each of the link and of two
captains.  `MaxTimers = 9` is more Timers than two clocks for composing and their turns make.  `MaxPlayers`, `MaxRooms`,
`MaxTimers`, `MaxTexts`, `MaxLoads`, `MaxPackets` and `MaxOnTheWay` bound otherwise unbounded counters, in the guards.

**Deadlock.**  It is not checked where the system may stop: everybody has left a room that is over, or the
sweep is dead and no rooms are left to create.

**Fairness.**  A scheduled task runs (`java.util.Timer`), so the timer actions are weakly fair.  A thread
that can take a step takes it: `Sessions` and `HPBanRoomThreads` are weakly fair to every thread.  No fairness is
assumed of who clicks: captains may never choose, previews may come for ever, connections may stay or close as they
like.  `LOLMPage` and `LOLMOutput` are fair to the server's answer, to delivery, to an expired `setTimeout` and to the
load of the next page.  `Client` is fair to the load of a page, to its look for the socket, to a socket that is being opened
(it opens or fails), to the server and its clock, to delivery and to an expired `setTimeout`.  A lost connection ends every
promise of a page, as no page opens another one.  `LOLM3BanRoomThreads` and `HPPage` state safety only.

**Violations.**  Each is a disagreement between the code and what it or its comments say, listed under `findings`:

1. `HeroOnce` on threads: test and put of `chosen` are not atomic (`LOLM3BanRoom.java:207-210`).
2. `ExpiredLeave`: a sweep that removes any room but the last listed one kills its thread
   (`GameRoomManager.java:84`), also when no room is created meanwhile.
3. `CardOnce`: an empty place keeps the card of the group shown before, which is then offered twice
   (`CardButton.ts:27` of the HP client).

**What the properties leave out.**  Where the code promises nothing in words, a property that holds only under a
condition says so, and what happens otherwise is told here:

- `SyncNewest`, `PictureTrue`: an older text or picture over a younger one (`passed`, `overtook`, above).
- `BothBanned`, `DraftEnds`, `OwnBans`: `doubled` and `overtaken`, above.
- `HiddenUntilEnd`: a connection that asks for a team's groups is answered, whichever team it belongs to.
- `NothingLeft`: `cut`, above.  `AnsweredOrThrown`: `thrown`, above.
- `GroupsTrue`, `BansAgainstTheOther`: answers that overtake each other or come in the bans (`overtaken`, `late`, above).
- `OnlyExpiredLeave` speaks of keys: a room that is created under the key of another replaces it.
- `BansOnTheFinalGroups` is of handlers that do not overlap: a card that is written when the masked copy has been
  made is not in the copy, but is in the groups at the end (`HPBanRoom.java:105`).
- `ReachesResult`, first part: the LOLM draft page asks for its table without a `gameType`, `GetDataProtocol.java:16`
  throws, and the page is never linked to its room.  The property claims it of the HP client only.
- `isClick` of the forms stays set when the connection was lost or the answer does not come: the form has to be loaded
  again.  A number of bans that is not a number passes the test of the LOLM form.

## 4. Proofs

The theorems hold for every value of the constants that satisfies the assumptions of the module that declares them: a
number of bans or groups that is not 0, a bound on heroes, any sets of cards, connections, threads, numbers and
links, a finite set of keys, any starts of the draft that the game allows, any finite set of PackThreads.

| module | theorem | states |
|---|---|---|
| `LOLM3BanRoomProofs` | `TypeCorrect` | `Spec => []TypeOK` |
| | `HeroesUnique` | `Spec => []HeroOnce` |
| | `TurnsInOrder` | `Spec => []TurnOrder` |
| | `TakenRefused` | `Spec => []TakenAreChosen` |
| | `PreviewStaysFree` | `Spec => []PreviewFree` |
| | `EveryoneUpToDate` | `Spec => []LinkedUpToDate` |
| | `DraftIrrevocable` | `Spec => Irrevocable` |
| | `ClockAlwaysRuns` | `Spec => []ClockRuns`, if every number a page previews is below `MaxHeroCount` |
| | `RoomImplementsDraft` | initial states and steps of the room are those of `BanPick`, or stutter |
| `HPBanRoomProofs` | `TypeCorrect` | `Spec => []TypeOK` |
| | `ClockAlwaysMatches` | `Spec => []ClockMatchesPhase` |
| | `HiddenCardsStayHidden` | `Spec => []HiddenUntilEnd` |
| | `GroupsAreFinal` | `Spec => []BansOnTheFinalGroups` |
| | `ScreensAreUpToDate` | `Spec => []LinkedUpToDate` |
| | `RoomImplementsDraft` | as above, for the HP room |
| `ServerProofs` | `AnsweredAreKnown` | `Spec => []KnownWhileOpen` |
| | `RoomAndListAgree` | `Spec => []RoomBothWays` |
| | `LogoutLeavesNothing` | `Spec => []NothingLeft` |
| | `TableTypeCorrect` | `TableSpec => []TypeOK` |
| | `OnlyTheExpiredLeave` | `TableSpec => OnlyExpiredLeave` |
| | `SweepsAreComplete` | `TableSpec => SweepComplete` |
| `LOLM3BanRoomThreadsProofs` | `Invariance` | `Spec => []IInv` |
| | `StartIsNotLost` | `Spec => []StartNotLost` |
| | `ClockIsKept` | `Spec => []ClockKept` |
| | `AtomicIsRight` | `Spec => AtomicWhenAlone` |
| `HPBanRoomThreadsProofs` | `Invariance` | `Spec => []IInv` |
| | `BansAreOwn` | `Spec => []OwnBans` |
| | `BothHaveBanned` | `Spec => []BothBanned` |
| `LOLMPageProofs` | `Invariance` | `[]IInv`, from `Spec` and from `OutSpec` |
| | `IconsAreTrue` | `[]IconsTrue`, from both |
| | `OffersAreLegal` | `[]OfferIsLegal`, from both |
| | `PicturesAreTrue` | `[]PictureTrue`, from both |
| | `NewestIsDrawn` | `[]SyncNewest`, from both |
| `HPPageProofs` | `Invariance` | `Spec => []IInv` |
| | `GroupsAreTrue` | `Spec => []GroupsTrue` |
| | `BansAreAgainstTheOther` | `Spec => []BansAgainstTheOther` |
| `ClientProofs` | `Invariance` | `Spec => []IInv` |
| | `SidesAreRight` | `Spec => []SideAsLabelled` |
| | `RefusalsAreRight` | `Spec => []RefusedOnlyIfGone` |
| | `ResultIsTrue` | `Spec => []ResultTrue` |

None of the properties is inductive alone.  Each module defines an invariant `IInv` (`TableInv` for the table), proves that `Init` establishes it and
that each action keeps it, one lemma per action or per group of actions with one effect, and draws the
theorems from it.

**LOLM room.**  A turn that fills a slot keeps `HeroOnce` only if
every hero in a slot is in `chosen` (`TakenAreChosen`); the hero of a timeout passes the test only if it is
free (`PreviewFree`); and an index stays inside its array only if status, flags and `nowCtrl` agree
(`TurnOrder`, `RestEmpty`).  With them stand `Published` (`RoomJData` agrees with the fields), `Current` (everybody
linked was sent the room as it is) and `OneOrphan` (a timer is lost only when the draft starts).  The steps that
fill a slot (`nextProcess` by a choice, by the timer, by an orphan) share the lemmas about `Turn`.
`ClockAlwaysRuns` needs its assumption: a previewed number that is not in the table is stored, the timeout with it
is refused, and the one-shot clock is not started again.  The pages show only heroes of the table.

**HP room.**  What a connection has seen depends on what `RoomJData` held when it was linked, so `HiddenUntilEnd` needs
`Published` (the groups are in the text only at the end), `BansOnTheFinalGroups` (the masked copy has no hidden place),
that a card is sent to members of its team and a reply to who asked (`AsksAssumption` gives that a connection), and
that removing one entry of the list takes nobody else's team (`LeaveStep`).  `BansAreChosen` carries the refinement: a ban is a value that `BanPick` may fill in.

**Room table.**  `SweepComplete` speaks of the end of a sweep.  `DueAhead` says of its middle what makes it true: a room that was
due when the sweep began and is still there is at the iterator's key or behind it, and a room that is created meanwhile,
even under the key of one, is not due.  The iterator's order is that of the keys, whose least element
`LeastKey` takes from the library's theorem on well-founded sets.

**Connections.**  A client waits for an answer before it sends again, so a connection has at most one packet in the queue
or on a thread (`OneOnItsWay`, `AskedMatches`), and is added to the list once at most (`ListedOnce`).  A Logout runs
after its connection has closed, holds the lock from where it finds the room to where it forgets the Player (`Where`),
and removes are made by Logouts only: so, while one looks for its entry, nothing but an addition makes its iterator
stale, and what the iterator has passed is not its own entry (`Gone`).  `InRoom` relates the list, `_room` and `_allPlayer`;
`CutRight` says that a closed connection with a packet on its way is in `cut`.

**LOLM room on threads.**  What may never be lost is held by a thread while no field shows it.  `StartComes`: if both captains
are marked and the draft has not begun, some thread stands between its mark and `SetStatus(BAN)`.  `ClockHeld`: a draft
under way has a scheduled task, or a `Bearer`, a thread that has cancelled one (or is one) and has yet to schedule the next;
it stops being one only by giving up its turn (`derailed`).  A step moves one thread, so each needs what the step
does to its own thread and to the shared fields (`Kept`), whatever the others are at.

`AtomicIsRight` is of the starts without overlap.  `settled` is the room that the handler in progress has found; for every label
`InReady`, `InPacket` and `InTurn` say which part of the atomic action is done there (`Marked`, `Begun`, `Took`, `Ban1` to
`Banned`, ...) and what became of the clock, in terms of `Armed` and `Orphans`, the two values that `LOLM3BanRoom` knows the
Timers by.  Each statement goes from one entry to the next (`...Alone`); the last one has a whole action behind it
(`ReadyIsAStep`, `PreviewIsAStep`, `RefusalIsAStep`, `TurnIsAStep`).  With `HeroesUnique` and the others this is what makes the
theorems about the atomic room theorems about the code of handlers that do not overlap.

**HP room on threads.**  `OwnBans` needs that the team a choice was tested for is the one it is stored for, or that a turn
has ended in between, which the history variable records (`ChoosesOwn`).  `BothBanned` is about clocks.  Until two READY have
each set the clock for composing (`doubled`), at most one clock runs, and it rings at the next instant (`OneClock`); at most
one timeout is handled at a time, and none before it sets a clock while one is pending (`OneTimeout`); as long as
a READY may still set the clock for composing no timeout runs, and the task that ends composing waits for that READY
(`ComposeFirst`, `NoClockYet`).  So the statements of the turns come one after the other, and a timeout passes on only when
the ban of its turn is there (`TurnsDone`).  Together these are `Chain`, which holds as long as not `doubled`; the rest of `IInv`
holds always.  The assumptions say that PackThreads are no Timers, that there is a Timer, and that a start is one of the four
phases of a draft.

**LOLM pages.**  The page is linked to any room that implements `BanPick`, and texts are drawn in any order.  A slot is
filled once, so a hero that an older text has in a slot is the hero of that slot in every younger one: the invariant says
of every text on its way, waiting or drawn, that it is a past of the room, and of the icons, the buttons and the
pictures that they come from texts that were drawn.  `passed` and `overtook` are shown to be the only ways to an older
text, or picture, over a younger one.  One invariant serves both specifications: the page that follows changes nothing of the first.

**HP page.**  `GroupsTrue` speaks of a page that waits for nothing; the invariant says what comes meanwhile.  As long as
answers are written in the order in which the groups were changed and read (not `overtaken`), what is on its way is one row:
`socket`, then the answers that threads hold, in the order of `ran`.  For each place of each group the last entry of that row that changes it
has the room's card, or none does and the page shows it (`GroupsCome`), unless a GET_COMPOST has yet to be run (`Asked`),
whose answer will bring all of them.  A packet that is run adds to the end of the row, one that is written moves from its answers to
the socket, one that is read goes from its front to the page (`Longer`, `Shorter`).  `LinkRight` says that the page is
answered once and draws nothing before, so that the request it sends then is not lost.  For `BansAgainstTheOther` the
groups stay once the bans have begun (`GroupsStay`), so every text of the bans, on its way or waiting, has them as they are.

**Client.**  Every packet but READY, CHOOSE and a text is the question or the answer of one conversation that a page begins
when it is opened: there is one of them on its way at most (`OneTalk`), and it is of the page that is open.  So the one room that
was made is the one that each later address and request is about (`AddressRight`), with the names, the team and the
password that the answer had, and the captain who is linked leaves the page for the result only.  `ResultIsTrue` adds that a
CHOOSE on its way has the group that was shown, and that a result shows all the groups but one, which `FS_RemoveElement` counts.

**Only model-checked.**  Liveness (`DraftEnds`, `ExpiredLeaveOrDead`, `AnsweredOrThrown`, `CatchesUp`, `ResultShown`,
`ReachesResult`, the fair part of `ImplementsDraft`): fairness and `ENABLED` are beyond the provers that are used.  `AtomicWhenAlone`
of `HPBanRoomThreads`.  No module that is proved about declares a RECURSIVE operator, and no proof needs
an induction over data.

## 5. Not modelled

- On the pages: the countdown, labels, the watcher's labels of the HP page, pictures that cannot be loaded, the messages
  about empty fields, the copy of a link to the clipboard.
- A page that is linked to two rooms; the other packets' way through the queue in `Sessions` (they change only the room).
- netty's pipeline and asynchronous writes; a write is delivered or, for a closed connection, dropped.
- Names (but for `Client`), passwords and the texts of packets; MD5, which only makes keys.
- In `HPPage`, other connections that write into the groups of the captain's own team, or a second page of the captain: the
  page is the only one that composes for its team once it is linked.
- Malformed packets: handlers catch what they throw before any state has changed.
- Java's memory model below sequential consistency; `HashMap`'s internal state under concurrent `put`s.
- `CloseRoom`, which nobody calls.

## 6. Plan

What could follow, in this order:

1. `LOLMPage` composed with `LOLM3BanRoom` instead of `BanPick`: what a captain clicks is meant for the turn it
   reaches, the empty choice that is clicked twice included.
2. The proof of the refinement of `HPBanRoomThreads` (`AtomicWhenAlone`), on the pattern of `AtomicIsRight`.
3. `Sessions` with two rooms, so that a page may leave one for another.
