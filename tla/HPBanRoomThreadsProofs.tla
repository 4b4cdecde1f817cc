----------------------- MODULE HPBanRoomThreadsProofs -----------------------
(***************************************************************************)
(* Proofs about HPBanRoomThreads.                                          *)
(***************************************************************************)
EXTENDS HPBanRoomThreads, FiniteSetTheorems, TLAPS

Statuses == {"WAIT", "COMPOSE", "BAN", "END"}
Cards    == [Teams -> Nat]
Jsons == [Status : Statuses, BanList : BOOLEAN, Compose : BOOLEAN, NowCtrl : Int,
          HideCompose : Cards \cup {NotPut}]
Rooms == [status : Statuses, isReady : [Teams -> BOOLEAN], card : Cards,
          banData : [Teams -> Int], nowCtrl : Nat, Json : Jsons]
Texts == [Status : Statuses, Ready : [Teams -> BOOLEAN], BanList : [Teams -> Int] \cup {NotPut},
          NowCtrl : Int, HideCompose : Cards \cup {NotPut}, Compose : Cards \cup {NotPut}]
Locals == [team : Teams, num : Nat, ctrl : Nat, data : Texts \cup {NotPut}]
Deeds  == {"SetStatus", "nextProcess"}
Tasks  == [on : TimerIds, does : Deeds, due : Nat, during : SUBSET PackThreads]

\* A READY that saw the status WAIT and may still set the clock for composing.
SettingOut == {"compose2", "compose3", "compose_timer", "compose_schedule"}
Gathering  == {"ready", "both", "COMPOSE?", "compose1"} \cup SettingOut
\* A timeout that has yet to set the clock of the next turn, or need not.
InTurn     == {"nextProcess", "next1", "next2", "next3", "next4", "next5", "next6", "next7",
               "next8", "end", "end1", "end2", "end3", "rearm?", "rearm", "rearm_timer",
               "rearm_schedule"}
BeforeClock == {"SetStatus", "ban1", "ban2", "ban3", "ban_timer", "ban_schedule"} \cup InTurn

PackLabels  == {"idle", "text", "write", "READY", "CHOOSE", "choose1", "choose2", "choose3",
                "COMPOSE", "card", "tell"} \cup Gathering
TimerLabels == {"idle", "text", "write", "ban4", "ban5", "ban6"} \cup BeforeClock

\* The types of the room's fields, of the clocks and of what the threads remember.
Types ==
  /\ at \in Starts
  /\ room \in Rooms
  /\ loc \in [Threads -> Locals]
  /\ pc \in [Threads -> PackLabels \cup TimerLabels]
  /\ \A t \in PackThreads : pc[t] \in PackLabels
  /\ \A t \in TimerIds : pc[t] \in TimerLabels
  /\ queue \subseteq at.packets
  /\ task \in [does : Deeds, fresh : BOOLEAN] /\ timer \in TimerIds /\ live \in BOOLEAN
  /\ created \in 1 .. MaxTimers /\ now \in Nat
  /\ pending \subseteq Tasks
  /\ doubled \in BOOLEAN /\ overtaken \in BOOLEAN

-----------------------------------------------------------------------------
\* What team k's captain sent to be banned.
OwnNums(k) == {p.num : p \in {q \in at.packets : q.pt = "CHOOSE" /\ q.team = k}}

\* A choice under way is a packet of its team, and it is that team's turn once
\* it was tested.
ChoosesOwn ==
  \A t \in Threads : /\ pc[t] \in {"CHOOSE", "choose1", "choose2"}
                          => loc[t].num \in OwnNums(loc[t].team)
                     /\ pc[t] = "choose2" /\ ~overtaken => loc[t].team = room.nowCtrl

OwnInv == ChoosesOwn /\ OwnBans

-----------------------------------------------------------------------------
Resting == \A t \in TimerIds : pc[t] = "idle"

\* At most one clock runs, and it rings at the next instant.
OneClock == /\ \A p, q \in pending : p = q
            /\ \A p \in pending : p.due = now + 1

\* At most one timeout is handled at a time, and until it sets a clock none runs.
OneTimeout ==
  /\ \A t, u \in TimerIds : pc[t] # "idle" /\ pc[u] # "idle" => t = u
  /\ (\E t \in TimerIds : pc[t] \in BeforeClock) => pending = {}

\* While a READY may still set the clock for composing, no timeout is handled, and
\* that clock, if another READY has set it, waits for this one.
ComposeFirst ==
  \A t \in PackThreads : pc[t] \in Gathering =>
    /\ Resting /\ task.does = "SetStatus"
    /\ room.status \in {"WAIT", "COMPOSE"}
    /\ pc[t] \in SettingOut => room.status = "COMPOSE"
    /\ \A p \in pending : p.does = "SetStatus" /\ t \in p.during

\* Nothing is scheduled before the captains are ready.
NoClockYet ==
  room.status = "WAIT" => pending = {} /\ Resting /\ task.does = "SetStatus"

\* The teams whose turn is over have banned, and a timeout goes on to the next
\* turn only after it made sure of that.
Banned(k) == room.banData[k] # NoBan
TurnsDone ==
  /\ room.nowCtrl \in 0 .. 2
  /\ \A k \in Teams : k < room.nowCtrl \/ room.status = "END" => Banned(k)
  /\ \A t \in TimerIds :
       /\ pc[t] \in {"next3", "next4", "next5", "next6"} => room.nowCtrl \in Teams
       /\ pc[t] \in {"next4", "next5", "next6"} => Banned(room.nowCtrl)
       /\ pc[t] = "next6" => loc[t].ctrl = room.nowCtrl
       /\ pc[t] = "end" => room.nowCtrl = 2

Chain == OneClock /\ OneTimeout /\ ComposeFirst /\ NoClockYet /\ TurnsDone

IInv == Types /\ OwnInv /\ (~doubled => Chain)

-----------------------------------------------------------------------------
\* RoomJData.toString() of a room is a text.
LEMMA SnapshotType == ASSUME NEW r \in Rooms  PROVE Snapshot(r) \in Texts
  BY DEF Rooms, Jsons, Snapshot, Texts

\* The labels of a PackThread lead to labels of a PackThread, and so do those of
\* the thread of a Timer.
Follows(from, to) == /\ from \in PackLabels => to \in PackLabels
                     /\ from \in TimerLabels => to \in TimerLabels

\* The handlers' last step forgets a handler, and no task.
LEMMA LeavesTasks ==
  ASSUME NEW t \in Threads, NEW P, P \subseteq Tasks
  PROVE  /\ Leaves(t, P) \subseteq Tasks
         /\ \A p \in Leaves(t, P) : \E q \in P :
              p.on = q.on /\ p.does = q.does /\ p.due = q.due /\ p.during = q.during \ {t}
  BY DEF Leaves, Tasks

\* A thread that goes on from its label keeps the threads in their lanes.
LEMMA Lanes ==
  ASSUME Types, NEW t \in Threads, NEW to, Follows(pc[t], to), pc' = [pc EXCEPT ![t] = to]
  PROVE  /\ pc' \in [Threads -> PackLabels \cup TimerLabels]
         /\ \A u \in PackThreads : pc'[u] \in PackLabels
         /\ \A u \in TimerIds : pc'[u] \in TimerLabels
         /\ pc'[t] = to /\ \A u \in Threads : u # t => pc'[u] = pc[u]
<1>1. /\ pc \in [Threads -> PackLabels \cup TimerLabels]
      /\ \A u \in PackThreads : pc[u] \in PackLabels
      /\ \A u \in TimerIds : pc[u] \in TimerLabels
  BY DEF Types
<1>2. t \in PackThreads \/ t \in TimerIds
  BY DEF Threads
<1>3. to \in PackLabels \cup TimerLabels
  BY <1>1, <1>2 DEF Follows
<1>4. pc'[t] = to /\ \A u \in Threads : u # t => pc'[u] = pc[u]
  BY <1>1
<1>5. PackThreads \subseteq Threads /\ TimerIds \subseteq Threads
  BY DEF Threads
<1> QED  BY <1>1, <1>3, <1>4, <1>5 DEF Follows

\* The types that a step has to keep.
Typed == /\ room' \in Rooms /\ loc' \in [Threads -> Locals]
         /\ pc' \in [Threads -> PackLabels \cup TimerLabels]
         /\ \A u \in PackThreads : pc'[u] \in PackLabels
         /\ \A u \in TimerIds : pc'[u] \in TimerLabels
         /\ queue' \subseteq queue
         /\ task' \in [does : Deeds, fresh : BOOLEAN] /\ timer' \in TimerIds /\ live' \in BOOLEAN
         /\ created' \in 1 .. MaxTimers /\ now' \in Nat
         /\ pending' \subseteq Tasks

\* A statement keeps them that leaves the room a room.
LEMMA StmtTyped ==
  ASSUME Types, NEW t \in Threads, NEW from, NEW to, NEW r \in Rooms,
         Stmt(t, from, to, r), Follows(from, to)
  PROVE  Typed
<1>1. /\ pc[t] = from /\ pc' = [pc EXCEPT ![t] = to] /\ room' = r
      /\ UNCHANGED <<timer, task, live, created, now, queue>>
  BY DEF Stmt, Return, Goto
<1>2. NoLocals \in Locals
  BY DEF NoLocals, Locals, Teams
<1>3. loc' \in [Threads -> Locals] /\ pending' \subseteq Tasks
  BY <1>2, LeavesTasks DEF Stmt, Return, Types
<1> QED  BY <1>1, <1>3, Lanes DEF Typed, Types

\* A branch keeps them.
LEMMA BranchTyped ==
  ASSUME Types, NEW t \in Threads, NEW from, NEW to, Branch(t, from, to), Follows(from, to)
  PROVE  Typed
  BY StmtTyped DEF Branch, Types

\* The three statements that set a clock keep them.
LEMMA ScheduleTyped ==
  ASSUME Types, NEW t \in Threads, NEW from, NEW new, NEW add, NEW does \in Deeds, NEW to,
         Schedule(t, from, new, add, does, to),
         Follows(from, new), Follows(new, add), Follows(add, to), Follows(add, "idle")
  PROVE  Typed
<1>1. CASE /\ pc[t] = from /\ Goto(t, new)
           /\ task' = [does |-> does, fresh |-> TRUE]
           /\ UNCHANGED <<room, timer, live, pending, created, now, screen, told, queue, loc>>
  BY <1>1, Lanes DEF Goto, Typed, Types
<1>2. CASE /\ pc[t] = new /\ Goto(t, add)
           /\ created < MaxTimers
           /\ created' = created + 1 /\ timer' = created' /\ live' = TRUE
           /\ UNCHANGED <<room, task, pending, now, screen, told, queue, loc>>
  <2>1. created' \in 1 .. MaxTimers /\ timer' \in TimerIds
    BY <1>2, ThreadAssumption DEF Types, TimerIds
  <2> QED  BY <1>2, <2>1, Lanes DEF Goto, Typed, Types
<1>3. CASE /\ pc[t] = add /\ Goto(t, to)
           /\ live /\ task.fresh
           /\ task' = [task EXCEPT !.fresh = FALSE]
           /\ pending' = pending \cup
                {[Task(timer, task.does) EXCEPT !.during = Busy \cap PackThreads]}
           /\ UNCHANGED <<room, timer, live, created, now, screen, told, queue, loc>>
  <2>1. [Task(timer, task.does) EXCEPT !.during = Busy \cap PackThreads] \in Tasks
    BY DEF Types, Task, Tasks
  <2>2. task' \in [does : Deeds, fresh : BOOLEAN] /\ pending' \subseteq Tasks
    BY <1>3, <2>1 DEF Types
  <2> QED  BY <1>3, <2>2, Lanes DEF Goto, Typed, Types
<1>4. CASE ~(live /\ task.fresh) /\ Branch(t, add, "idle")
  BY <1>4, BranchTyped
<1> QED  BY <1>1, <1>2, <1>3, <1>4 DEF Schedule

\* The text of a broadcast and its write keep them.
LEMMA SyncTyped ==
  ASSUME Types, NEW t \in Threads, Sync(t, "text")
  PROVE  Typed
<1>1. Snapshot(room) \in Texts
  BY SnapshotType DEF Types
<1>2. NoLocals \in Locals /\ [NoLocals EXCEPT !.data = Snapshot(room)] \in Locals
  BY <1>1 DEF NoLocals, Locals, Teams
<1>3. Follows("text", "write") /\ Follows("write", "idle")
  BY DEF Follows, PackLabels, TimerLabels
<1>4. CASE /\ pc[t] = "text" /\ Goto(t, "write")
           /\ loc' = [loc EXCEPT ![t] = [NoLocals EXCEPT !.data = Snapshot(room)]]
           /\ UNCHANGED <<shared, queue>>
  <2>1. loc' \in [Threads -> Locals]
    BY <1>2, <1>4 DEF Types
  <2>2. pc[t] = "text" /\ pc' = [pc EXCEPT ![t] = "write"] /\ Follows(pc[t], "write")
    BY <1>3, <1>4 DEF Goto
  <2> QED  BY <1>4, <2>1, <2>2, Lanes DEF shared, clock, Typed, Types
<1>5. CASE pc[t] = "write" /\ Return(t) /\ UNCHANGED <<room, timer, task, live, created, now, queue>>
  <2>1. pending' \subseteq Tasks /\ loc' \in [Threads -> Locals]
    BY <1>2, <1>5, LeavesTasks DEF Return, Types
  <2>2. pc[t] = "write" /\ pc' = [pc EXCEPT ![t] = "idle"]
    BY <1>5 DEF Return, Goto
  <2>3. Follows(pc[t], "idle")
    BY <1>3, <2>2
  <2> QED  BY <1>5, <2>1, <2>2, <2>3, Lanes DEF Typed, Types
<1> QED  BY <1>4, <1>5 DEF Sync

-----------------------------------------------------------------------------
\* Handler by handler, every statement keeps the types.
LEMMA BeginsTyped ==
  ASSUME Types, NEW t \in Threads, Take(t) \/ Fire(t)
  PROVE  Typed
<1>1. CASE Take(t)
  <2>1. PICK p \in queue :
          /\ queue' = queue \ {p}
          /\ loc' = [loc EXCEPT ![t].team = p.team, ![t].num = p.num]
          /\ pc' = [pc EXCEPT ![t] = p.pt]
    BY <1>1 DEF Take, Goto
  <2>2. p \in Packets
    BY <2>1 DEF Types, Packets
  <2>3. p.team \in Teams /\ p.num \in Nat /\ p.pt \in {"READY", "CHOOSE", "COMPOSE"}
    BY <2>2, PacketAssumption
  <2>4. loc' \in [Threads -> Locals] /\ queue' \subseteq queue
    <3>1. loc \in [Threads -> Locals] /\ [loc[t] EXCEPT !.team = p.team, !.num = p.num] \in Locals
      BY <2>3 DEF Types, Locals
    <3>2. loc' = [loc EXCEPT ![t] = [loc[t] EXCEPT !.team = p.team, !.num = p.num]]
      BY <2>1, <3>1
    <3> QED  BY <2>1, <3>1, <3>2
  <2>5. t \in PackThreads /\ t \notin TimerIds /\ pc[t] = "idle"
    BY <1>1, ThreadAssumption DEF Take
  <2>6. p.pt \in PackLabels
    BY <2>3 DEF PackLabels
  <2>7. /\ pc' \in [Threads -> PackLabels \cup TimerLabels]
        /\ \A u \in PackThreads : pc'[u] \in PackLabels
        /\ \A u \in TimerIds : pc'[u] \in TimerLabels
    BY <2>1, <2>5, <2>6 DEF Types, Threads
  <2> QED  BY <1>1, <2>4, <2>7 DEF Take, shared, clock, Typed, Types
<1>2. CASE Fire(t)
  <2>1. PICK p \in pending :
          /\ p.on = t /\ now' = p.due /\ pending' = pending \ {p}
          /\ pc' = [pc EXCEPT ![t] = p.does]
          /\ UNCHANGED <<room, timer, task, live, created, screen, told, queue, loc>>
    BY <1>2 DEF Fire, Goto
  <2>2. p \in Tasks
    BY <2>1 DEF Types
  <2>3. t \in TimerIds /\ t \notin PackThreads /\ now' \in Nat /\ p.does \in TimerLabels
    BY <2>1, <2>2, ThreadAssumption DEF Tasks, Deeds, TimerLabels, BeforeClock, InTurn
  <2>4. /\ pc' \in [Threads -> PackLabels \cup TimerLabels]
        /\ \A u \in PackThreads : pc'[u] \in PackLabels
        /\ \A u \in TimerIds : pc'[u] \in TimerLabels
    BY <2>1, <2>3 DEF Types, Threads
  <2> QED  BY <2>1, <2>3, <2>4 DEF Typed, Types
<1> QED  BY <1>1, <1>2

\* READY keeps the types: it sets a flag.
LEMMA ReadyTyped ==
  ASSUME Types, NEW t \in Threads, Ready(t)
  PROVE  Typed
<1>1. [room EXCEPT !.isReady[loc[t].team] = TRUE] \in Rooms
  BY DEF Types, Rooms
<1>2. /\ Follows("READY", "ready") /\ Follows("READY", "idle") /\ Follows("ready", "both")
      /\ Follows("both", "COMPOSE?") /\ Follows("both", "text")
  BY DEF Follows, PackLabels, Gathering, TimerLabels, BeforeClock, InTurn
<1> QED  BY <1>1, <1>2, StmtTyped, BranchTyped DEF Ready

\* SetStatus(COMPOSE) keeps them: the status and its copy in RoomJData.
LEMMA StartComposeTyped ==
  ASSUME Types, NEW t \in Threads, StartCompose(t)
  PROVE  Typed
<1>1. /\ [room EXCEPT !.status = "COMPOSE"] \in Rooms
      /\ [room EXCEPT !.Json.Status = "COMPOSE"] \in Rooms
  BY DEF Types, Rooms, Jsons, Statuses
<1>2. /\ Follows("COMPOSE?", "text") /\ Follows("COMPOSE?", "compose1")
      /\ Follows("compose1", "compose2") /\ Follows("compose2", "compose3")
      /\ Follows("compose3", "compose_timer") /\ Follows("compose_timer", "compose_schedule")
      /\ Follows("compose_schedule", "text") /\ Follows("compose_schedule", "idle")
  BY DEF Follows, PackLabels, Gathering, SettingOut, TimerLabels, BeforeClock, InTurn
<1>3. "SetStatus" \in Deeds
  BY DEF Deeds
<1> QED  BY <1>1, <1>2, <1>3, StmtTyped, BranchTyped, ScheduleTyped DEF StartCompose

\* SetStatus(BAN) keeps them: the status, the turn and the masked groups.
LEMMA StartBanTyped ==
  ASSUME Types, NEW t \in Threads, StartBan(t)
  PROVE  Typed
<1>1. room \in Rooms
  BY DEF Types
<1>2. /\ [room EXCEPT !.status = "BAN"] \in Rooms
      /\ [room EXCEPT !.Json.Status = "BAN"] \in Rooms
      /\ [room EXCEPT !.nowCtrl = 0] \in Rooms
      /\ [room EXCEPT !.Json.NowCtrl = room.nowCtrl] \in Rooms
  BY <1>1 DEF Rooms, Jsons, Statuses
<1>3. [k \in Teams |-> room.card[1 - k]] \in Cards
  BY <1>1 DEF Rooms, Cards, Teams
<1>4. [room EXCEPT !.Json.HideCompose = [k \in Teams |-> room.card[1 - k]]] \in Rooms
  BY <1>1, <1>3 DEF Rooms, Jsons
<1>5. /\ Follows("SetStatus", "idle") /\ Follows("SetStatus", "ban1") /\ Follows("ban1", "ban2")
      /\ Follows("ban2", "ban3") /\ Follows("ban3", "ban_timer")
      /\ Follows("ban_timer", "ban_schedule") /\ Follows("ban_schedule", "ban4")
      /\ Follows("ban_schedule", "idle") /\ Follows("ban4", "ban5") /\ Follows("ban5", "ban6")
      /\ Follows("ban6", "text")
  BY DEF Follows, PackLabels, Gathering, SettingOut, TimerLabels, BeforeClock
<1>6. "nextProcess" \in Deeds
  BY DEF Deeds
<1> QED
  BY <1>2, <1>4, <1>5, <1>6, StmtTyped, BranchTyped, ScheduleTyped DEF StartBan

\* CHOOSE keeps them: it writes no slot past the end of banData.
LEMMA ChooseTyped ==
  ASSUME Types, NEW t \in Threads, Choose(t)
  PROVE  Typed
<1>1. room \in Rooms /\ loc[t].num \in Nat
  BY DEF Types, Locals
<1>2. [room EXCEPT !.banData[room.nowCtrl] = loc[t].num] \in Rooms
  BY <1>1 DEF Rooms
<1>3. [room EXCEPT !.Json.BanList = TRUE] \in Rooms
  BY <1>1 DEF Rooms, Jsons
<1>4. /\ Follows("CHOOSE", "choose1") /\ Follows("CHOOSE", "idle")
      /\ Follows("choose1", "choose2") /\ Follows("choose1", "idle")
      /\ Follows("choose2", "choose3") /\ Follows("choose2", "idle")
      /\ Follows("choose3", "text")
  BY DEF Follows, PackLabels, TimerLabels, BeforeClock, InTurn
<1> QED  BY <1>2, <1>3, <1>4, StmtTyped, BranchTyped DEF Choose

\* COMPOSE keeps them: it writes a card.
LEMMA ComposeTyped ==
  ASSUME Types, NEW t \in Threads, Compose(t)
  PROVE  Typed
<1>1. room \in Rooms /\ loc[t].num \in Nat /\ NoLocals \in Locals
  BY DEF Types, Locals, NoLocals, Teams
<1>2. [room EXCEPT !.card[loc[t].team] = loc[t].num] \in Rooms
  BY <1>1 DEF Rooms, Cards
<1>3. /\ Follows("COMPOSE", "card") /\ Follows("COMPOSE", "idle")
      /\ Follows("card", "tell") /\ Follows("tell", "idle")
  BY DEF Follows, PackLabels, TimerLabels, BeforeClock, InTurn
<1>4. CASE pc[t] = "tell" /\ Return(t)
           /\ UNCHANGED <<room, timer, task, live, created, now, screen, queue>>
  <2>1. pending' \subseteq Tasks /\ loc' \in [Threads -> Locals]
    BY <1>1, <1>4, LeavesTasks DEF Return, Types
  <2>2. pc[t] = "tell" /\ pc' = [pc EXCEPT ![t] = "idle"]
    BY <1>4 DEF Return, Goto
  <2>3. Follows(pc[t], "idle")
    BY <1>3, <2>2
  <2> QED  BY <1>4, <2>1, <2>2, <2>3, Lanes DEF Typed, Types
<1> QED  BY <1>2, <1>3, <1>4, StmtTyped, BranchTyped DEF Compose

\* nextProcess keeps them: the turn is a number, even if two timeouts raised it.
LEMMA NextProcessTyped ==
  ASSUME Types, NEW t \in Threads, NextProcess(t)
  PROVE  Typed
<1>1. room \in Rooms /\ room.nowCtrl \in Nat /\ loc[t].ctrl \in Nat
  BY DEF Types, Locals, Rooms
<1>2. /\ [room EXCEPT !.banData[room.nowCtrl] = 0] \in Rooms
      /\ [room EXCEPT !.nowCtrl = loc[t].ctrl + 1] \in Rooms
      /\ [room EXCEPT !.status = "END"] \in Rooms
      /\ [room EXCEPT !.nowCtrl = 0] \in Rooms
  BY <1>1 DEF Rooms, Statuses
<1>3. [room EXCEPT !.Json.BanList = TRUE] \in Rooms
  BY <1>1 DEF Rooms, Jsons
<1>4. [room EXCEPT !.Json.NowCtrl = room.nowCtrl] \in Rooms
  BY <1>1 DEF Rooms, Jsons
<1>5. /\ [room EXCEPT !.Json.Status = "END"] \in Rooms
      /\ [room EXCEPT !.Json.Compose = TRUE] \in Rooms
  BY <1>1 DEF Rooms, Jsons, Statuses
<1>6. /\ Follows("nextProcess", "next1") /\ Follows("next1", "next2")
      /\ Follows("next1", "rearm?") /\ Follows("next2", "next3") /\ Follows("next2", "next5")
      /\ Follows("next3", "next4") /\ Follows("next2", "idle") /\ Follows("next3", "idle")
      /\ Follows("next4", "next5") /\ Follows("next5", "next6") /\ Follows("next6", "next7")
      /\ Follows("next7", "next8") /\ Follows("next8", "end") /\ Follows("next8", "rearm?")
      /\ Follows("end", "end1") /\ Follows("end1", "end2") /\ Follows("end2", "end3")
      /\ Follows("end3", "rearm?")
  BY DEF Follows, PackLabels, Gathering, SettingOut, TimerLabels, BeforeClock, InTurn
<1>7. CASE /\ pc[t] = "nextProcess" /\ Goto(t, "next1")
           /\ live' = FALSE
           /\ pending' = {p \in pending : p.on # timer}
           /\ UNCHANGED <<room, timer, task, created, now, screen, told, queue, loc>>
  <2>1. Follows(pc[t], "next1")
    BY <1>6, <1>7
  <2> QED  BY <1>7, <2>1, Lanes DEF Goto, Typed, Types
<1>8. CASE /\ pc[t] = "next5" /\ Goto(t, "next6")
           /\ loc' = [loc EXCEPT ![t].ctrl = room.nowCtrl]
           /\ UNCHANGED <<shared, queue>>
  <2>1. Follows(pc[t], "next6")
    BY <1>6, <1>8
  <2>2. loc' \in [Threads -> Locals]
    BY <1>1, <1>8 DEF Types, Locals
  <2> QED  BY <1>8, <2>1, <2>2, Lanes DEF Goto, shared, clock, Typed, Types
<1> QED
  BY <1>2, <1>3, <1>4, <1>5, <1>6, <1>7, <1>8, StmtTyped, BranchTyped DEF NextProcess

\* The end of nextProcess keeps them.
LEMMA EndProcessTyped ==
  ASSUME Types, NEW t \in Threads, EndProcess(t)
  PROVE  Typed
<1>1. /\ Follows("rearm?", "rearm") /\ Follows("rearm?", "text") /\ Follows("rearm", "rearm_timer")
      /\ Follows("rearm_timer", "rearm_schedule") /\ Follows("rearm_schedule", "text")
      /\ Follows("rearm_schedule", "idle")
  BY DEF Follows, PackLabels, Gathering, SettingOut, TimerLabels, BeforeClock, InTurn
<1>2. "nextProcess" \in Deeds
  BY DEF Deeds
<1> QED  BY <1>1, <1>2, BranchTyped, ScheduleTyped DEF EndProcess

\* Every step keeps the types.
LEMMA TypesStep == ASSUME Types, [Next]_vars  PROVE Types'
<1>1. CASE UNCHANGED vars
  BY <1>1 DEF vars, shared, clock, Types
<1>2. ASSUME NEW t \in Threads, Step(t), History, UNCHANGED at
      PROVE  Types'
  <2>1. Typed
    BY <1>2, BeginsTyped, ReadyTyped, StartComposeTyped, StartBanTyped, ChooseTyped,
       ComposeTyped, NextProcessTyped, EndProcessTyped, SyncTyped DEF Step
  <2>2. doubled' \in BOOLEAN /\ overtaken' \in BOOLEAN
    BY <1>2 DEF History, Types
  <2> QED  BY <1>2, <2>1, <2>2 DEF Typed, Types
<1> QED  BY <1>1, <1>2 DEF Next, Moves

-----------------------------------------------------------------------------
\* What a statement does besides writing the room.
LEMMA StmtMoves ==
  ASSUME Types, NEW t \in Threads, NEW from, NEW to, NEW r, Stmt(t, from, to, r)
  PROVE  /\ pc[t] = from /\ pc' = [pc EXCEPT ![t] = to] /\ pc'[t] = to
         /\ \A u \in Threads : u # t => pc'[u] = pc[u] /\ loc'[u] = loc[u]
         /\ room' = r /\ now' = now
         /\ to # "idle" => loc' = loc /\ pending' = pending
         /\ pending' = pending \/ pending' = Leaves(t, pending)
<1>1. pc[t] = from /\ pc' = [pc EXCEPT ![t] = to] /\ room' = r /\ now' = now
  BY DEF Stmt, Return, Goto
<1>2. /\ to # "idle" => loc' = loc /\ pending' = pending
      /\ pending' = pending \/ pending' = Leaves(t, pending)
      /\ loc' = loc \/ loc' = [loc EXCEPT ![t] = NoLocals]
  BY DEF Stmt, Return
<1>3. \A u \in Threads : u # t => loc'[u] = loc[u]
  BY <1>2 DEF Types
<1>4. pc'[t] = to /\ \A u \in Threads : u # t => pc'[u] = pc[u]
  BY <1>1 DEF Types
<1> QED  BY <1>1, <1>2, <1>3, <1>4

\* The same of a branch.
LEMMA BranchMoves ==
  ASSUME Types, NEW t \in Threads, NEW from, NEW to, Branch(t, from, to)
  PROVE  /\ pc[t] = from /\ pc' = [pc EXCEPT ![t] = to] /\ pc'[t] = to
         /\ \A u \in Threads : u # t => pc'[u] = pc[u] /\ loc'[u] = loc[u]
         /\ room' = room /\ now' = now
         /\ to # "idle" => loc' = loc /\ pending' = pending
         /\ pending' = pending \/ pending' = Leaves(t, pending)
  BY StmtMoves DEF Branch

\* The statements that set a clock leave the room and the threads' locals alone,
\* but for those of a handler that ends here.
LEMMA ScheduleMoves ==
  ASSUME Types, NEW t \in Threads, NEW from, NEW new, NEW add, NEW does, NEW to,
         Schedule(t, from, new, add, does, to)
  PROVE  /\ pc[t] \in {from, new, add} /\ pc'[t] \in {new, add, to, "idle"}
         /\ pc' = [pc EXCEPT ![t] = pc'[t]]
         /\ \A u \in Threads : u # t => pc'[u] = pc[u] /\ loc'[u] = loc[u]
         /\ room' = room /\ now' = now
         /\ \/ pc[t] = from /\ pc'[t] = new /\ pending' = pending
            \/ pc[t] = new /\ pc'[t] = add /\ pending' = pending
            \/ pc[t] = add /\ pc'[t] = "idle"
               /\ (pending' = pending \/ pending' = Leaves(t, pending))
            \/ pc[t] = add /\ pc'[t] = to
               /\ pending' = pending \cup
                    {[Task(timer, task.does) EXCEPT !.during = Busy \cap PackThreads]}
<1>1. CASE Branch(t, add, "idle")
  BY <1>1, BranchMoves
<1>2. CASE /\ pc[t] = from /\ Goto(t, new)
           /\ UNCHANGED <<room, pending, now, loc>>
  BY <1>2 DEF Goto, Types
<1>3. CASE /\ pc[t] = new /\ Goto(t, add)
           /\ UNCHANGED <<room, pending, now, loc>>
  BY <1>3 DEF Goto, Types
<1>4. CASE /\ pc[t] = add /\ Goto(t, to)
           /\ pending' = pending \cup
                {[Task(timer, task.does) EXCEPT !.during = Busy \cap PackThreads]}
           /\ UNCHANGED <<room, now, loc>>
  BY <1>4 DEF Goto, Types
<1> QED  BY <1>1, <1>2, <1>3, <1>4 DEF Schedule

\* The broadcast leaves the room and the other threads' locals alone.
LEMMA SyncMoves ==
  ASSUME Types, NEW t \in Threads, Sync(t, "text")
  PROVE  /\ pc[t] \in {"text", "write"} /\ pc'[t] \in {"write", "idle"}
         /\ pc' = [pc EXCEPT ![t] = pc'[t]]
         /\ \A u \in Threads : u # t => pc'[u] = pc[u] /\ loc'[u] = loc[u]
         /\ room' = room /\ now' = now
         /\ pending' = pending \/ pending' = Leaves(t, pending)
<1>1. CASE /\ pc[t] = "text" /\ Goto(t, "write")
           /\ loc' = [loc EXCEPT ![t] = [NoLocals EXCEPT !.data = Snapshot(room)]]
           /\ UNCHANGED <<shared, queue>>
  BY <1>1 DEF Goto, shared, clock, Types
<1>2. CASE pc[t] = "write" /\ Return(t) /\ UNCHANGED <<room, now>>
  BY <1>2 DEF Return, Goto, Types
<1> QED  BY <1>1, <1>2 DEF Sync

-----------------------------------------------------------------------------
Choosing == {"CHOOSE", "choose1", "choose2"}

\* What step t has to keep so that a team's ban stays its own.
OwnKept(t) ==
  /\ \A u \in Threads : u # t => pc'[u] = pc[u] /\ loc'[u] = loc[u]
  /\ pc'[t] \in Choosing => loc'[t].num \in OwnNums(loc'[t].team)
  /\ pc'[t] = "choose2" /\ ~overtaken => loc'[t].team = room'.nowCtrl
  /\ ~overtaken => \A k \in Teams :
       room'.banData[k] \in {room.banData[k], 0} \cup OwnNums(k)

\* If the step moves the turn on, a choice that was tested for it is overtaken.
LEMMA OwnStep ==
  ASSUME Types, OwnInv, NEW t \in Threads, OwnKept(t), History, at' = at
  PROVE  OwnInv'
<1>1. \A k \in Teams : OwnNums(k)' = OwnNums(k)
  BY DEF OwnNums
<1>2. overtaken => overtaken'
  BY DEF History
<1>3. ASSUME NEW u \in Threads
      PROVE  /\ pc'[u] \in Choosing => loc'[u].num \in OwnNums(loc'[u].team)
             /\ pc'[u] = "choose2" /\ ~overtaken' => loc'[u].team = room'.nowCtrl
  <2>1. CASE u = t
    BY <1>2, <2>1 DEF OwnKept
  <2>2. CASE u # t
    <3>1. pc'[u] = pc[u] /\ loc'[u] = loc[u]
      BY <2>2 DEF OwnKept
    <3>2. pc[u] = "choose2" => u \in PackThreads
      BY DEF Types, Threads, TimerLabels, BeforeClock, InTurn
    <3>3. pc[u] = "choose2" /\ ~overtaken' => room'.nowCtrl = room.nowCtrl
      BY <3>2 DEF History
    <3> QED  BY <1>2, <3>1, <3>3 DEF OwnInv, ChoosesOwn, Choosing
  <2> QED  BY <2>1, <2>2
<1>4. ChoosesOwn'
  BY <1>3 DEF ChoosesOwn, Choosing, OwnNums
<1>5. OwnBans'
  <2>1. ASSUME ~overtaken', NEW k \in Teams
        PROVE  room'.banData[k] \in {NoBan, 0} \cup OwnNums(k)
    <3>1. room.banData[k] \in {NoBan, 0} \cup OwnNums(k)
      BY <1>2, <2>1 DEF OwnInv, OwnBans, OwnNums
    <3> QED  BY <1>2, <2>1, <3>1 DEF OwnKept
  <2> QED  BY <2>1 DEF OwnBans, OwnNums
<1> QED  BY <1>4, <1>5 DEF OwnInv

\* A step that stores no ban and begins no choice keeps it.
LEMMA AsideKept ==
  ASSUME NEW t \in Threads, pc'[t] \notin Choosing, room'.banData = room.banData,
         \A u \in Threads : u # t => pc'[u] = pc[u] /\ loc'[u] = loc[u]
  PROVE  OwnKept(t)
  BY DEF OwnKept, Choosing

\* The room r has the bans of the room.
SameBans(r) == r.banData = room.banData

\* A statement of such a handler.
LEMMA StmtAside ==
  ASSUME Types, NEW t \in Threads, NEW from, NEW to, NEW r, Stmt(t, from, to, r),
         to \notin Choosing, SameBans(r)
  PROVE  OwnKept(t)
  BY StmtMoves, AsideKept DEF SameBans

\* The same of a branch.
LEMMA BranchAside ==
  ASSUME Types, NEW t \in Threads, NEW from, NEW to, Branch(t, from, to), to \notin Choosing
  PROVE  OwnKept(t)
  BY BranchMoves, AsideKept

\* A packet's choice is its team's own, and a timeout is no choice.
LEMMA BeginsOwn ==
  ASSUME Types, NEW t \in Threads, Take(t) \/ Fire(t)
  PROVE  OwnKept(t)
<1>1. CASE Take(t)
  <2>1. PICK p \in queue :
          /\ loc' = [loc EXCEPT ![t].team = p.team, ![t].num = p.num]
          /\ pc' = [pc EXCEPT ![t] = p.pt]
    BY <1>1 DEF Take, Goto
  <2>2. room' = room
    BY <1>1 DEF Take, shared
  <2>3. p \in at.packets /\ p \in Packets
    BY <2>1 DEF Types, Packets
  <2>4. p.pt \in {"READY", "CHOOSE", "COMPOSE"}
    BY <2>3, PacketAssumption
  <2>5. pc'[t] = p.pt /\ loc'[t].team = p.team /\ loc'[t].num = p.num
    BY <2>1 DEF Types, Locals
  <2>6. \A u \in Threads : u # t => pc'[u] = pc[u] /\ loc'[u] = loc[u]
    BY <2>1 DEF Types
  <2>7. pc'[t] \in Choosing => loc'[t].num \in OwnNums(loc'[t].team)
    BY <2>3, <2>4, <2>5 DEF Choosing, OwnNums
  <2> QED  BY <2>2, <2>4, <2>5, <2>6, <2>7 DEF OwnKept
<1>2. CASE Fire(t)
  <2>1. PICK p \in pending :
          /\ pc' = [pc EXCEPT ![t] = p.does]
          /\ UNCHANGED <<room, loc>>
    BY <1>2 DEF Fire, Goto
  <2>2. p.does \in Deeds
    BY <2>1 DEF Types, Tasks
  <2>3. pc'[t] \notin Choosing /\ \A u \in Threads : u # t => pc'[u] = pc[u]
    BY <2>1, <2>2 DEF Types, Deeds, Choosing
  <2> QED  BY <2>1, <2>3, AsideKept
<1> QED  BY <1>1, <1>2

\* Being ready and setting the clock for composing is no ban.
LEMMA ReadyOwn ==
  ASSUME Types, NEW t \in Threads, Ready(t) \/ StartCompose(t)
  PROVE  OwnKept(t)
<1>1. /\ SameBans([room EXCEPT !.isReady[loc[t].team] = TRUE])
      /\ SameBans([room EXCEPT !.status = "COMPOSE"])
      /\ SameBans([room EXCEPT !.Json.Status = "COMPOSE"])
  BY DEF SameBans, Types, Rooms
<1>2. CASE Ready(t)
  BY <1>1, <1>2, StmtAside, BranchAside DEF Ready, Choosing
<1>3. CASE Schedule(t, "compose3", "compose_timer", "compose_schedule", "SetStatus", "text")
  BY <1>3, ScheduleMoves, AsideKept DEF Choosing
<1>4. CASE StartCompose(t)
  BY <1>1, <1>3, <1>4, StmtAside, BranchAside DEF StartCompose, Choosing
<1> QED  BY <1>2, <1>4

\* Neither is the end of the time to compose.
LEMMA StartBanOwn ==
  ASSUME Types, NEW t \in Threads, StartBan(t)
  PROVE  OwnKept(t)
<1>1. /\ SameBans([room EXCEPT !.status = "BAN"])
      /\ SameBans([room EXCEPT !.Json.Status = "BAN"])
      /\ SameBans([room EXCEPT !.nowCtrl = 0])
      /\ SameBans([room EXCEPT !.Json.NowCtrl = room.nowCtrl])
      /\ SameBans([room EXCEPT !.Json.HideCompose = [k \in Teams |-> room.card[1 - k]]])
  BY DEF SameBans, Types, Rooms
<1>2. CASE Schedule(t, "ban3", "ban_timer", "ban_schedule", "nextProcess", "ban4")
  BY <1>2, ScheduleMoves, AsideKept DEF Choosing
<1> QED  BY <1>1, <1>2, StmtAside, BranchAside DEF StartBan, Choosing

\* A choice is stored for the team on the move, which is the captain's own unless
\* the turn has ended since it was tested.
LEMMA ChooseOwn ==
  ASSUME Types, OwnInv, NEW t \in Threads, Choose(t)
  PROVE  OwnKept(t)
<1>1. /\ pc[t] \in Choosing => loc[t].num \in OwnNums(loc[t].team)
      /\ pc[t] = "choose2" /\ ~overtaken => loc[t].team = room.nowCtrl
  BY DEF OwnInv, ChoosesOwn, Choosing
<1>2. CASE Branch(t, "CHOOSE", "choose1")
  <2>1. pc[t] = "CHOOSE" /\ pc'[t] = "choose1" /\ loc' = loc /\ room' = room
    BY <1>2, BranchMoves
  <2>2. \A u \in Threads : u # t => pc'[u] = pc[u]
    BY <1>2, BranchMoves
  <2> QED  BY <1>1, <2>1, <2>2 DEF OwnKept, Choosing
<1>3. CASE loc[t].team = room.nowCtrl /\ Branch(t, "choose1", "choose2")
  <2>1. pc[t] = "choose1" /\ pc'[t] = "choose2" /\ loc' = loc /\ room' = room
    BY <1>3, BranchMoves
  <2>2. \A u \in Threads : u # t => pc'[u] = pc[u]
    BY <1>3, BranchMoves
  <2> QED  BY <1>1, <1>3, <2>1, <2>2 DEF OwnKept, Choosing
<1>4. CASE /\ room.nowCtrl \in Teams
           /\ Stmt(t, "choose2", "choose3", [room EXCEPT !.banData[room.nowCtrl] = loc[t].num])
  <2>1. /\ pc[t] = "choose2" /\ pc'[t] = "choose3" /\ loc' = loc
        /\ room' = [room EXCEPT !.banData[room.nowCtrl] = loc[t].num]
        /\ \A u \in Threads : u # t => pc'[u] = pc[u]
    BY <1>4, StmtMoves
  <2>2. ASSUME ~overtaken, NEW k \in Teams
        PROVE  room'.banData[k] = room.banData[k] \/ room'.banData[k] \in OwnNums(k)
    <3>1. room'.banData[k] = IF k = room.nowCtrl THEN loc[t].num ELSE room.banData[k]
      BY <1>4, <2>1 DEF Types, Rooms
    <3> QED  BY <1>1, <2>1, <2>2, <3>1 DEF Choosing
  <2> QED  BY <2>1, <2>2 DEF OwnKept, Choosing
<1>5. SameBans([room EXCEPT !.Json.BanList = TRUE])
  BY DEF SameBans, Types, Rooms
<1> QED  BY <1>2, <1>3, <1>4, <1>5, StmtAside, BranchAside DEF Choose, Choosing

\* A card is no ban.
LEMMA ComposeOwn ==
  ASSUME Types, NEW t \in Threads, Compose(t)
  PROVE  OwnKept(t)
<1>1. SameBans([room EXCEPT !.card[loc[t].team] = loc[t].num])
  BY DEF SameBans, Types, Rooms
<1>2. CASE pc[t] = "tell" /\ Return(t) /\ UNCHANGED room
  BY <1>2, AsideKept DEF Return, Goto, Types, Choosing
<1> QED  BY <1>1, <1>2, StmtAside, BranchAside DEF Compose, Choosing

\* A turn that ends without a ban stores the empty one.
LEMMA NextProcessOwn ==
  ASSUME Types, NEW t \in Threads, NextProcess(t)
  PROVE  OwnKept(t)
<1>1. /\ SameBans([room EXCEPT !.Json.BanList = TRUE])
      /\ SameBans([room EXCEPT !.nowCtrl = loc[t].ctrl + 1])
      /\ SameBans([room EXCEPT !.Json.NowCtrl = room.nowCtrl])
      /\ SameBans([room EXCEPT !.nowCtrl = 0])
  BY DEF SameBans, Types, Rooms
<1>2. /\ SameBans([room EXCEPT !.status = "END"])
      /\ SameBans([room EXCEPT !.Json.Status = "END"])
      /\ SameBans([room EXCEPT !.Json.Compose = TRUE])
  BY DEF SameBans, Types, Rooms
<1>3. CASE pc[t] = "nextProcess" /\ Goto(t, "next1") /\ UNCHANGED <<room, loc>>
  BY <1>3, AsideKept DEF Goto, Types, Choosing
<1>4. CASE /\ room.nowCtrl \in Teams
           /\ Stmt(t, "next3", "next4", [room EXCEPT !.banData[room.nowCtrl] = 0])
  <2>1. /\ pc'[t] = "next4" /\ room' = [room EXCEPT !.banData[room.nowCtrl] = 0]
        /\ \A u \in Threads : u # t => pc'[u] = pc[u] /\ loc'[u] = loc[u]
    BY <1>4, StmtMoves
  <2>2. \A k \in Teams : room'.banData[k] \in {room.banData[k], 0}
    BY <2>1 DEF Types, Rooms
  <2> QED  BY <2>1, <2>2 DEF OwnKept, Choosing
<1>5. CASE /\ pc[t] = "next5" /\ Goto(t, "next6")
           /\ loc' = [loc EXCEPT ![t].ctrl = room.nowCtrl]
           /\ UNCHANGED <<shared, queue>>
  BY <1>5, AsideKept DEF Goto, shared, Types, Choosing
<1> QED
  BY <1>1, <1>2, <1>3, <1>4, <1>5, StmtAside, BranchAside DEF NextProcess, Choosing

\* The end of the handlers stores nothing.
LEMMA EndsOwn ==
  ASSUME Types, NEW t \in Threads, EndProcess(t) \/ Sync(t, "text")
  PROVE  OwnKept(t)
<1>1. CASE Schedule(t, "rearm", "rearm_timer", "rearm_schedule", "nextProcess", "text")
  BY <1>1, ScheduleMoves, AsideKept DEF Choosing
<1>2. CASE EndProcess(t)
  BY <1>1, <1>2, BranchAside DEF EndProcess, Choosing
<1>3. CASE Sync(t, "text")
  BY <1>3, SyncMoves, AsideKept DEF Choosing
<1> QED  BY <1>2, <1>3

\* Every step keeps a team's ban its own.
LEMMA OwnKeptByAll == ASSUME Types, OwnInv, [Next]_vars  PROVE OwnInv'
<1>1. CASE UNCHANGED vars
  BY <1>1 DEF vars, shared, clock, OwnInv, ChoosesOwn, OwnBans, OwnNums
<1>2. ASSUME NEW t \in Threads, Step(t), History, UNCHANGED at
      PROVE  OwnInv'
  <2>1. OwnKept(t)
    BY <1>2, BeginsOwn, ReadyOwn, StartBanOwn, ChooseOwn, ComposeOwn, NextProcessOwn,
       EndsOwn DEF Step
  <2> QED  BY <1>2, <2>1, OwnStep
<1> QED  BY <1>1, <1>2 DEF Next, Moves

-----------------------------------------------------------------------------
\* What a step of thread t may do to the clocks, short of setting one.
Fewer(t) == now' = now /\ (pending' \subseteq pending \/ pending' = Leaves(t, pending))

\* There is still at most one clock, and it waits for the handlers it waited for.
LEMMA FewerClocks ==
  ASSUME OneClock, pending \subseteq Tasks, NEW t \in Threads, Fewer(t)
  PROVE  /\ OneClock'
         /\ pending = {} => pending' = {}
         /\ \A p \in pending' : \E q \in pending :
              p.does = q.does /\ \A u \in q.during : u # t => u \in p.during
<1>1. CASE pending' \subseteq pending
  BY <1>1 DEF OneClock, Fewer
<1>2. CASE pending' = Leaves(t, pending)
  <2>1. pending' = {[p EXCEPT !.during = @ \ {t}] : p \in pending} /\ now' = now
    BY <1>2 DEF Leaves, Fewer
  <2>2. \A p \in pending' : \E q \in pending : p = [q EXCEPT !.during = @ \ {t}]
    BY <2>1
  <2>3. \A p \in pending' : \E q \in pending :
          /\ p.does = q.does /\ p.due = q.due
          /\ \A u \in q.during : u # t => u \in p.during
    BY <2>2 DEF Tasks
  <2>4. \A p, q \in pending' : p = q
    BY <2>2 DEF OneClock
  <2> QED  BY <2>1, <2>3, <2>4 DEF OneClock
<1> QED  BY <1>1, <1>2 DEF Fewer

\* The other threads stay where they are.
OthersStay(t) == \A u \in Threads : u # t => pc'[u] = pc[u] /\ loc'[u] = loc[u]

\* A PackThread that sets no clock and no turn keeps the chain of clocks; it may
\* begin to set one only while the room waits for the captains.
LEMMA PackKept ==
  ASSUME Types, Types', Chain, NEW t \in PackThreads, OthersStay(t), Fewer(t),
         room'.nowCtrl = room.nowCtrl,
         \A k \in Teams : Banned(k) => Banned(k)',
         room'.status = room.status \/ (pc[t] = "compose1" /\ room'.status = "COMPOSE"),
         task'.does = task.does \/ task'.does = "SetStatus",
         pc'[t] \in Gathering => pc[t] \in Gathering \/ room.status = "WAIT",
         pc'[t] \in Gathering => pending' = pending,
         pc'[t] \in SettingOut => room'.status = "COMPOSE"
  PROVE  Chain'
<1>1. t \in Threads /\ t \notin TimerIds /\ TimerIds \subseteq Threads /\ PackThreads \subseteq Threads
  BY ThreadAssumption DEF Threads
<1>2. \A u \in TimerIds : pc'[u] = pc[u] /\ loc'[u] = loc[u]
  BY <1>1 DEF OthersStay
<1>3. Resting => Resting'
  BY <1>2 DEF Resting
<1>4. /\ OneClock' /\ (pending = {} => pending' = {})
      /\ \A p \in pending' : \E q \in pending :
           p.does = q.does /\ \A u \in q.during : u # t => u \in p.during
  BY <1>1, FewerClocks DEF Chain, Types
<1>5. OneTimeout'
  BY <1>2, <1>4 DEF Chain, OneTimeout
<1>6. pc[t] = "compose1" => room.status \in {"WAIT", "COMPOSE"}
  BY DEF Chain, ComposeFirst, Gathering
<1>7. ComposeFirst'
  <2>1. SUFFICES ASSUME NEW u \in PackThreads, pc'[u] \in Gathering
                 PROVE  /\ Resting' /\ task'.does = "SetStatus"
                        /\ room'.status \in {"WAIT", "COMPOSE"}
                        /\ pc'[u] \in SettingOut => room'.status = "COMPOSE"
                        /\ \A p \in pending' : p.does = "SetStatus" /\ u \in p.during
    BY DEF ComposeFirst
  <2>2. CASE u = t
    <3>1. CASE pc[t] \in Gathering
      BY <1>3, <1>4, <2>1, <2>2, <3>1 DEF Chain, ComposeFirst
    <3>2. CASE room.status = "WAIT"
      BY <1>3, <1>4, <2>1, <2>2, <3>2 DEF Chain, NoClockYet
    <3> QED  BY <2>1, <2>2, <3>1, <3>2
  <2>3. CASE u # t
    <3>1. pc'[u] = pc[u]
      BY <1>1, <2>3 DEF OthersStay
    <3> QED  BY <1>3, <1>4, <2>1, <2>3, <3>1 DEF Chain, ComposeFirst
  <2> QED  BY <2>2, <2>3
<1>8. NoClockYet'
  BY <1>3, <1>4 DEF Chain, NoClockYet
<1>9. TurnsDone'
  <2>1. room'.status = "END" => room.status = "END"
    OBVIOUS
  <2> QED  BY <1>2, <2>1 DEF Chain, TurnsDone, Banned
<1> QED  BY <1>4, <1>5, <1>7, <1>8, <1>9 DEF Chain

\* While a timeout is handled no other is, and no READY sets a clock.
LEMMA AloneTimeout ==
  ASSUME Types, Chain, NEW t \in TimerIds, pc[t] # "idle"
  PROVE  /\ \A u \in TimerIds : u # t => pc[u] = "idle"
         /\ \A u \in PackThreads : pc[u] \notin Gathering
         /\ room.status # "WAIT"
  BY DEF Chain, OneTimeout, ComposeFirst, NoClockYet, Resting

\* So the turns are right after a step of its that leaves its own label right.
LEMMA TurnsKept ==
  ASSUME Types, Types', Chain, NEW t \in TimerIds, pc[t] # "idle", OthersStay(t),
         room'.nowCtrl \in 0 .. 2,
         \A k \in Teams : k < room'.nowCtrl \/ room'.status = "END" => Banned(k)',
         pc'[t] \in {"next3", "next4", "next5", "next6"} => room'.nowCtrl \in Teams,
         pc'[t] \in {"next4", "next5", "next6"} => Banned(room.nowCtrl)',
         pc'[t] = "next6" => loc'[t].ctrl = room'.nowCtrl,
         pc'[t] = "end" => room'.nowCtrl = 2
  PROVE  TurnsDone'
<1>1. \A u \in TimerIds : u # t => pc'[u] = "idle"
  BY AloneTimeout DEF OthersStay, Threads
<1> QED  BY <1>1 DEF TurnsDone, Banned

\* A timeout that sets no clock keeps the chain as far as it keeps the turns.
LEMMA TimerKept ==
  ASSUME Types, Types', Chain, NEW t \in TimerIds, pc[t] # "idle", OthersStay(t), Fewer(t),
         pc'[t] \in BeforeClock => pc[t] \in BeforeClock,
         room'.status \in {room.status, "BAN", "END"}, TurnsDone'
  PROVE  Chain'
<1>1. t \in Threads /\ t \notin PackThreads /\ TimerIds \subseteq Threads /\ PackThreads \subseteq Threads
  BY ThreadAssumption DEF Threads
<1>2. /\ \A u \in TimerIds : u # t => pc'[u] = "idle"
      /\ \A u \in PackThreads : pc'[u] \notin Gathering
      /\ room'.status # "WAIT"
  BY <1>1, AloneTimeout DEF OthersStay
<1>3. OneClock' /\ (pending = {} => pending' = {})
  BY <1>1, FewerClocks DEF Chain, Types
<1>4. "idle" \notin BeforeClock
  BY DEF BeforeClock, InTurn
<1>5. OneTimeout'
  BY <1>2, <1>3, <1>4 DEF Chain, OneTimeout
<1> QED  BY <1>2, <1>3, <1>5 DEF Chain, ComposeFirst, NoClockYet

\* A timeout sets the next clock when none is left.
LEMMA TimerSchedules ==
  ASSUME Types, Types', Chain, NEW t \in TimerIds, pc[t] \in BeforeClock, OthersStay(t),
         pc'[t] \notin BeforeClock, now' = now, room' = room,
         pc'[t] \notin {"next3", "next4", "next5", "next6", "end"},
         NEW d, pending' = pending \cup {[Task(timer, task.does) EXCEPT !.during = d]}
  PROVE  Chain'
<1>1. t \in Threads /\ t \notin PackThreads /\ TimerIds \subseteq Threads /\ PackThreads \subseteq Threads
  BY ThreadAssumption DEF Threads
<1>2. "idle" \notin BeforeClock
  BY DEF BeforeClock, InTurn
<1>3. pending = {}
  BY DEF Chain, OneTimeout
<1>4. /\ \A u \in TimerIds : u # t => pc'[u] = "idle"
      /\ \A u \in PackThreads : pc'[u] \notin Gathering
      /\ room'.status # "WAIT"
  BY <1>1, <1>2, AloneTimeout DEF OthersStay
<1>5. OneClock'
  BY <1>3 DEF OneClock, Task
<1>6. OneTimeout'
  BY <1>2, <1>4 DEF OneTimeout
<1>7. TurnsDone'
  BY <1>2, TurnsKept DEF Chain, TurnsDone, Banned
<1> QED  BY <1>4, <1>5, <1>6, <1>7 DEF Chain, ComposeFirst, NoClockYet

\* A READY sets the clock for composing when no other has, or the clock is set twice.
LEMMA PackSchedules ==
  ASSUME Types, Types', Chain, NEW t \in PackThreads, pc[t] = "compose_schedule",
         OthersStay(t), pc'[t] \notin Gathering, now' = now, room' = room,
         task'.does = task.does, History, ~doubled',
         pending' = pending \cup {[Task(timer, task.does) EXCEPT !.during = Busy \cap PackThreads]}
  PROVE  Chain'
<1> DEFINE new == [Task(timer, task.does) EXCEPT !.during = Busy \cap PackThreads]
<1>1. t \in Threads /\ t \notin TimerIds /\ TimerIds \subseteq Threads /\ PackThreads \subseteq Threads
  BY ThreadAssumption DEF Threads
<1>2. /\ Resting /\ task.does = "SetStatus" /\ room.status = "COMPOSE"
      /\ \A p \in pending : p.does = "SetStatus"
  BY DEF Chain, ComposeFirst, Gathering, SettingOut
<1>3. new.does = "SetStatus" /\ new.due = now + 1 /\ new.during = Busy \cap PackThreads
  BY <1>2 DEF Task
<1> HIDE DEF new
<1>4. pending' = pending \cup {new}
  BY DEF new
<1>5. \A p \in pending : p = new
  <2>1. SUFFICES ASSUME NEW p \in pending, p # new  PROVE FALSE
    OBVIOUS
  <2> DEFINE set == {q \in pending' : q.does = "SetStatus"}
  <2>2. set = {p, new}
    BY <1>2, <1>3, <1>4 DEF Chain, OneClock
  <2>3. Cardinality({p, new}) = 2
    <3>1. IsFiniteSet({p}) /\ Cardinality({p}) = 1
      BY FS_Singleton
    <3>2. Cardinality({p} \cup {new}) = Cardinality({p}) + 1
      BY <2>1, <3>1, FS_AddElement
    <3>3. {p, new} = {p} \cup {new}
      OBVIOUS
    <3> QED  BY <3>1, <3>2, <3>3
  <2>4. doubled' = (doubled \/ Cardinality(set) > 1)
    BY DEF History
  <2> HIDE DEF set
  <2>5. Cardinality(set) > 1
    BY <2>2, <2>3
  <2> QED  BY <2>4, <2>5, Zenon
<1>6. OneClock'
  BY <1>3, <1>4, <1>5 DEF OneClock
<1>7. Resting'
  BY <1>1, <1>2 DEF Resting, OthersStay
<1>8. \A u \in TimerIds : pc'[u] = pc[u] /\ loc'[u] = loc[u]
  BY <1>1 DEF OthersStay
<1>9. OneTimeout' /\ TurnsDone'
  BY <1>7, <1>8 DEF Chain, OneTimeout, TurnsDone, Resting, BeforeClock, InTurn, Banned
<1>10. ComposeFirst'
  <2>1. SUFFICES ASSUME NEW u \in PackThreads, pc'[u] \in Gathering
                 PROVE  \A p \in pending' : p.does = "SetStatus" /\ u \in p.during
    BY <1>2, <1>7 DEF ComposeFirst
  <2>2. pc[u] = pc'[u]
    BY <1>1, <2>1 DEF OthersStay
  <2>3. u \in Busy \cap PackThreads
    BY <1>1, <2>1, <2>2 DEF Busy, Gathering, SettingOut
  <2> QED  BY <1>3, <1>4, <1>5, <2>3
<1> QED  BY <1>2, <1>6, <1>7, <1>9, <1>10 DEF Chain, NoClockYet

-----------------------------------------------------------------------------
\* From one label to another without a claim on the clocks or on the turns.
Onward(from, to) == /\ from # "idle"
                    /\ to \in Gathering => from \in Gathering
                    /\ to \in SettingOut => from \in SettingOut
                    /\ to \in BeforeClock => from \in BeforeClock
                    /\ to \notin {"next3", "next4", "next5", "next6", "end"}

\* The room r has the status and the turn of the room, and its bans.
Harmless(r) == /\ r.status = room.status /\ r.nowCtrl = room.nowCtrl
               /\ \A k \in Teams : Banned(k) => r.banData[k] # NoBan

\* A step that makes no claim keeps the chain, whatever thread takes it.
LEMMA PlainKept ==
  ASSUME Types, Types', Chain, NEW t \in Threads, OthersStay(t), Fewer(t),
         Onward(pc[t], pc'[t]), Harmless(room'),
         task'.does = task.does \/ (task'.does = "SetStatus" /\ t \in PackThreads),
         pc'[t] \in Gathering => pending' = pending
  PROVE  Chain'
<1>1. CASE t \in PackThreads
  <2>1. pc'[t] \in SettingOut => room.status = "COMPOSE"
    BY <1>1 DEF Chain, ComposeFirst, Onward, Gathering
  <2> QED  BY <1>1, <2>1, PackKept DEF Harmless, Onward, Banned
<1>2. CASE t \in TimerIds
  <2>1. \A k \in Teams : k < room'.nowCtrl \/ room'.status = "END" => Banned(k)'
    BY DEF Chain, TurnsDone, Harmless, Banned
  <2>2. room'.nowCtrl \in 0 .. 2
    BY DEF Chain, TurnsDone, Harmless
  <2>3. TurnsDone'
    BY <1>2, <2>1, <2>2, TurnsKept DEF Onward
  <2> QED  BY <1>2, <2>3, TimerKept DEF Onward, Harmless
<1> QED  BY <1>1, <1>2 DEF Threads

\* A statement of that kind, and a branch.
LEMMA StmtKept ==
  ASSUME Types, Types', Chain, NEW t \in Threads, NEW from, NEW to, NEW r,
         Stmt(t, from, to, r), Onward(from, to), Harmless(r)
  PROVE  Chain'
<1>1. OthersStay(t) /\ Fewer(t) /\ (pc'[t] \in Gathering => pending' = pending)
  BY StmtMoves DEF OthersStay, Fewer, Gathering, SettingOut
<1>2. Onward(pc[t], pc'[t]) /\ Harmless(room') /\ task' = task
  BY StmtMoves DEF Stmt
<1> QED  BY <1>1, <1>2, PlainKept

\* The same of a branch.
LEMMA BranchKept ==
  ASSUME Types, Types', Chain, NEW t \in Threads, NEW from, NEW to,
         Branch(t, from, to), Onward(from, to)
  PROVE  Chain'
  BY StmtKept DEF Branch, Harmless, Banned

\* A packet begins a handler that makes no claim yet.
LEMMA TakeKept ==
  ASSUME Types, Types', Chain, NEW t \in Threads, Take(t)
  PROVE  Chain'
<1>1. PICK p \in queue :
        /\ loc' = [loc EXCEPT ![t].team = p.team, ![t].num = p.num]
        /\ pc' = [pc EXCEPT ![t] = p.pt]
  BY DEF Take, Goto
<1>2. t \in PackThreads /\ room' = room /\ task' = task /\ now' = now /\ pending' = pending
  BY DEF Take, shared, clock
<1>3. p.pt \in {"READY", "CHOOSE", "COMPOSE"}
  BY PacketAssumption DEF Types, Packets
<1>4. pc'[t] \notin Gathering
  BY <1>1, <1>3 DEF Types, Gathering, SettingOut
<1>5. OthersStay(t) /\ Fewer(t)
  BY <1>1, <1>2 DEF Types, OthersStay, Fewer
<1> QED  BY <1>2, <1>4, <1>5, PackKept DEF Banned, Gathering

\* A timeout begins when no other is handled, and no clock is left then.
LEMMA FireKept ==
  ASSUME Types, Types', Chain, NEW t \in Threads, Fire(t)
  PROVE  Chain'
<1>1. PICK p \in pending :
        /\ p.on = t /\ pc[t] = "idle" /\ p.during = {}
        /\ p.due > now => Busy \cap TimerIds = {}
        /\ now' = p.due /\ pending' = pending \ {p}
        /\ pc' = [pc EXCEPT ![t] = p.does]
        /\ UNCHANGED <<room, loc>>
  BY DEF Fire, Goto
<1>2. p \in Tasks /\ p.due = now + 1 /\ pending' = {} /\ now \in Nat
  BY <1>1 DEF Types, Chain, OneClock
<1>3. t \in TimerIds /\ t \notin PackThreads /\ TimerIds \subseteq Threads /\ PackThreads \subseteq Threads
  BY <1>1, <1>2, ThreadAssumption DEF Tasks, Threads
<1>4. Resting
  BY <1>1, <1>2, <1>3 DEF Busy, Resting
<1>5. pc'[t] \in Deeds /\ \A u \in Threads : u # t => pc'[u] = pc[u]
  BY <1>1, <1>2 DEF Types, Tasks
<1>6. \A u \in TimerIds : u # t => pc'[u] = "idle"
  BY <1>3, <1>4, <1>5 DEF Resting
<1>7. \A u \in PackThreads : pc'[u] \notin Gathering
  BY <1>1, <1>3, <1>5 DEF Chain, ComposeFirst
<1>8. room'.status # "WAIT"
  BY <1>1 DEF Chain, NoClockYet
<1>9. OneClock' /\ OneTimeout'
  BY <1>2, <1>6 DEF OneClock, OneTimeout
<1>10. TurnsDone'
  BY <1>1, <1>5, <1>6 DEF Chain, TurnsDone, Banned, Deeds
<1> QED  BY <1>7, <1>8, <1>9, <1>10 DEF Chain, ComposeFirst, NoClockYet

\* READY: a captain that saw WAIT may set the clock, for none runs yet.
LEMMA ReadyKept ==
  ASSUME Types, Types', Chain, NEW t \in Threads, Ready(t)
  PROVE  Chain'
<1>1. Harmless([room EXCEPT !.isReady[loc[t].team] = TRUE])
  BY DEF Harmless, Banned, Types, Rooms
<1>2. /\ Onward("READY", "idle") /\ Onward("ready", "both") /\ Onward("both", "COMPOSE?")
      /\ Onward("both", "text")
  BY DEF Onward, Gathering, SettingOut, BeforeClock, InTurn
<1>3. CASE room.status = "WAIT" /\ Branch(t, "READY", "ready")
  <2>1. /\ pc[t] = "READY" /\ pc'[t] = "ready" /\ room' = room
        /\ now' = now /\ pending' = pending /\ OthersStay(t)
    BY <1>3, BranchMoves DEF OthersStay
  <2>2. t \in PackThreads
    BY <2>1 DEF Types, Threads, TimerLabels, BeforeClock, InTurn
  <2>3. task' = task
    BY <1>3 DEF Branch, Stmt
  <2> QED
    BY <1>3, <2>1, <2>2, <2>3, PackKept DEF Fewer, Banned, SettingOut
<1> QED  BY <1>1, <1>2, <1>3, StmtKept, BranchKept DEF Ready

\* SetStatus(COMPOSE): the status first, then the clock.
LEMMA StartComposeKept ==
  ASSUME Types, Types', Chain, NEW t \in Threads, StartCompose(t), History, ~doubled'
  PROVE  Chain'
<1>1. Harmless([room EXCEPT !.Json.Status = "COMPOSE"])
  BY DEF Harmless, Banned, Types, Rooms
<1>2. /\ Onward("COMPOSE?", "text") /\ Onward("COMPOSE?", "compose1")
      /\ Onward("compose2", "compose3") /\ Onward("compose3", "compose_timer")
      /\ Onward("compose_timer", "compose_schedule") /\ Onward("compose_schedule", "idle")
  BY DEF Onward, Gathering, SettingOut, BeforeClock, InTurn
<1>3. pc[t] \in Gathering => t \in PackThreads
  BY DEF Types, Threads, Gathering, SettingOut, TimerLabels, BeforeClock, InTurn
<1>4. CASE Stmt(t, "compose1", "compose2", [room EXCEPT !.status = "COMPOSE"])
  <2>1. /\ pc[t] = "compose1" /\ pc'[t] = "compose2" /\ now' = now /\ pending' = pending
        /\ room' = [room EXCEPT !.status = "COMPOSE"] /\ OthersStay(t)
    BY <1>4, StmtMoves DEF OthersStay
  <2>2. /\ room'.status = "COMPOSE" /\ room'.nowCtrl = room.nowCtrl
        /\ \A k \in Teams : Banned(k) => Banned(k)'
    BY <2>1 DEF Types, Rooms, Banned
  <2>3. t \in PackThreads /\ pc[t] \in Gathering
    BY <1>3, <2>1 DEF Gathering
  <2>4. task' = task
    BY <1>4 DEF Stmt
  <2> QED  BY <2>1, <2>2, <2>3, <2>4, PackKept DEF Fewer
<1>5. CASE Schedule(t, "compose3", "compose_timer", "compose_schedule", "SetStatus", "text")
  <2>1. pc[t] \in Gathering
    BY <1>5, ScheduleMoves DEF Gathering, SettingOut
  <2>2. OthersStay(t) /\ room' = room /\ now' = now
    BY <1>5, ScheduleMoves DEF OthersStay
  <2>3. task'.does = task.does \/ task'.does = "SetStatus"
    BY <1>5 DEF Schedule, Branch, Stmt, Types
  <2>4. CASE pc'[t] # "text"
    <3>1. Onward(pc[t], pc'[t]) /\ Fewer(t) /\ (pc'[t] \in Gathering => pending' = pending)
      BY <1>2, <1>5, <2>4, ScheduleMoves DEF Fewer, Gathering, SettingOut
    <3> QED  BY <1>3, <2>1, <2>2, <2>3, <3>1, PlainKept DEF Harmless, Banned
  <2>5. CASE pc'[t] = "text"
    <3>1. /\ pc[t] = "compose_schedule"
          /\ pending' = pending \cup
               {[Task(timer, task.does) EXCEPT !.during = Busy \cap PackThreads]}
      BY <1>5, <2>5, ScheduleMoves
    <3>2. task'.does = task.does
      BY <1>5, <2>5, <3>1 DEF Schedule, Branch, Stmt, Types
    <3>3. pc'[t] \notin Gathering
      BY <2>5 DEF Gathering, SettingOut
    <3> QED  BY <1>3, <2>1, <2>2, <3>1, <3>2, <3>3, PackSchedules
  <2> QED  BY <2>4, <2>5
<1> QED  BY <1>1, <1>2, <1>4, <1>5, StmtKept, BranchKept DEF StartCompose

\* The clock of a turn is set by a timeout, when none is left.
LEMMA TurnClockKept ==
  ASSUME Types, Types', Chain, NEW t \in Threads, NEW from, NEW new, NEW add, NEW to,
         Schedule(t, from, new, add, "nextProcess", to),
         {from, new, add} \subseteq BeforeClock \ PackLabels,
         to \notin BeforeClock,
         Onward(from, new), Onward(new, add), Onward(add, "idle"), Onward(add, to)
  PROVE  Chain'
<1>1. /\ pc[t] \in BeforeClock /\ t \in TimerIds
      /\ OthersStay(t) /\ room' = room /\ now' = now
  BY ScheduleMoves DEF OthersStay, Types, Threads
<1>2. CASE pc'[t] \in {new, add, "idle"} /\ Fewer(t) /\ Onward(pc[t], pc'[t])
  <2>1. room'.nowCtrl \in 0 .. 2
    BY <1>1 DEF Chain, TurnsDone
  <2>2. \A k \in Teams : k < room'.nowCtrl \/ room'.status = "END" => Banned(k)'
    BY <1>1 DEF Chain, TurnsDone, Banned
  <2>3. pc[t] # "idle"
    BY <1>2 DEF Onward
  <2>4. TurnsDone'
    BY <1>1, <1>2, <2>1, <2>2, <2>3, TurnsKept DEF Onward
  <2> QED  BY <1>1, <1>2, <2>3, <2>4, TimerKept DEF Onward
<1>3. CASE /\ pc[t] = add /\ pc'[t] = to
           /\ pending' = pending \cup
                {[Task(timer, task.does) EXCEPT !.during = Busy \cap PackThreads]}
  BY <1>1, <1>3, TimerSchedules DEF Onward
<1> QED  BY <1>2, <1>3, ScheduleMoves DEF Fewer

\* SetStatus(BAN): the first turn begins.
LEMMA StartBanKept ==
  ASSUME Types, Types', Chain, NEW t \in Threads, StartBan(t)
  PROVE  Chain'
<1>1. /\ Harmless([room EXCEPT !.Json.Status = "BAN"])
      /\ Harmless([room EXCEPT !.Json.NowCtrl = room.nowCtrl])
      /\ Harmless([room EXCEPT !.Json.HideCompose = [k \in Teams |-> room.card[1 - k]]])
  BY DEF Harmless, Banned, Types, Rooms
<1>2. /\ Onward("SetStatus", "idle") /\ Onward("SetStatus", "ban1") /\ Onward("ban2", "ban3")
      /\ Onward("ban3", "ban_timer") /\ Onward("ban_timer", "ban_schedule")
      /\ Onward("ban_schedule", "idle") /\ Onward("ban_schedule", "ban4")
      /\ Onward("ban5", "ban6") /\ Onward("ban6", "text")
  BY DEF Onward, Gathering, SettingOut, BeforeClock, InTurn
<1>3. pc[t] \in {"ban1", "ban4"} => t \in TimerIds
  BY DEF Types, Threads, PackLabels, Gathering, SettingOut
<1>4. CASE Stmt(t, "ban1", "ban2", [room EXCEPT !.status = "BAN"])
  <2>1. /\ pc[t] = "ban1" /\ pc'[t] = "ban2"
        /\ room' = [room EXCEPT !.status = "BAN"] /\ OthersStay(t) /\ Fewer(t)
    BY <1>4, StmtMoves DEF OthersStay, Fewer
  <2>2. room'.status = "BAN" /\ room'.nowCtrl = room.nowCtrl /\ room'.banData = room.banData
    BY <2>1 DEF Types, Rooms
  <2>3. TurnsDone'
    BY <1>3, <2>1, <2>2, TurnsKept DEF Chain, TurnsDone, Banned
  <2> QED  BY <1>3, <2>1, <2>2, <2>3, TimerKept DEF BeforeClock
<1>5. CASE Stmt(t, "ban4", "ban5", [room EXCEPT !.nowCtrl = 0])
  <2>1. /\ pc[t] = "ban4" /\ pc'[t] = "ban5"
        /\ room' = [room EXCEPT !.nowCtrl = 0] /\ OthersStay(t) /\ Fewer(t)
    BY <1>5, StmtMoves DEF OthersStay, Fewer
  <2>2. room'.nowCtrl = 0 /\ room'.status = room.status /\ room'.banData = room.banData
    BY <2>1 DEF Types, Rooms
  <2>3. \A k \in Teams : k < room'.nowCtrl \/ room'.status = "END" => Banned(k)'
    BY <2>2 DEF Chain, TurnsDone, Banned, Teams
  <2>4. TurnsDone'
    BY <1>3, <2>1, <2>2, <2>3, TurnsKept
  <2>5. pc'[t] \notin BeforeClock
    BY <2>1 DEF BeforeClock, InTurn
  <2> QED  BY <1>3, <2>1, <2>2, <2>4, <2>5, TimerKept
<1>6. CASE Schedule(t, "ban3", "ban_timer", "ban_schedule", "nextProcess", "ban4")
  <2>1. {"ban3", "ban_timer", "ban_schedule"} \subseteq BeforeClock \ PackLabels
    BY DEF BeforeClock, InTurn, PackLabels, Gathering, SettingOut
  <2>2. "ban4" \notin BeforeClock
    BY DEF BeforeClock, InTurn
  <2> QED  BY <1>2, <1>6, <2>1, <2>2, TurnClockKept
<1> QED  BY <1>1, <1>2, <1>4, <1>5, <1>6, StmtKept, BranchKept DEF StartBan

\* A choice is a ban, and takes none back.
LEMMA ChooseKept ==
  ASSUME Types, Types', Chain, NEW t \in Threads, Choose(t)
  PROVE  Chain'
<1>1. loc[t].num \in Nat /\ room.banData \in [Teams -> Int]
  BY DEF Types, Locals, Rooms
<1>2. Harmless([room EXCEPT !.banData[room.nowCtrl] = loc[t].num])
  BY <1>1 DEF Harmless, Banned, NoBan, Types, Rooms
<1>3. Harmless([room EXCEPT !.Json.BanList = TRUE])
  BY DEF Harmless, Banned, Types, Rooms
<1>4. /\ Onward("CHOOSE", "choose1") /\ Onward("CHOOSE", "idle") /\ Onward("choose1", "choose2")
      /\ Onward("choose1", "idle") /\ Onward("choose2", "choose3") /\ Onward("choose2", "idle")
      /\ Onward("choose3", "text")
  BY DEF Onward, Gathering, SettingOut, BeforeClock, InTurn
<1> QED  BY <1>2, <1>3, <1>4, StmtKept, BranchKept DEF Choose

\* A card has nothing to do with clocks and bans.
LEMMA ComposeKept ==
  ASSUME Types, Types', Chain, NEW t \in Threads, Compose(t)
  PROVE  Chain'
<1>1. Harmless([room EXCEPT !.card[loc[t].team] = loc[t].num])
  BY DEF Harmless, Banned, Types, Rooms
<1>2. /\ Onward("COMPOSE", "card") /\ Onward("COMPOSE", "idle") /\ Onward("card", "tell")
      /\ Onward("tell", "idle")
  BY DEF Onward, Gathering, SettingOut, BeforeClock, InTurn
<1>3. CASE /\ pc[t] = "tell" /\ Return(t)
           /\ UNCHANGED <<room, timer, task, live, created, now, screen, queue>>
  <2>1. pc[t] = "tell" /\ pc'[t] = "idle" /\ OthersStay(t) /\ Fewer(t)
    BY <1>3 DEF Return, Goto, OthersStay, Fewer, Types
  <2>2. Onward(pc[t], pc'[t]) /\ Harmless(room') /\ task' = task
    BY <1>2, <1>3, <2>1 DEF Harmless, Banned
  <2>3. pc'[t] \notin Gathering
    BY <2>1 DEF Gathering, SettingOut
  <2> QED  BY <2>1, <2>2, <2>3, PlainKept
<1> QED  BY <1>1, <1>2, <1>3, StmtKept, BranchKept DEF Compose

\* The broadcast has nothing to do with them either.
LEMMA SyncKept ==
  ASSUME Types, Types', Chain, NEW t \in Threads, Sync(t, "text")
  PROVE  Chain'
<1>1. /\ pc[t] \in {"text", "write"} /\ pc'[t] \in {"write", "idle"}
      /\ OthersStay(t) /\ Fewer(t) /\ room' = room
  BY SyncMoves DEF OthersStay, Fewer
<1>2. task' = task
  BY DEF Sync, shared, clock
<1>3. Onward(pc[t], pc'[t]) /\ Harmless(room') /\ pc'[t] \notin Gathering
  BY <1>1 DEF Onward, Harmless, Banned, Gathering, SettingOut, BeforeClock, InTurn
<1> QED  BY <1>1, <1>2, <1>3, PlainKept

\* The end of nextProcess: the clock of the next turn.
LEMMA EndProcessKept ==
  ASSUME Types, Types', Chain, NEW t \in Threads, EndProcess(t)
  PROVE  Chain'
<1>1. /\ Onward("rearm?", "rearm") /\ Onward("rearm?", "text") /\ Onward("rearm", "rearm_timer")
      /\ Onward("rearm_timer", "rearm_schedule") /\ Onward("rearm_schedule", "idle")
      /\ Onward("rearm_schedule", "text")
  BY DEF Onward, Gathering, SettingOut, BeforeClock, InTurn
<1>2. {"rearm", "rearm_timer", "rearm_schedule"} \subseteq BeforeClock \ PackLabels
  BY DEF BeforeClock, InTurn, PackLabels, Gathering, SettingOut
<1>3. "text" \notin BeforeClock
  BY DEF BeforeClock, InTurn
<1> QED  BY <1>1, <1>2, <1>3, BranchKept, TurnClockKept DEF EndProcess

\* The bans of room r suit the turn of r, and the label `to` of a timeout.
Suits(r, to) ==
  /\ r.nowCtrl \in 0 .. 2
  /\ \A k \in Teams : k < r.nowCtrl \/ r.status = "END" => r.banData[k] # NoBan
  /\ to \in {"next3", "next4", "next5", "next6"} => r.nowCtrl \in Teams
  /\ to \in {"next4", "next5", "next6"} => r.banData[r.nowCtrl] # NoBan
  /\ to = "end" => r.nowCtrl = 2

\* Within its turn a timeout keeps the chain if it keeps the turns.
LEMMA TurnMoveKept ==
  ASSUME Types, Types', Chain, NEW t \in Threads, NEW from, NEW to, NEW r,
         Stmt(t, from, to, r), from \in InTurn, to \in InTurn \ {"next6"},
         r.status \in {room.status, "END"}, Suits(r, to)
  PROVE  Chain'
<1>1. /\ pc[t] = from /\ pc'[t] = to /\ room' = r /\ OthersStay(t) /\ Fewer(t)
  BY StmtMoves DEF OthersStay, Fewer
<1>2. pc[t] # "idle" /\ t \in TimerIds /\ from \in BeforeClock
  BY <1>1 DEF Types, Threads, PackLabels, Gathering, SettingOut, InTurn, BeforeClock
<1>3. TurnsDone'
  BY <1>1, <1>2, TurnsKept DEF Suits, Banned
<1> QED  BY <1>1, <1>2, <1>3, TimerKept

\* nextProcess: a turn without a ban is given the empty one, and only then the next
\* turn begins, or the draft ends.
LEMMA NextProcessKept ==
  ASSUME Types, Types', Chain, NEW t \in Threads, NextProcess(t)
  PROVE  Chain'
<1> DEFINE turn == room.nowCtrl
<1>1. /\ room \in Rooms /\ turn \in 0 .. 2
      /\ \A k \in Teams : k < turn \/ room.status = "END" => Banned(k)
  BY DEF Types, Chain, TurnsDone
<1>2. /\ Harmless([room EXCEPT !.Json.BanList = TRUE])
      /\ Harmless([room EXCEPT !.Json.NowCtrl = turn])
      /\ Harmless([room EXCEPT !.Json.Status = "END"])
      /\ Harmless([room EXCEPT !.Json.Compose = TRUE])
  BY <1>1 DEF Harmless, Banned, Rooms
<1>3. /\ Onward("next1", "next2") /\ Onward("next1", "rearm?") /\ Onward("next2", "idle")
      /\ Onward("next3", "idle") /\ Onward("next7", "next8") /\ Onward("next8", "rearm?")
      /\ Onward("end1", "end2") /\ Onward("end3", "rearm?")
  BY DEF Onward, Gathering, SettingOut, BeforeClock, InTurn
<1>4. pc[t] \in InTurn => t \in TimerIds /\ pc[t] # "idle" /\ pc[t] \in BeforeClock
  BY DEF Types, Threads, PackLabels, Gathering, SettingOut, InTurn, BeforeClock
<1>5. t \in TimerIds =>
        /\ pc[t] \in {"next3", "next4", "next5", "next6"} => turn \in Teams
        /\ pc[t] \in {"next4", "next5", "next6"} => Banned(turn)
        /\ pc[t] = "next6" => loc[t].ctrl = turn
        /\ pc[t] = "end" => turn = 2
  BY DEF Chain, TurnsDone
<1>6. CASE /\ pc[t] = "nextProcess" /\ Goto(t, "next1")
           /\ live' = FALSE
           /\ pending' = {p \in pending : p.on # timer}
           /\ UNCHANGED <<room, timer, task, created, now, screen, told, queue, loc>>
  <2>1. /\ pc'[t] = "next1" /\ OthersStay(t) /\ Fewer(t) /\ room' = room
    BY <1>6 DEF Goto, Types, OthersStay, Fewer
  <2>2. pc[t] \in InTurn /\ pc'[t] \in BeforeClock
    BY <1>6, <2>1 DEF InTurn, BeforeClock
  <2>3. TurnsDone'
    BY <1>1, <1>4, <2>1, <2>2, TurnsKept DEF Banned
  <2> QED  BY <1>4, <2>1, <2>2, <2>3, TimerKept
<1>7. CASE turn \in Teams /\ Missed(turn) /\ Branch(t, "next2", "next3")
  <2>1. Suits(room, "next3")
    BY <1>1, <1>7 DEF Suits, Banned
  <2>2. "next2" \in InTurn /\ "next3" \in InTurn \ {"next6"}
    BY DEF InTurn
  <2> QED  BY <1>7, <2>1, <2>2, TurnMoveKept DEF Branch
<1>8. CASE turn \in Teams /\ ~Missed(turn) /\ Branch(t, "next2", "next5")
  <2>1. Suits(room, "next5")
    BY <1>1, <1>8 DEF Suits, Banned, Missed
  <2>2. "next2" \in InTurn /\ "next5" \in InTurn \ {"next6"}
    BY DEF InTurn
  <2> QED  BY <1>8, <2>1, <2>2, TurnMoveKept DEF Branch
<1>9. CASE turn \in Teams /\ Stmt(t, "next3", "next4", [room EXCEPT !.banData[turn] = 0])
  <2> DEFINE r == [room EXCEPT !.banData[turn] = 0]
  <2>1. r.nowCtrl = turn /\ r.status = room.status
    BY <1>1 DEF Rooms
  <2>2. \A k \in Teams : r.banData[k] = IF k = turn THEN 0 ELSE room.banData[k]
    BY <1>1 DEF Rooms
  <2> HIDE DEF r
  <2>3. Suits(r, "next4")
    BY <1>1, <1>9, <2>1, <2>2 DEF Suits, Banned, NoBan
  <2>4. "next3" \in InTurn /\ "next4" \in InTurn \ {"next6"}
    BY DEF InTurn
  <2> QED  BY <1>9, <2>1, <2>3, <2>4, TurnMoveKept DEF r
<1>10. CASE Stmt(t, "next4", "next5", [room EXCEPT !.Json.BanList = TRUE])
  <2> DEFINE r == [room EXCEPT !.Json.BanList = TRUE]
  <2>1. r.nowCtrl = turn /\ r.status = room.status /\ r.banData = room.banData
    BY <1>1 DEF Rooms
  <2> HIDE DEF r
  <2>2. pc[t] = "next4" /\ "next4" \in InTurn /\ "next5" \in InTurn \ {"next6"}
    BY <1>10, StmtMoves DEF InTurn
  <2>3. Suits(r, "next5")
    BY <1>1, <1>4, <1>5, <2>1, <2>2 DEF Suits, Banned
  <2> QED  BY <1>10, <2>1, <2>2, <2>3, TurnMoveKept DEF r
<1>11. CASE /\ pc[t] = "next5" /\ Goto(t, "next6")
            /\ loc' = [loc EXCEPT ![t].ctrl = turn]
            /\ UNCHANGED <<shared, queue>>
  <2>1. /\ pc'[t] = "next6" /\ OthersStay(t) /\ Fewer(t) /\ room' = room
        /\ loc'[t].ctrl = turn
    BY <1>11 DEF Goto, Types, Locals, shared, clock, OthersStay, Fewer
  <2>2. pc[t] \in InTurn /\ pc'[t] \in BeforeClock
    BY <1>11, <2>1 DEF InTurn, BeforeClock
  <2>3. TurnsDone'
    BY <1>1, <1>4, <1>5, <1>11, <2>1, <2>2, TurnsKept DEF Banned
  <2> QED  BY <1>4, <2>1, <2>2, <2>3, TimerKept
<1>12. CASE Stmt(t, "next6", "next7", [room EXCEPT !.nowCtrl = loc[t].ctrl + 1])
  <2> DEFINE r == [room EXCEPT !.nowCtrl = loc[t].ctrl + 1]
  <2>1. r.nowCtrl = loc[t].ctrl + 1 /\ r.status = room.status /\ r.banData = room.banData
    BY <1>1 DEF Rooms
  <2> HIDE DEF r
  <2>2. pc[t] = "next6" /\ "next6" \in InTurn /\ "next7" \in InTurn \ {"next6"}
    BY <1>12, StmtMoves DEF InTurn
  <2>3. turn \in Teams /\ Banned(turn) /\ r.nowCtrl = turn + 1
    BY <1>4, <1>5, <2>1, <2>2
  <2>4. Suits(r, "next7")
    BY <1>1, <2>1, <2>3 DEF Suits, Banned, Teams
  <2> QED  BY <1>12, <2>1, <2>2, <2>4, TurnMoveKept DEF r
<1>13. CASE turn = 2 /\ Branch(t, "next8", "end")
  <2>1. Suits(room, "end")
    BY <1>1, <1>13 DEF Suits, Banned
  <2>2. "next8" \in InTurn /\ "end" \in InTurn \ {"next6"}
    BY DEF InTurn
  <2> QED  BY <1>13, <2>1, <2>2, TurnMoveKept DEF Branch
<1>14. CASE Stmt(t, "end", "end1", [room EXCEPT !.status = "END"])
  <2> DEFINE r == [room EXCEPT !.status = "END"]
  <2>1. r.nowCtrl = turn /\ r.status = "END" /\ r.banData = room.banData
    BY <1>1 DEF Rooms
  <2> HIDE DEF r
  <2>2. pc[t] = "end" /\ "end" \in InTurn /\ "end1" \in InTurn \ {"next6"}
    BY <1>14, StmtMoves DEF InTurn
  <2>3. Suits(r, "end1")
    BY <1>1, <1>4, <1>5, <2>1, <2>2 DEF Suits, Banned, Teams
  <2> QED  BY <1>14, <2>1, <2>2, <2>3, TurnMoveKept DEF r
<1>15. CASE Stmt(t, "end2", "end3", [room EXCEPT !.nowCtrl = 0])
  <2> DEFINE r == [room EXCEPT !.nowCtrl = 0]
  <2>1. r.nowCtrl = 0 /\ r.status = room.status /\ r.banData = room.banData
    BY <1>1 DEF Rooms
  <2> HIDE DEF r
  <2>2. "end2" \in InTurn /\ "end3" \in InTurn \ {"next6"}
    BY DEF InTurn
  <2>3. Suits(r, "end3")
    BY <1>1, <2>1 DEF Suits, Banned, Teams
  <2> QED  BY <1>15, <2>1, <2>2, <2>3, TurnMoveKept DEF r
<1> QED
  BY <1>2, <1>3, <1>6, <1>7, <1>8, <1>9, <1>10, <1>11, <1>12, <1>13, <1>14, <1>15,
     StmtKept, BranchKept DEF NextProcess

\* Every step keeps the chain of clocks, unless it sets a second one.
LEMMA ChainKeptByAll ==
  ASSUME Types, Types', ~doubled => Chain, [Next]_vars, ~doubled'
  PROVE  Chain'
<1>1. CASE UNCHANGED vars
  BY <1>1 DEF vars, shared, clock, Chain, OneClock, OneTimeout, ComposeFirst, NoClockYet,
     Resting, TurnsDone, Banned
<1>2. ASSUME NEW t \in Threads, Step(t), History
      PROVE  Chain'
  <2>1. Chain
    BY <1>2 DEF History
  <2> QED
    BY <1>2, <2>1, TakeKept, FireKept, ReadyKept, StartComposeKept, StartBanKept, ChooseKept,
       ComposeKept, NextProcessKept, EndProcessKept, SyncKept DEF Step
<1> QED  BY <1>1, <1>2 DEF Next, Moves

-----------------------------------------------------------------------------
\* The starts are such rooms.
LEMMA Initial == Init => IInv
<1> SUFFICES ASSUME Init  PROVE IInv
  OBVIOUS
<1>1. /\ at \in Starts /\ at.phase \in 0 .. 3 /\ room = RoomAt(at.phase)
  BY StartAssumption DEF Init
<1>2. /\ pc = [t \in Threads |-> "idle"] /\ loc = [t \in Threads |-> NoLocals]
      /\ NoLocals \in Locals
  BY DEF Init, NoLocals, Locals, Teams
<1>3. room \in Rooms
  BY <1>1 DEF RoomAt, Rooms, Jsons, Statuses, Cards, NoBan, NoTurn, Teams
<1>4. /\ \A p \in pending : p = Task(1, "SetStatus") \/ p = Task(1, "nextProcess")
      /\ \A p, q \in pending : p = q
      /\ room.status = "WAIT" => pending = {}
  BY <1>1 DEF Init, RoomAt
<1>5. now = 0 /\ 1 \in TimerIds /\ created = 1 /\ timer = 1
  BY ThreadAssumption DEF Init, TimerIds
<1>6. pending \subseteq Tasks /\ \A p \in pending : p.due = now + 1
  BY <1>4, <1>5 DEF Task, Tasks, Deeds
<1>7. Types
  <2>1. "idle" \in PackLabels /\ "idle" \in TimerLabels
    BY DEF PackLabels, TimerLabels
  <2>2. task \in [does : Deeds, fresh : BOOLEAN] /\ live \in BOOLEAN
    BY DEF Init, Deeds
  <2>3. created \in 1 .. MaxTimers
    BY <1>5, ThreadAssumption
  <2>4. queue \subseteq at.packets /\ doubled \in BOOLEAN /\ overtaken \in BOOLEAN
    BY DEF Init
  <2> QED  BY <1>1, <1>2, <1>3, <1>5, <1>6, <2>1, <2>2, <2>3, <2>4 DEF Types, Threads
<1>8. OwnInv
  BY <1>1, <1>2 DEF OwnInv, ChoosesOwn, OwnBans, RoomAt, NoBan, Teams
<1>9. Chain
  <2>1. \A t \in Threads : pc[t] = "idle"
    BY <1>2
  <2>2. OneClock /\ OneTimeout
    BY <1>4, <1>6, <2>1 DEF OneClock, OneTimeout, BeforeClock, InTurn, Threads
  <2>3. ComposeFirst
    BY <2>1 DEF ComposeFirst, Gathering, SettingOut, Threads
  <2>4. NoClockYet
    BY <1>4, <2>1 DEF Init, NoClockYet, Resting, Threads
  <2>5. TurnsDone
    BY <1>1, <2>1 DEF TurnsDone, Banned, RoomAt, NoBan, Teams, Threads
  <2> QED  BY <2>2, <2>3, <2>4, <2>5 DEF Chain
<1> QED  BY <1>7, <1>8, <1>9 DEF IInv

\* The types, whose ban it is, and the chain of clocks are kept together.
LEMMA Inductive == IInv /\ [Next]_vars => IInv'
<1> SUFFICES ASSUME IInv, [Next]_vars  PROVE IInv'
  OBVIOUS
<1>1. Types /\ OwnInv /\ (~doubled => Chain)
  BY DEF IInv
<1>2. Types'
  BY <1>1, TypesStep
<1>3. OwnInv'
  BY <1>1, OwnKeptByAll
<1>4. ~doubled' => Chain'
  BY <1>1, <1>2, ChainKeptByAll
<1> QED  BY <1>2, <1>3, <1>4 DEF IInv

\* In every interleaving of any number of threads, from any of the four starts and
\* with any packets, there is one clock at a time and one timeout at a time, until
\* two READY have each set the clock for composing.
THEOREM Invariance == Spec => []IInv
  BY Initial, Inductive, PTL DEF Spec

\* A ban that is stored for a team was sent by its captain, or is the empty one, as
\* long as no turn ends between the test of a choice and its storing.
THEOREM BansAreOwn == Spec => []OwnBans
<1>1. IInv => OwnBans
  BY DEF IInv, OwnInv
<1> QED  BY <1>1, Invariance, PTL

\* Both teams have banned when the draft has ended, whatever overlaps the clocks.
THEOREM BothHaveBanned == Spec => []BothBanned
<1>1. IInv => BothBanned
  BY DEF IInv, Chain, TurnsDone, Banned, BothBanned
<1> QED  BY <1>1, Invariance, PTL
=============================================================================
