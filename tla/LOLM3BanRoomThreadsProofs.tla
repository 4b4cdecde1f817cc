---------------------- MODULE LOLM3BanRoomThreadsProofs ----------------------
(***************************************************************************)
(* Proofs about LOLM3BanRoomThreads.                                       *)
(***************************************************************************)
EXTENDS LOLM3BanRoomThreads, FiniteSetTheorems, TLAPS

Statuses == {"WAIT", "BAN", "PICK", "END"}
Jsons == [Status : Statuses, nowCtrl : Teams \cup {NotPut},
          banFlage : Nat \cup {NotPut}, pickFlage : Nat \cup {NotPut}]
Rooms == [status : Statuses, chosen : SUBSET Int, isReady : [Teams -> BOOLEAN],
          banData : [BanSlots -> Int], pickData : [PickSlots -> Int],
          nowCtrl : Teams, banFlage : Nat, pickFlage : Nat, previewNum : Int, Json : Jsons]
Texts == [Status : Statuses, BanList : [BanSlots -> Int], PickList : [PickSlots -> Int],
          Ready : [Teams -> BOOLEAN], nowCtrl : Teams \cup {NotPut},
          banFlage : Nat \cup {NotPut}, pickFlage : Nat \cup {NotPut}]
Locals == [team : Teams, num : Int, flag : Nat, data : Texts \cup {<<>>}]

\* The types of the room's fields and of what the threads remember of them.
Types ==
  /\ at \in Starts
  /\ room \in Rooms
  /\ loc \in [Threads -> Locals]
  /\ DOMAIN pc = Threads
  /\ queue \subseteq at.packets
  /\ live \in BOOLEAN /\ fresh \in BOOLEAN /\ derailed \in BOOLEAN

\* The Timers that were made, and what is scheduled on them.
Timers ==
  /\ created \in 1 .. MaxTimers /\ timer \in 1 .. created
  /\ pending \in [TimerIds -> Nat]

\* Somebody will look at both flags after the second captain's was set.
StartComes ==
  (\A t \in Teams : room.isReady[t]) /\ room.status = "WAIT"
    => \E t \in Threads : pc[t] \in {"ready2", "start", "start1"}

\* Thread t has taken it on itself to schedule the next timeout.
Bearer(t) ==
  \/ pc[t] \in {"next", "next1", "next2", "next3"} /\ t \in TimerIds
  \/ pc[t] \in {"next4", "ban", "ban1", "ban2", "ban3", "ban4", "ban5", "ban6",
                "pick", "pick1", "pick2", "pick3", "pick4", "pick5", "rearm", "start2"}
  \/ pc[t] \in {"start_timer", "rearm_timer"} /\ fresh
  \/ pc[t] \in {"start_schedule", "rearm_schedule"} /\ fresh /\ live

ClockHeld == room.status \in {"BAN", "PICK"} /\ ~derailed
               => Waiting # {} \/ \E t \in Threads : Bearer(t)

IInv == Types /\ Timers /\ StartComes /\ ClockHeld
-----------------------------------------------------------------------------
\* Whose turn a slot is.
LEMMA Owners == /\ \A i \in BanSlots : banProcess[i] \in Teams
                /\ \A i \in PickSlots : pickProcess[i] \in Teams
  BY BanCountAssumption DEF banProcess, pickProcess, BanSlots, PickSlots, Teams

\* RoomJData.toString() of a room is a text.
LEMMA SnapshotType == ASSUME NEW r \in Rooms  PROVE Snapshot(r) \in Texts
  BY DEF Rooms, Jsons, Snapshot, Texts

\* A statement that leaves the room a room, and goes to some label.
LEMMA StmtTypes ==
  ASSUME Types, NEW t \in Threads, NEW from, NEW to, NEW r \in Rooms,
         Stmt(t, from, to, r)
  PROVE  /\ room' \in Rooms /\ loc' \in [Threads -> Locals]
         /\ DOMAIN pc' = Threads /\ queue' = queue
         /\ UNCHANGED <<live, fresh, timer, created, pending>>
<1>1. NoLocals \in Locals
  BY DEF NoLocals, Locals, Teams
<1>2. room' = r /\ queue' = queue /\ UNCHANGED <<live, fresh, timer, created, pending>>
  BY DEF Stmt, clock
<1>3. loc' \in [Threads -> Locals]
  BY <1>1 DEF Stmt, Return, Types
<1>4. DOMAIN pc' = Threads
  BY DEF Stmt, Return, Goto, Types
<1> QED  BY <1>2, <1>3, <1>4

\* A branch leaves the room what it is, and goes to some label.
LEMMA BranchTypes ==
  ASSUME Types, NEW t \in Threads, NEW from, NEW to, Branch(t, from, to)
  PROVE  /\ room' = room /\ room' \in Rooms /\ loc' \in [Threads -> Locals]
         /\ DOMAIN pc' = Threads /\ queue' = queue
         /\ UNCHANGED <<live, fresh, timer, created, pending>>
<1>1. room \in Rooms /\ Stmt(t, from, to, room)
  BY DEF Branch, Types
<1>2. room' = room
  BY <1>1 DEF Stmt
<1> QED  BY <1>1, <1>2, StmtTypes

\* The types that a step has to keep.
Typed == /\ room' \in Rooms /\ loc' \in [Threads -> Locals]
         /\ DOMAIN pc' = Threads /\ queue' \subseteq queue
         /\ live' \in BOOLEAN /\ fresh' \in BOOLEAN /\ Timers'

\* A statement or a branch keeps them.
LEMMA StmtTyped ==
  ASSUME Types, Timers, NEW t \in Threads, NEW from, NEW to, NEW r \in Rooms,
         Stmt(t, from, to, r)
  PROVE  Typed
  BY StmtTypes DEF Typed, Timers, Types

\* The same of a branch.
LEMMA BranchTyped ==
  ASSUME Types, Timers, NEW t \in Threads, NEW from, NEW to,
         Branch(t, from, to)
  PROVE  Typed
  BY BranchTypes DEF Typed, Timers, Types

\* The three statements that set a clock keep them.
LEMMA ScheduleTyped ==
  ASSUME Types, Timers, NEW t \in Threads, NEW from, NEW new,
         NEW add, NEW to, Schedule(t, from, new, add, to)
  PROVE  Typed
<1>1. \A s \in Starts : s.timers \in 1 .. MaxTimers
  BY StartAssumption
<1>2. CASE /\ pc[t] = from /\ Goto(t, new)
           /\ fresh' = TRUE
           /\ UNCHANGED <<timer, live, pending, created, room, screen, shown, queue, loc>>
  BY <1>2 DEF Goto, Typed, Timers, Types
<1>3. CASE /\ pc[t] = new /\ Goto(t, add)
           /\ created < at.timers
           /\ created' = created + 1 /\ timer' = created' /\ live' = TRUE
           /\ UNCHANGED <<fresh, pending, room, screen, shown, queue, loc>>
  <2>1. at.timers \in 1 .. MaxTimers /\ MaxTimers \in Nat
    BY <1>1, ThreadAssumption DEF Types
  <2>2. Timers'
    BY <1>3, <2>1 DEF Timers, TimerIds
  <2> QED  BY <1>3, <2>2 DEF Goto, Typed, Types
<1>4. CASE /\ pc[t] = add /\ Goto(t, to)
           /\ live /\ fresh
           /\ fresh' = FALSE /\ pending' = [pending EXCEPT ![timer] = @ + 1]
           /\ UNCHANGED <<timer, live, created, room, screen, shown, queue, loc>>
  <2>1. timer \in TimerIds
    BY ThreadAssumption DEF Timers, TimerIds
  <2>2. Timers'
    BY <1>4, <2>1 DEF Timers
  <2> QED  BY <1>4, <2>2 DEF Goto, Typed, Types
<1>5. CASE ~(live /\ fresh) /\ Branch(t, add, "idle")
  BY <1>5, BranchTyped
<1> QED  BY <1>2, <1>3, <1>4, <1>5 DEF Schedule

\* The text of a broadcast and its write keep them.
LEMMA BroadcastTyped ==
  ASSUME Types, Timers, NEW t \in Threads, NEW from, NEW to, NEW turn,
         Text(t, from, to) \/ Write(t, from, turn)
  PROVE  Typed
<1>1. Snapshot(room) \in Texts
  BY SnapshotType DEF Types
<1>2. NoLocals \in Locals /\ [NoLocals EXCEPT !.data = Snapshot(room)] \in Locals
  BY <1>1 DEF NoLocals, Locals, Teams
<1>3. CASE Text(t, from, to)
  BY <1>2, <1>3 DEF Text, Goto, shared, clock, Typed, Timers, Types
<1>4. CASE Write(t, from, turn)
  BY <1>2, <1>4 DEF Write, Return, Goto, clock, Typed, Timers, Types
<1> QED  BY <1>3, <1>4

-----------------------------------------------------------------------------
\* Handler by handler, every statement keeps the types.
LEMMA BeginsTyped ==
  ASSUME Types, Timers, NEW t \in Threads, Take(t) \/ Fire(t)
  PROVE  Typed
<1>1. CASE Take(t)
  <2>1. PICK p \in queue :
          /\ queue' = queue \ {p}
          /\ loc' = [loc EXCEPT ![t].team = p.team, ![t].num = p.num]
          /\ Goto(t, p.pt)
    BY <1>1 DEF Take
  <2>2. p \in Packets
    BY <2>1 DEF Types, Packets
  <2>3. p.team \in Teams /\ p.num \in Int
    BY <2>2, PacketAssumption
  <2>4. loc' \in [Threads -> Locals]
    BY <2>1, <2>3 DEF Types, Locals
  <2>5. DOMAIN pc' = Threads /\ queue' \subseteq queue
    BY <2>1, <2>3 DEF Goto, Types
  <2> QED  BY <1>1, <2>4, <2>5 DEF Take, shared, clock, Typed, Timers, Types
<1>2. CASE Fire(t)
  <2>1. /\ t \in TimerIds /\ pending[t] > 0
        /\ pending' = [pending EXCEPT ![t] = @ - 1]
        /\ loc' = [loc EXCEPT ![t].num = room.previewNum]
        /\ Goto(t, "next")
        /\ UNCHANGED <<room, timer, live, fresh, created, screen, shown, queue>>
    BY <1>2 DEF Fire, Waiting
  <2>2. Timers'
    BY <2>1 DEF Timers
  <2>3. loc' \in [Threads -> Locals]
    BY <2>1 DEF Types, Locals, Rooms
  <2> QED  BY <2>1, <2>2, <2>3 DEF Goto, Typed, Types
<1> QED  BY <1>1, <1>2

\* READY keeps the types: it sets a flag and makes a text.
LEMMA ReadyTyped ==
  ASSUME Types, Timers, NEW t \in Threads, Ready(t)
  PROVE  Typed
<1>1. room \in Rooms /\ loc[t].team \in Teams
  BY DEF Types, Locals
<1>2. [room EXCEPT !.isReady[loc[t].team] = TRUE] \in Rooms
  BY <1>1 DEF Rooms
<1> QED  BY <1>2, StmtTyped, BranchTyped, BroadcastTyped DEF Ready

\* SetStatus(BAN) keeps them: the status, its copy in RoomJData and the turn.
LEMMA StartBanTyped ==
  ASSUME Types, Timers, NEW t \in Threads, StartBan(t)
  PROVE  Typed
<1>1. room \in Rooms
  BY DEF Types
<1>2. /\ [room EXCEPT !.status = "BAN", !.Json.Status = "BAN"] \in Rooms
      /\ [room EXCEPT !.Json.banFlage = room.banFlage] \in Rooms
      /\ [room EXCEPT !.nowCtrl = 0, !.Json.nowCtrl = 0] \in Rooms
  BY <1>1 DEF Rooms, Jsons, Statuses, Teams
<1> QED  BY <1>2, StmtTyped, BranchTyped, ScheduleTyped DEF StartBan

\* CHOOSE and PREVIEW keep them.
LEMMA ChooseTyped ==
  ASSUME Types, Timers, NEW t \in Threads, Choose(t) \/ Preview(t)
  PROVE  Typed
<1>1. room \in Rooms /\ loc[t].num \in Int /\ NoLocals \in Locals
  BY DEF Types, Locals, NoLocals, Teams
<1>2. [room EXCEPT !.previewNum = loc[t].num] \in Rooms
  BY <1>1 DEF Rooms
<1>3. ASSUME pc[t] = "preview2", Return(t), UNCHANGED <<room, clock, screen, queue>>
      PROVE  Typed
  BY <1>1, <1>3 DEF Return, Goto, clock, Typed, Timers, Types
<1> QED  BY <1>2, <1>3, StmtTyped, BranchTyped DEF Choose, Preview

\* The beginning of nextProcess keeps them: the chosen heroes grow by a number.
LEMMA NextProcessTyped ==
  ASSUME Types, Timers, NEW t \in Threads, NextProcess(t)
  PROVE  Typed
<1>1. room \in Rooms /\ loc[t].num \in Int
  BY DEF Types, Locals
<1>2. /\ [room EXCEPT !.previewNum = 0] \in Rooms
      /\ [room EXCEPT !.chosen = @ \cup ({loc[t].num} \ {0})] \in Rooms
  BY <1>1 DEF Rooms
<1>3. ASSUME pc[t] = "next3", Goto(t, "next4"), live' = FALSE,
             pending' = [k \in TimerIds |-> IF k = timer THEN 0 ELSE pending[k]],
             UNCHANGED <<room, timer, fresh, created, screen, shown, queue, loc>>
      PROVE  Typed
  BY <1>1, <1>3 DEF Goto, Typed, Timers, Types
<1> QED  BY <1>2, <1>3, StmtTyped, BranchTyped DEF NextProcess

\* The turn of a ban keeps them: no slot is written past the end of banData.
LEMMA BanTurnTyped ==
  ASSUME Types, Timers, NEW t \in Threads, BanTurn(t)
  PROVE  Typed
<1> DEFINE f == room.banFlage
<1>1. room \in Rooms /\ loc[t].num \in Int /\ loc[t].flag \in Nat /\ f \in Nat
  BY DEF Types, Locals, Rooms
<1>2. /\ f \in BanSlots => [room EXCEPT !.banData[f] = loc[t].num] \in Rooms
      /\ [room EXCEPT !.banFlage = loc[t].flag + 1] \in Rooms
      /\ [room EXCEPT !.nowCtrl = 0] \in Rooms
  BY <1>1 DEF Rooms, Teams
<1>3. f \in BanSlots => [room EXCEPT !.nowCtrl = banProcess[f]] \in Rooms
  BY <1>1, Owners DEF Rooms
<1>4. /\ [room EXCEPT !.Json.nowCtrl = room.nowCtrl] \in Rooms
      /\ [room EXCEPT !.Json.banFlage = f] \in Rooms
  BY <1>1 DEF Rooms, Jsons
<1>5. [room EXCEPT !.status = "PICK", !.Json.Status = "PICK", !.Json.pickFlage =
             IF room.status = "PICK" THEN @ ELSE room.pickFlage] \in Rooms
  BY <1>1 DEF Rooms, Jsons, Statuses
<1>6. ASSUME Goto(t, "ban2"), loc' = [loc EXCEPT ![t].flag = f], UNCHANGED <<shared, queue>>
      PROVE  Typed
  BY <1>1, <1>6 DEF Goto, shared, clock, Typed, Timers, Types, Locals
<1> QED  BY <1>2, <1>3, <1>4, <1>5, <1>6, StmtTyped, BranchTyped DEF BanTurn

\* The turn of a pick keeps them: no slot is written past the end of pickData.
LEMMA PickTurnTyped ==
  ASSUME Types, Timers, NEW t \in Threads, PickTurn(t)
  PROVE  Typed
<1> DEFINE f == room.pickFlage
<1>1. room \in Rooms /\ loc[t].num \in Int /\ loc[t].flag \in Nat /\ f \in Nat
  BY DEF Types, Locals, Rooms
<1>2. /\ f \in PickSlots => [room EXCEPT !.pickData[f] = loc[t].num] \in Rooms
      /\ [room EXCEPT !.pickFlage = loc[t].flag + 1] \in Rooms
  BY <1>1 DEF Rooms
<1>3. [room EXCEPT !.status = "END", !.Json.Status = "END"] \in Rooms
  BY <1>1 DEF Rooms, Jsons, Statuses
<1>4. f \in PickSlots => [room EXCEPT !.nowCtrl = PickCtrl(f)] \in Rooms
  BY <1>1, Owners DEF Rooms, PickCtrl
<1>5. /\ [room EXCEPT !.Json.nowCtrl = room.nowCtrl] \in Rooms
      /\ [room EXCEPT !.Json.pickFlage = f] \in Rooms
  BY <1>1 DEF Rooms, Jsons
<1>6. ASSUME Goto(t, "pick2"), loc' = [loc EXCEPT ![t].flag = f], UNCHANGED <<shared, queue>>
      PROVE  Typed
  BY <1>1, <1>6 DEF Goto, shared, clock, Typed, Timers, Types, Locals
<1> QED  BY <1>2, <1>3, <1>4, <1>5, <1>6, StmtTyped, BranchTyped DEF PickTurn

\* The end of nextProcess keeps them: the next timer and the SYNC.
LEMMA EndProcessTyped ==
  ASSUME Types, Timers, NEW t \in Threads, EndProcess(t)
  PROVE  Typed
  BY BranchTyped, ScheduleTyped, BroadcastTyped DEF EndProcess

\* Every step keeps the types.
LEMMA TypesStep ==
  ASSUME Types, Timers, [Next]_vars
  PROVE  Types' /\ Timers'
<1>1. CASE UNCHANGED vars
  BY <1>1 DEF vars, shared, clock, Types, Timers
<1>2. ASSUME NEW t \in Threads, Step(t), History(t), UNCHANGED at
      PROVE  Types' /\ Timers'
  <2>1. Typed
    BY <1>2, BeginsTyped, ReadyTyped, StartBanTyped, ChooseTyped, NextProcessTyped,
       BanTurnTyped, PickTurnTyped, EndProcessTyped DEF Step
  <2>2. derailed' \in BOOLEAN
    BY <1>2 DEF History, Derail, Types
  <2> QED  BY <1>2, <2>1, <2>2 DEF Typed, Types
<1> QED  BY <1>1, <1>2 DEF Next

-----------------------------------------------------------------------------
\* What a statement does besides writing the room.
LEMMA StmtMoves ==
  ASSUME Types, NEW t \in Threads, NEW from, NEW to, NEW r, Stmt(t, from, to, r)
  PROVE  /\ pc[t] = from /\ pc' = [pc EXCEPT ![t] = to] /\ pc'[t] = to
         /\ room' = r
         /\ to # "idle" => loc' = loc
         /\ UNCHANGED <<clock, screen, shown, queue>>
  BY DEF Stmt, Return, Goto, Types

\* The same of a branch.
LEMMA BranchMoves ==
  ASSUME Types, NEW t \in Threads, NEW from, NEW to, Branch(t, from, to)
  PROVE  /\ pc[t] = from /\ pc' = [pc EXCEPT ![t] = to] /\ pc'[t] = to
         /\ room' = room
         /\ to # "idle" => loc' = loc
         /\ UNCHANGED <<clock, screen, shown, queue>>
  BY StmtMoves DEF Branch

\* What step t does to the start of the draft.
StartKept(t) ==
  /\ room'.status = "WAIT" => room.status = "WAIT"
  /\ room'.isReady = room.isReady \/ pc'[t] = "ready2"
  /\ pc[t] \in {"ready2", "start", "start1"} =>
       \/ pc'[t] \in {"ready2", "start", "start1"} \/ room'.status # "WAIT"
       \/ \E k \in Teams : ~room'.isReady[k]

\* What step t does to the clock.
ClockCarried(t) ==
  \/ Bearer(t)' \/ Waiting' # {} \/ derailed' \/ room'.status \notin {"BAN", "PICK"}
  \/ /\ ~Bearer(t) /\ Waiting' = Waiting /\ (fresh => fresh') /\ (live => live')
     /\ room'.status = room.status

Kept(t) == StartKept(t) /\ ClockCarried(t) /\ \E to : pc' = [pc EXCEPT ![t] = to]

\* A handler that begins is never about to start the draft, and a task takes on
\* the clock with it.
LEMMA BeginsKept ==
  ASSUME Types, Timers, NEW t \in Threads, Take(t) \/ Fire(t)
  PROVE  Kept(t)
<1>1. CASE Take(t)
  <2>1. PICK p \in queue : Goto(t, p.pt)
    BY <1>1 DEF Take
  <2>2. pc' = [pc EXCEPT ![t] = p.pt] /\ pc[t] = "idle"
    BY <1>1, <2>1 DEF Goto, Take
  <2>3. UNCHANGED <<room, pending, fresh, live>>
    BY <1>1 DEF Take, shared, clock
  <2>4. StartKept(t)
    BY <2>2, <2>3 DEF StartKept
  <2>5. ClockCarried(t)
    BY <2>2, <2>3 DEF ClockCarried, Bearer, Waiting
  <2> QED  BY <2>2, <2>4, <2>5 DEF Kept
<1>2. CASE Fire(t)
  <2>1. /\ t \in TimerIds /\ pc[t] = "idle" /\ pc' = [pc EXCEPT ![t] = "next"]
        /\ UNCHANGED room
    BY <1>2 DEF Fire, Waiting, Goto
  <2>2. pc'[t] = "next"
    BY <2>1 DEF Types
  <2>3. StartKept(t)
    BY <2>1 DEF StartKept
  <2>4. ClockCarried(t)
    BY <2>1, <2>2 DEF ClockCarried, Bearer
  <2> QED  BY <2>1, <2>3, <2>4 DEF Kept
<1> QED  BY <1>1, <1>2

\* A branch or a statement that leaves the status and the flags of the captains
\* alone, where the draft is not about to start and t bears no clock before, or
\* does so afterwards.
LEMMA PlainKept ==
  ASSUME Types, Timers, NEW t \in Threads, NEW from, NEW to, NEW r, Stmt(t, from, to, r),
         r.status = room.status, r.isReady = room.isReady,
         from \notin {"ready2", "start", "start1"},
         Bearer(t) => Bearer(t)' \/ derailed' \/ room.status \notin {"BAN", "PICK"}
  PROVE  Kept(t)
<1>1. /\ pc[t] = from /\ pc' = [pc EXCEPT ![t] = to] /\ room' = r
      /\ UNCHANGED <<pending, live, fresh>>
  BY StmtMoves DEF clock
<1>2. StartKept(t)
  BY <1>1 DEF StartKept
<1>3. ClockCarried(t)
  BY <1>1 DEF ClockCarried, Waiting
<1> QED  BY <1>1, <1>2, <1>3 DEF Kept

\* The same of a branch.
LEMMA BranchKept ==
  ASSUME Types, Timers, NEW t \in Threads, NEW from, NEW to, Branch(t, from, to),
         from \notin {"ready2", "start", "start1"},
         Bearer(t) => Bearer(t)' \/ derailed' \/ room.status \notin {"BAN", "PICK"}
  PROVE  Kept(t)
  BY PlainKept DEF Branch

\* The thread that sets a clock bears it until the task is scheduled; if another
\* has scheduled that task already, it is on its way.
LEMMA ScheduleKept ==
  ASSUME Types, Timers, NEW t \in Threads, NEW from, NEW new, NEW add, NEW to,
         Schedule(t, from, new, add, to),
         new \in {"start_timer", "rearm_timer"}, add \in {"start_schedule", "rearm_schedule"},
         from \in {"start2", "rearm"}
  PROVE  Kept(t)
<1>1. CASE /\ pc[t] = from /\ Goto(t, new)
           /\ fresh' = TRUE
           /\ UNCHANGED <<timer, live, pending, created, room, screen, shown, queue, loc>>
  <2>1. pc'[t] = new /\ pc' = [pc EXCEPT ![t] = new]
    BY <1>1 DEF Goto, Types
  <2>2. ClockCarried(t)
    BY <1>1, <2>1 DEF ClockCarried, Bearer
  <2>3. StartKept(t)
    BY <1>1 DEF StartKept
  <2> QED  BY <2>1, <2>2, <2>3 DEF Kept
<1>2. CASE /\ pc[t] = new /\ Goto(t, add)
           /\ created < at.timers
           /\ created' = created + 1 /\ timer' = created' /\ live' = TRUE
           /\ UNCHANGED <<fresh, pending, room, screen, shown, queue, loc>>
  <2>1. pc'[t] = add /\ pc' = [pc EXCEPT ![t] = add]
    BY <1>2 DEF Goto, Types
  <2>2. ClockCarried(t)
    <3>1. CASE fresh
      BY <1>2, <2>1, <3>1 DEF ClockCarried, Bearer
    <3>2. CASE ~fresh
      <4>1. ~Bearer(t)
        BY <1>2, <3>2 DEF Bearer
      <4> QED  BY <1>2, <4>1 DEF ClockCarried, Waiting
    <3> QED  BY <3>1, <3>2
  <2>3. StartKept(t)
    BY <1>2 DEF StartKept
  <2> QED  BY <2>1, <2>2, <2>3 DEF Kept
<1>3. CASE /\ pc[t] = add /\ Goto(t, to)
           /\ live /\ fresh
           /\ fresh' = FALSE /\ pending' = [pending EXCEPT ![timer] = @ + 1]
           /\ UNCHANGED <<timer, live, created, room, screen, shown, queue, loc>>
  <2>1. timer \in TimerIds /\ pending[timer] \in Nat
    BY ThreadAssumption DEF Timers, TimerIds
  <2>2. pending'[timer] > 0
    BY <1>3, <2>1 DEF Timers
  <2>3. Waiting' # {}
    BY <2>1, <2>2 DEF Waiting
  <2>4. StartKept(t)
    BY <1>3 DEF StartKept
  <2> QED  BY <1>3, <2>3, <2>4 DEF Kept, ClockCarried, Goto
<1>4. CASE ~(live /\ fresh) /\ Branch(t, add, "idle")
  <2>1. pc[t] = add
    BY <1>4, BranchMoves
  <2>2. ~Bearer(t)
    BY <1>4, <2>1 DEF Bearer
  <2> QED  BY <1>4, <2>2, BranchKept
<1> QED  BY <1>1, <1>2, <1>3, <1>4 DEF Schedule

\* A broadcast changes neither the start nor the clock.
LEMMA BroadcastKept ==
  ASSUME Types, Timers, NEW t \in Threads, NEW from, NEW to, NEW turn,
         Text(t, from, to) \/ Write(t, from, turn),
         from \in {"ready3", "ready4", "sync", "sync1"}
  PROVE  Kept(t)
<1>1. /\ pc[t] = from /\ \E l : pc' = [pc EXCEPT ![t] = l]
      /\ UNCHANGED <<room, pending, fresh, live>>
  BY DEF Text, Write, Return, Goto, shared, clock
<1>2. ~Bearer(t)
  BY <1>1 DEF Bearer
<1>3. StartKept(t) /\ ClockCarried(t)
  BY <1>1, <1>2 DEF StartKept, ClockCarried, Waiting
<1> QED  BY <1>1, <1>3 DEF Kept

\* A captain that has set its flag will look at both.
LEMMA ReadyKept ==
  ASSUME Types, Timers, NEW t \in Threads, Ready(t)
  PROVE  Kept(t)
<1>1. ASSUME NEW from \in {"READY", "ready1", "ready2"}, pc[t] = from
      PROVE  ~Bearer(t)
  BY <1>1 DEF Bearer
<1>2. ASSUME NEW to \in {"ready1", "idle"}, Branch(t, "READY", to)
      PROVE  Kept(t)
  BY <1>1, <1>2, BranchMoves, BranchKept
<1>3. CASE Stmt(t, "ready1", "ready2", [room EXCEPT !.isReady[loc[t].team] = TRUE])
  <2>1. /\ pc[t] = "ready1" /\ pc' = [pc EXCEPT ![t] = "ready2"] /\ pc'[t] = "ready2"
        /\ room' = [room EXCEPT !.isReady[loc[t].team] = TRUE]
        /\ UNCHANGED <<pending, live, fresh>>
    BY <1>3, StmtMoves DEF clock
  <2>2. room'.status = room.status
    BY <2>1 DEF Types, Rooms
  <2>3. StartKept(t)
    BY <2>1, <2>2 DEF StartKept
  <2>4. ClockCarried(t)
    BY <1>1, <2>1, <2>2 DEF ClockCarried, Waiting
  <2> QED  BY <2>1, <2>3, <2>4 DEF Kept
<1>4. ASSUME NEW to \in {"start", "ready3"}, Branch(t, "ready2", to),
             to = "ready3" => \E k \in Teams : ~room.isReady[k]
      PROVE  Kept(t)
  <2>1. /\ pc[t] = "ready2" /\ pc' = [pc EXCEPT ![t] = to] /\ pc'[t] = to
        /\ UNCHANGED <<room, pending, live, fresh>>
    BY <1>4, BranchMoves DEF clock
  <2>2. StartKept(t)
    BY <1>4, <2>1 DEF StartKept
  <2>3. ClockCarried(t)
    BY <1>1, <2>1 DEF ClockCarried, Waiting
  <2> QED  BY <2>1, <2>2, <2>3 DEF Kept
<1> QED  BY <1>2, <1>3, <1>4, BroadcastKept DEF Ready

\* A thread on its way to SetStatus(BAN) gets there, and then bears the clock.
LEMMA StartBanKept ==
  ASSUME Types, Timers, NEW t \in Threads, StartBan(t)
  PROVE  Kept(t)
<1>1. ASSUME NEW to \in {"ready3", "start1"}, Branch(t, "start", to),
             to = "ready3" => room.status = "BAN"
      PROVE  Kept(t)
  <2>1. /\ pc[t] = "start" /\ pc' = [pc EXCEPT ![t] = to] /\ pc'[t] = to
        /\ UNCHANGED <<room, pending, live, fresh>>
    BY <1>1, BranchMoves DEF clock
  <2>2. StartKept(t)
    BY <1>1, <2>1 DEF StartKept
  <2>3. ~Bearer(t)
    BY <2>1 DEF Bearer
  <2>4. ClockCarried(t)
    BY <2>1, <2>3 DEF ClockCarried, Waiting
  <2> QED  BY <2>1, <2>2, <2>4 DEF Kept
<1>2. CASE Stmt(t, "start1", "start2", [room EXCEPT !.status = "BAN", !.Json.Status = "BAN"])
  <2>1. /\ pc[t] = "start1" /\ pc' = [pc EXCEPT ![t] = "start2"] /\ pc'[t] = "start2"
        /\ room' = [room EXCEPT !.status = "BAN", !.Json.Status = "BAN"]
    BY <1>2, StmtMoves
  <2>2. room'.status = "BAN" /\ room'.isReady = room.isReady
    BY <2>1 DEF Types, Rooms
  <2>3. StartKept(t)
    BY <2>2 DEF StartKept
  <2>4. ClockCarried(t)
    BY <2>1 DEF ClockCarried, Bearer
  <2> QED  BY <2>1, <2>3, <2>4 DEF Kept
<1>3. CASE Schedule(t, "start2", "start_timer", "start_schedule", "start3")
  BY <1>3, ScheduleKept
<1>4. ASSUME NEW from \in {"start3", "start4"}, NEW to, NEW r, Stmt(t, from, to, r),
             r.status = room.status, r.isReady = room.isReady
      PROVE  Kept(t)
  <2>1. ~Bearer(t)
    BY <1>4, StmtMoves DEF Bearer
  <2> QED  BY <1>4, <2>1, PlainKept
<1>5. /\ [room EXCEPT !.Json.banFlage = room.banFlage].status = room.status
      /\ [room EXCEPT !.Json.banFlage = room.banFlage].isReady = room.isReady
      /\ [room EXCEPT !.nowCtrl = 0, !.Json.nowCtrl = 0].status = room.status
      /\ [room EXCEPT !.nowCtrl = 0, !.Json.nowCtrl = 0].isReady = room.isReady
  BY DEF Types, Rooms
<1> QED  BY <1>1, <1>2, <1>3, <1>4, <1>5 DEF StartBan

\* CHOOSE and PREVIEW touch neither.
LEMMA ChooseKept ==
  ASSUME Types, Timers, NEW t \in Threads, Choose(t) \/ Preview(t), History(t)
  PROVE  Kept(t)
<1>1. ASSUME NEW from \in {"CHOOSE", "PREVIEW", "preview1", "preview2"}, pc[t] = from
      PROVE  ~Bearer(t)
  BY <1>1 DEF Bearer
<1>2. ASSUME NEW from \in {"CHOOSE", "PREVIEW", "preview2"}, NEW to, Branch(t, from, to)
      PROVE  Kept(t)
  BY <1>1, <1>2, BranchMoves, BranchKept
<1>3. ASSUME NEW r, Stmt(t, "preview1", "preview2", r),
             r.status = room.status, r.isReady = room.isReady
      PROVE  Kept(t)
  BY <1>1, <1>3, StmtMoves, PlainKept
<1>4. ASSUME pc[t] = "preview2", Return(t), UNCHANGED <<room, clock, screen, queue>>
      PROVE  Kept(t)
  BY <1>1, <1>4 DEF Return, Goto, clock, Kept, StartKept, ClockCarried, Waiting
<1>5. /\ [room EXCEPT !.previewNum = loc[t].num].status = room.status
      /\ [room EXCEPT !.previewNum = loc[t].num].isReady = room.isReady
  BY DEF Types, Rooms
<1> QED  BY <1>2, <1>3, <1>4, <1>5 DEF Choose, Preview

\* The task that fires bears the clock until it has cancelled it; then, and from
\* then on in a choice too, whoever runs the turn bears it.
LEMMA NextProcessKept ==
  ASSUME Types, Timers, NEW t \in Threads, NextProcess(t), History(t)
  PROVE  Kept(t)
<1> DEFINE choose == loc[t].num
<1>1. /\ [room EXCEPT !.previewNum = 0].status = room.status
      /\ [room EXCEPT !.previewNum = 0].isReady = room.isReady
      /\ [room EXCEPT !.chosen = @ \cup ({choose} \ {0})].status = room.status
      /\ [room EXCEPT !.chosen = @ \cup ({choose} \ {0})].isReady = room.isReady
  BY DEF Types, Rooms
<1>2. ASSUME NEW from \in {"next", "next1", "next2"}, NEW to \in {"next1", "next2", "next3"},
             NEW r, Stmt(t, from, to, r), r.status = room.status, r.isReady = room.isReady
      PROVE  Kept(t)
  <2>1. pc[t] = from /\ pc'[t] = to
    BY <1>2, StmtMoves
  <2>2. Bearer(t) => Bearer(t)'
    BY <2>1 DEF Bearer
  <2> QED  BY <1>2, <2>2, PlainKept
<1>3. CASE Branch(t, "next1", "idle")
  <2>1. pc[t] = "next1" /\ pc'[t] = "idle"
    BY <1>3, BranchMoves
  <2>2. Bearer(t) => derailed'
    BY <2>1 DEF Bearer, History, Derail
  <2> QED  BY <1>3, <2>2, BranchKept
<1>4. ASSUME pc[t] = "next3", Goto(t, "next4"), UNCHANGED room
      PROVE  Kept(t)
  <2>1. pc'[t] = "next4" /\ pc' = [pc EXCEPT ![t] = "next4"]
    BY <1>4 DEF Goto, Types
  <2> QED  BY <1>4, <2>1 DEF Kept, StartKept, ClockCarried, Bearer
<1>5. ASSUME NEW to \in {"ban", "pick", "rearm"}, Branch(t, "next4", to)
      PROVE  Kept(t)
  <2>1. pc'[t] = to
    BY <1>5, BranchMoves
  <2>2. Bearer(t)'
    BY <2>1 DEF Bearer
  <2> QED  BY <1>5, <2>2, BranchKept
<1>6. ASSUME NEW to \in {"next2"}, Branch(t, "next1", to)
      PROVE  Kept(t)
  BY <1>2, <1>6 DEF Branch
<1> QED  BY <1>1, <1>2, <1>3, <1>4, <1>5, <1>6 DEF NextProcess

\* A turn hands the clock on, or the thread gives it up half-way.
LEMMA TurnKept ==
  ASSUME Types, Timers, NEW t \in Threads, BanTurn(t) \/ PickTurn(t), History(t)
  PROVE  Kept(t)
<1> DEFINE B == {"ban", "ban1", "ban2", "ban3", "ban4", "ban5", "ban6"}
           P == {"pick", "pick1", "pick2", "pick3", "pick4", "pick5"}
<1>1. ASSUME NEW from \in B \cup P, NEW to \in B \cup P \cup {"rearm"}, NEW r,
             Stmt(t, from, to, r), r.isReady = room.isReady, r.status # "WAIT"
             \/ r.status = room.status
      PROVE  Kept(t)
  <2>1. pc[t] = from /\ pc'[t] = to /\ room' = r /\ pc' = [pc EXCEPT ![t] = to]
    BY <1>1, StmtMoves
  <2>2. Bearer(t)'
    BY <2>1 DEF Bearer
  <2>3. StartKept(t)
    BY <1>1, <2>1 DEF StartKept
  <2> QED  BY <2>1, <2>2, <2>3 DEF Kept, ClockCarried
<1>2. ASSUME NEW from \in {"ban", "ban3", "pick", "pick3"}, Branch(t, from, "idle")
      PROVE  Kept(t)
  <2>1. pc[t] = from /\ pc'[t] = "idle"
    BY <1>2, BranchMoves
  <2>2. derailed'
    BY <2>1 DEF History, Derail
  <2> QED  BY <1>2, <2>2, BranchKept
<1>3. ASSUME NEW from \in {"ban1", "pick1"}, NEW to \in {"ban2", "pick2"},
             pc[t] = from, Goto(t, to), UNCHANGED <<shared, queue>>
      PROVE  Kept(t)
  <2>1. pc'[t] = to /\ pc' = [pc EXCEPT ![t] = to] /\ UNCHANGED room
    BY <1>3 DEF Goto, Types, shared
  <2>2. Bearer(t)'
    BY <2>1 DEF Bearer
  <2> QED  BY <1>3, <2>1, <2>2 DEF Kept, StartKept, ClockCarried
<1>4. CASE BanTurn(t)
  <2> DEFINE f == room.banFlage
  <2>1. /\ [room EXCEPT !.banData[f] = loc[t].num].status = room.status
        /\ [room EXCEPT !.banData[f] = loc[t].num].isReady = room.isReady
        /\ [room EXCEPT !.banFlage = loc[t].flag + 1].status = room.status
        /\ [room EXCEPT !.banFlage = loc[t].flag + 1].isReady = room.isReady
        /\ \A c : /\ [room EXCEPT !.nowCtrl = c].status = room.status
                  /\ [room EXCEPT !.nowCtrl = c].isReady = room.isReady
    BY DEF Types, Rooms
  <2>2. /\ \A c : /\ [room EXCEPT !.Json.nowCtrl = c].status = room.status
                  /\ [room EXCEPT !.Json.nowCtrl = c].isReady = room.isReady
        /\ [room EXCEPT !.Json.banFlage = f].status = room.status
        /\ [room EXCEPT !.Json.banFlage = f].isReady = room.isReady
    BY DEF Types, Rooms
  <2>3. \A j : LET r == [room EXCEPT !.status = "PICK", !.Json.Status = "PICK",
                                     !.Json.pickFlage = j]
               IN r.status = "PICK" /\ r.isReady = room.isReady
    BY DEF Types, Rooms
  <2> QED  BY <1>1, <1>2, <1>3, <1>4, <2>1, <2>2, <2>3 DEF BanTurn
<1>5. CASE PickTurn(t)
  <2> DEFINE f == room.pickFlage
  <2>1. /\ [room EXCEPT !.pickData[f] = loc[t].num].status = room.status
        /\ [room EXCEPT !.pickData[f] = loc[t].num].isReady = room.isReady
        /\ [room EXCEPT !.pickFlage = loc[t].flag + 1].status = room.status
        /\ [room EXCEPT !.pickFlage = loc[t].flag + 1].isReady = room.isReady
        /\ \A c : /\ [room EXCEPT !.nowCtrl = c].status = room.status
                  /\ [room EXCEPT !.nowCtrl = c].isReady = room.isReady
    BY DEF Types, Rooms
  <2>2. /\ \A c : /\ [room EXCEPT !.Json.nowCtrl = c].status = room.status
                  /\ [room EXCEPT !.Json.nowCtrl = c].isReady = room.isReady
        /\ [room EXCEPT !.Json.pickFlage = f].status = room.status
        /\ [room EXCEPT !.Json.pickFlage = f].isReady = room.isReady
    BY DEF Types, Rooms
  <2>3. LET r == [room EXCEPT !.status = "END", !.Json.Status = "END"]
        IN r.status = "END" /\ r.isReady = room.isReady
    BY DEF Types, Rooms
  <2> QED  BY <1>1, <1>2, <1>3, <1>5, <2>1, <2>2, <2>3 DEF PickTurn
<1> QED  BY <1>4, <1>5

\* The end of nextProcess schedules, or the draft is over.
LEMMA EndProcessKept ==
  ASSUME Types, Timers, NEW t \in Threads, EndProcess(t)
  PROVE  Kept(t)
<1>1. CASE Branch(t, "rearm", "sync") /\ room.status = "END"
  BY <1>1, BranchKept
<1> QED  BY <1>1, ScheduleKept, BroadcastKept DEF EndProcess

\* What every step keeps.
LEMMA StepKept ==
  ASSUME Types, Timers, NEW t \in Threads, Step(t), History(t)
  PROVE  Kept(t)
  BY BeginsKept, ReadyKept, StartBanKept, ChooseKept, NextProcessKept, TurnKept,
     EndProcessKept DEF Step

\* The label of every other thread stays, and so does what it bears as long as
\* the clock is not touched.
LEMMA StartCarried ==
  ASSUME Types, StartComes, NEW t \in Threads, Kept(t)
  PROVE  StartComes'
<1> SUFFICES ASSUME \A k \in Teams : room'.isReady[k], room'.status = "WAIT"
             PROVE  \E u \in Threads : pc'[u] \in {"ready2", "start", "start1"}
  BY DEF StartComes
<1>1. PICK to : pc' = [pc EXCEPT ![t] = to]
  BY DEF Kept
<1>2. \A u \in Threads : u # t => pc'[u] = pc[u]
  BY <1>1
<1>3. CASE room'.isReady = room.isReady
  <2>1. PICK u \in Threads : pc[u] \in {"ready2", "start", "start1"}
    BY <1>3 DEF Kept, StartKept, StartComes
  <2> QED  BY <1>2, <2>1 DEF Kept, StartKept
<1> QED  BY <1>3 DEF Kept, StartKept

\* Whoever bore the clock still does, or something is scheduled.
LEMMA ClockCarriedOn ==
  ASSUME Types, ClockHeld, NEW t \in Threads, Kept(t), History(t)
  PROVE  ClockHeld'
<1> SUFFICES ASSUME room'.status \in {"BAN", "PICK"}, ~derailed', Waiting' = {}
             PROVE  \E u \in Threads : Bearer(u)'
  BY DEF ClockHeld
<1>1. PICK to : pc' = [pc EXCEPT ![t] = to]
  BY DEF Kept
<1>2. \A u \in Threads : u # t => pc'[u] = pc[u]
  BY <1>1
<1>3. CASE /\ ~Bearer(t) /\ Waiting' = Waiting /\ (fresh => fresh') /\ (live => live')
           /\ room'.status = room.status
  <2>1. PICK u \in Threads : Bearer(u)
    BY <1>3 DEF ClockHeld, History
  <2>2. pc'[u] = pc[u]
    BY <1>2, <1>3, <2>1
  <2>3. Bearer(u)'
    BY <1>3, <2>1, <2>2 DEF Bearer
  <2> QED  BY <2>3
<1> QED  BY <1>3 DEF Kept, ClockCarried

\* The invariant holds at first: a draft under way has its task.
LEMMA Initial == Init => IInv
<1> SUFFICES ASSUME Init  PROVE IInv
  OBVIOUS
<1>1. at \in Starts /\ room = RoomAt(at.bans, at.picks)
  BY DEF Init
<1>2. /\ at.bans \in 0 .. 2 * BanCount /\ at.picks \in PickSlots
      /\ at.timers \in 1 .. MaxTimers
      /\ BanCount \in Nat \ {0} /\ MaxTimers \in Nat
  BY <1>1, StartAssumption, BanCountAssumption, ThreadAssumption
<1>3. room \in Rooms
  <2>1. (IF at.bans < 2 * BanCount THEN banProcess[at.bans] ELSE pickProcess[at.picks]) \in Teams
    BY <1>2, Owners DEF BanSlots
  <2> QED  BY <1>1, <1>2, <2>1 DEF RoomAt, Rooms, Jsons, Statuses, PickSlots, Empty
<1>4. Types
  <2>1. NoLocals \in Locals
    BY DEF NoLocals, Locals, Teams
  <2>2. loc \in [Threads -> Locals] /\ DOMAIN pc = Threads
    BY <2>1 DEF Init
  <2>3. /\ queue \subseteq at.packets
        /\ live \in BOOLEAN /\ fresh \in BOOLEAN /\ derailed \in BOOLEAN
    BY DEF Init
  <2> QED  BY <1>1, <1>3, <2>2, <2>3 DEF Types
<1>5. Timers
  BY <1>2 DEF Init, Timers, TimerIds
<1>6. StartComes
  BY <1>1 DEF RoomAt, StartComes, Teams
<1>7. ClockHeld
  <2>1. room.status # "WAIT" => 1 \in Waiting
    BY <1>2 DEF Init, Waiting, TimerIds
  <2> QED  BY <2>1 DEF ClockHeld
<1> QED  BY <1>4, <1>5, <1>6, <1>7 DEF IInv

\* And every step keeps it.
LEMMA Inductive == IInv /\ [Next]_vars => IInv'
<1> SUFFICES ASSUME IInv, [Next]_vars  PROVE IInv'
  OBVIOUS
<1>1. Types' /\ Timers'
  BY TypesStep DEF IInv
<1>2. CASE UNCHANGED vars
  BY <1>1, <1>2 DEF IInv, StartComes, ClockHeld, Waiting, Bearer, vars, shared, clock
<1>3. ASSUME NEW t \in Threads, Step(t), History(t)
      PROVE  StartComes' /\ ClockHeld'
  BY <1>3, StepKept, StartCarried, ClockCarriedOn DEF IInv
<1> QED  BY <1>1, <1>2, <1>3 DEF IInv, Next

\* The inductive invariant: types, who will begin the draft, who bears the clock.
THEOREM Invariance == Spec => []IInv
  BY Initial, Inductive, PTL DEF Spec

\* The start of the draft is never lost between two READY packets.
THEOREM StartIsNotLost == Spec => []StartNotLost
<1>1. IInv => StartNotLost
  <2> SUFFICES ASSUME IInv, Busy = {}, \A t \in Teams : room.isReady[t]
               PROVE  room.status # "WAIT"
    BY DEF StartNotLost
  <2>1. \A t \in Threads : pc[t] = "idle"
    BY DEF Busy
  <2> QED  BY <2>1 DEF IInv, StartComes
<1> QED  BY <1>1, Invariance, PTL

\* However the handlers overlap, a running draft that is left without a timeout
\* is one whose turn a thread gave up or whose timeout was refused.
THEOREM ClockIsKept == Spec => []ClockKept
<1>1. IInv => ClockKept
  <2> SUFFICES ASSUME IInv, Busy = {}, room.status \in {"BAN", "PICK"}, ~derailed
               PROVE  Waiting # {}
    BY DEF ClockKept
  <2>1. \A t \in Threads : pc[t] = "idle"
    BY DEF Busy
  <2>2. \A t \in Threads : ~Bearer(t)
    BY <2>1 DEF Bearer
  <2> QED  BY <2>2 DEF IInv, ClockHeld
<1> QED  BY <1>1, Invariance, PTL
-----------------------------------------------------------------------------
\* Where handlers do not overlap: what the one in progress has done so far to
\* the room that it found, which is the room in settled.

Found   == settled.room
Nums    == {p.num : p \in Packets} \cup {0}
Armed   == timer \in Waiting
Orphans == Cardinality(Waiting \ {timer})
ClockSame == Armed = settled.armed /\ Orphans = settled.orphans

\* READY: the captain's flag; then the draft begins.
Marked(team)  == [Found EXCEPT !.isReady[team] = TRUE]
Begun(team)   == [Marked(team) EXCEPT !.status = "BAN", !.Json.Status = "BAN"]
Opened(team)  == [Begun(team) EXCEPT !.Json.banFlage = Found.banFlage]
Started(team) == [Opened(team) EXCEPT !.nowCtrl = 0, !.Json.nowCtrl = 0]
AllReady(team) == \A k \in Teams : Marked(team).isReady[k]
OneMore == Orphans = settled.orphans + IF settled.armed THEN 1 ELSE 0
ReadyDone(team) ==
  /\ team \in Teams /\ Found.status = "WAIT"
  /\ \/ room = Marked(team) /\ ClockSame /\ ~AllReady(team)
     \/ room = Started(team) /\ Armed /\ OneMore /\ AllReady(team)

\* Who calls nextProcess with n: a captain, the room's task or a task it lost.
\* cur and orph say what is scheduled when it does.
Called(n, cur, orph) ==
  \/ n \in Nums /\ cur = settled.armed /\ orph = settled.orphans
  \/ n = Found.previewNum /\ settled.armed /\ cur = FALSE /\ orph = settled.orphans
  \/ n = Found.previewNum /\ settled.orphans > 0
     /\ cur = settled.armed /\ orph = settled.orphans - 1
Taking(n) == /\ n < MaxHeroCount /\ (n = 0 \/ n \notin Found.chosen)
             /\ \E cur \in BOOLEAN : Called(n, cur, Orphans)

\* nextProcess(n): the preview, the hero, and the turn.
Cleared  == [Found EXCEPT !.previewNum = 0]
Took(n)  == [Cleared EXCEPT !.chosen = @ \cup ({n} \ {0})]
BanAt    == Found.banFlage
Ban1(n)  == [Took(n) EXCEPT !.banData[BanAt] = n]
Ban3(n)  == [Ban1(n) EXCEPT !.banFlage = BanAt + 1]
Ban4(n)  == [Ban3(n) EXCEPT !.status = "PICK", !.Json.Status = "PICK",
                            !.Json.pickFlage = Found.pickFlage]
Ban5(n)  == IF BanAt + 1 = 2 * BanCount THEN [Ban4(n) EXCEPT !.nowCtrl = 0]
            ELSE [Ban3(n) EXCEPT !.nowCtrl = banProcess[BanAt + 1]]
Ban6(n)  == [Ban5(n) EXCEPT !.Json.nowCtrl = Ban5(n).nowCtrl]
Banned(n) == [Ban6(n) EXCEPT !.Json.banFlage = BanAt + 1]
PickAt   == Found.pickFlage
Pick1(n) == [Took(n) EXCEPT !.pickData[PickAt] = n]
Pick3(n) == [Pick1(n) EXCEPT !.pickFlage = PickAt + 1]
Pick4(n) == IF PickAt + 1 = 10 THEN [Pick3(n) EXCEPT !.status = "END", !.Json.Status = "END"]
            ELSE [Pick3(n) EXCEPT !.nowCtrl = pickProcess[PickAt + 1]]
Pick5(n) == [Pick4(n) EXCEPT !.Json.nowCtrl = Pick4(n).nowCtrl]
Picked(n) == [Pick5(n) EXCEPT !.Json.pickFlage = PickAt + 1]
Turned(n) == CASE Found.status = "BAN" -> Banned(n)
               [] Found.status = "PICK" -> Picked(n)
               [] OTHER -> Took(n)
TurnDone(n) == Taking(n) /\ room = Turned(n) /\ Armed = (room.status # "END")

\* What is so when thread t is at a label of READY, ...
InReady(t) ==
  LET team == loc[t].team
  IN /\ pc[t] = "READY" => room = Found /\ ClockSame
     /\ pc[t] = "ready1" => room = Found /\ ClockSame /\ Found.status = "WAIT"
     /\ pc[t] = "ready2" => room = Marked(team) /\ ClockSame /\ Found.status = "WAIT"
     /\ pc[t] \in {"start", "start1"} =>
          room = Marked(team) /\ ClockSame /\ Found.status = "WAIT" /\ AllReady(team)
     /\ pc[t] \in {"start2", "start_timer", "start_schedule", "start3", "start4"} =>
          Found.status = "WAIT" /\ AllReady(team)
     /\ pc[t] \in {"start2", "start_timer"} => room = Begun(team) /\ ClockSame
     /\ pc[t] = "start_timer" => fresh
     /\ pc[t] = "start_schedule" => room = Begun(team) /\ ~Armed /\ OneMore /\ fresh /\ live
     /\ pc[t] = "start3" => room = Begun(team) /\ Armed /\ OneMore
     /\ pc[t] = "start4" => room = Opened(team) /\ Armed /\ OneMore
     /\ pc[t] = "ready3" => ReadyDone(team)
     /\ pc[t] = "ready4" => loc[t].data = Snapshot(room) /\ \E k \in Teams : ReadyDone(k)

\* ... of CHOOSE and PREVIEW, ...
InPacket(t) ==
  /\ pc[t] \in {"CHOOSE", "PREVIEW", "preview1"} => room = Found
  /\ pc[t] \in {"CHOOSE", "PREVIEW", "preview1", "preview2"} =>
       t \in PackThreads /\ ClockSame /\ loc[t].num \in Nums
  /\ pc[t] \in {"preview1", "preview2"} => loc[t].num = 0 \/ loc[t].num \notin Found.chosen
  /\ pc[t] = "preview2" => room = [Found EXCEPT !.previewNum = loc[t].num]

\* ... and of nextProcess.
InTurn(t) ==
  LET n == loc[t].num
  IN /\ pc[t] = "next" => room = Found
     /\ pc[t] \in {"next1", "next2"} => room = Cleared
     /\ pc[t] \in {"next", "next1"} => Called(n, Armed, Orphans)
     /\ pc[t] \in {"next2", "next3"} => Taking(n)
     /\ pc[t] \in {"next3", "next4", "ban", "pick"} => room = Took(n)
     /\ pc[t] \in {"next4", "ban", "ban1", "ban2", "ban3", "ban4", "ban5", "ban6", "pick",
                   "pick1", "pick2", "pick3", "pick4", "pick5", "rearm", "rearm_timer",
                   "rearm_schedule"} => Taking(n) /\ ~Armed
     /\ pc[t] \in {"ban", "ban1", "ban2", "ban3", "ban4", "ban5", "ban6"} => Found.status = "BAN"
     /\ pc[t] \in {"pick", "pick1", "pick2", "pick3", "pick4", "pick5"} => Found.status = "PICK"
     /\ pc[t] \in {"ban1", "ban2"} => room = Ban1(n)
     /\ pc[t] = "ban2" => loc[t].flag = BanAt
     /\ pc[t] = "ban3" => room = Ban3(n)
     /\ pc[t] = "ban4" => room = Ban4(n) /\ BanAt + 1 = 2 * BanCount
     /\ pc[t] = "ban5" => room = Ban5(n)
     /\ pc[t] = "ban6" => room = Ban6(n)
     /\ pc[t] \in {"pick1", "pick2"} => room = Pick1(n)
     /\ pc[t] = "pick2" => loc[t].flag = PickAt
     /\ pc[t] = "pick3" => room = Pick3(n)
     /\ pc[t] = "pick4" => room = Pick4(n)
     /\ pc[t] = "pick5" => room = Pick5(n)
     /\ pc[t] \in {"rearm", "rearm_timer", "rearm_schedule"} => room = Turned(n)
     /\ pc[t] \in {"rearm_timer", "rearm_schedule"} => fresh /\ room.status # "END"
     /\ pc[t] = "rearm_schedule" => live
     /\ pc[t] = "sync" => TurnDone(n)
     /\ pc[t] = "sync1" => loc[t].data = Snapshot(room) /\ \E k \in Int : TurnDone(k)

\* The room between two handlers.
FoundRight ==
  /\ settled = [room |-> Found, armed |-> settled.armed, orphans |-> settled.orphans,
                screen |-> settled.screen, shown |-> settled.shown]
  /\ Found \in Rooms /\ settled.armed \in BOOLEAN /\ settled.orphans \in Nat
  /\ Found.Json.Status = Found.status
  /\ Found.status = "WAIT" => Found.banFlage = 0 /\ Found.pickFlage = 0
  /\ Found.status = "BAN" => Found.banFlage < 2 * BanCount /\ Found.pickFlage = 0
  /\ Found.status = "PICK" => Found.pickFlage < 10

\* A Timer has one task at most.
OneTask == \A k \in TimerIds : pending[k] \in {0, 1} /\ (k > created => pending[k] = 0)

Alone ==
  /\ FoundRight /\ OneTask
  /\ Busy = {} => settled = Rest
  /\ \A t \in Busy : Busy = {t} /\ screen = settled.screen /\ shown = settled.shown
                     /\ InReady(t) /\ InPacket(t) /\ InTurn(t)
AloneRight == ~at.overlap => Alone

-----------------------------------------------------------------------------
\* What is scheduled is a finite set of Timers.
LEMMA WaitingFinite == Waiting \subseteq TimerIds /\ IsFiniteSet(Waiting)
<1>1. IsFiniteSet(TimerIds)
  BY FS_Interval, ThreadAssumption, 1 \in Int, MaxTimers \in Int DEF TimerIds
<1>2. Waiting \subseteq TimerIds
  BY DEF Waiting
<1> QED  BY <1>1, <1>2, FS_Subset

\* The tasks the room has lost can be counted.
LEMMA OrphansType == Orphans \in Nat
<1>1. IsFiniteSet(Waiting \ {timer})
  BY WaitingFinite, FS_Subset
<1> QED  BY <1>1, FS_CardinalityType DEF Orphans

\* Where the clock is not touched, what is armed stays.
LEMMA ClockStays ==
  ASSUME UNCHANGED <<timer, pending>>
  PROVE  /\ Armed' = Armed /\ Orphans' = Orphans
         /\ created' = created /\ OneTask => OneTask'
  BY DEF Armed, Orphans, Waiting, OneTask

\* timer.cancel(): the task of the Timer in the field is gone.
LEMMA CancelClock ==
  ASSUME Timers, OneTask,
         pending' = [k \in TimerIds |-> IF k = timer THEN 0 ELSE pending[k]],
         UNCHANGED <<timer, created>>
  PROVE  ~Armed' /\ Orphans' = Orphans /\ OneTask'
<1>1. OneTask'
  BY DEF OneTask
<1>2. Waiting' = Waiting \ {timer}
  BY DEF Waiting
<1>3. ~Armed'
  BY <1>2 DEF Armed
<1>4. Waiting' \ {timer'} = Waiting \ {timer}
  BY <1>2
<1> QED  BY <1>1, <1>3, <1>4 DEF Orphans

\* new Timer(): what is scheduled on the old one is lost to the room.
LEMMA NewClock ==
  ASSUME Timers, Timers', OneTask, created' = created + 1, timer' = created', UNCHANGED pending
  PROVE  /\ ~Armed' /\ OneTask'
         /\ Orphans' = Orphans + IF Armed THEN 1 ELSE 0
<1>1. timer' \in TimerIds /\ timer' > created /\ timer # timer'
  BY ThreadAssumption DEF Timers, TimerIds
<1>2. Waiting' = Waiting /\ timer' \notin Waiting
  BY <1>1 DEF Waiting, OneTask
<1>3. OneTask'
  BY <1>1 DEF OneTask, TimerIds, Timers
<1>4. Orphans' = Cardinality(Waiting)
  <2>1. Waiting' \ {timer'} = Waiting
    BY <1>2
  <2> QED  BY <2>1 DEF Orphans
<1>5. CASE Armed
  <2>1. Cardinality(Waiting \ {timer}) = Cardinality(Waiting) - 1
    BY <1>5, WaitingFinite, FS_RemoveElement DEF Armed
  <2>2. Cardinality(Waiting) \in Nat
    BY WaitingFinite, FS_CardinalityType
  <2> QED  BY <1>2, <1>3, <1>4, <1>5, <2>1, <2>2 DEF Orphans, Armed
<1>6. CASE ~Armed
  <2>1. Waiting \ {timer} = Waiting
    BY <1>6 DEF Armed
  <2>2. Orphans' = Orphans
    BY <1>4, <2>1 DEF Orphans
  <2>3. ~Armed'
    BY <1>2 DEF Armed
  <2> QED  BY <1>3, <1>6, <2>2, <2>3, OrphansType
<1> QED  BY <1>5, <1>6

\* timer.schedule(task): the room's Timer has its task.
LEMMA AddClock ==
  ASSUME Timers, OneTask, ~Armed,
         pending' = [pending EXCEPT ![timer] = @ + 1], UNCHANGED <<timer, created>>
  PROVE  Armed' /\ Orphans' = Orphans /\ OneTask'
<1>1. timer \in TimerIds /\ timer <= created /\ created \in Nat
  BY ThreadAssumption DEF Timers, TimerIds
<1>2. pending[timer] = 0
  BY <1>1 DEF OneTask, Armed, Waiting
<1>3. pending' = [pending EXCEPT ![timer] = 1]
  BY <1>2
<1>4. OneTask'
  BY <1>1, <1>3 DEF OneTask, Timers, TimerIds
<1>5. Waiting' = Waiting \cup {timer}
  BY <1>1, <1>3 DEF Waiting, Timers
<1>6. Waiting' \ {timer'} = Waiting \ {timer}
  BY <1>5
<1> QED  BY <1>4, <1>5, <1>6 DEF Armed, Orphans

\* A task starts: the room's own, or one that the room has lost.
LEMMA FireClock ==
  ASSUME Timers, OneTask, NEW t \in Waiting,
         pending' = [pending EXCEPT ![t] = @ - 1], UNCHANGED <<timer, created>>
  PROVE  /\ OneTask'
         /\ \/ Armed /\ ~Armed' /\ Orphans' = Orphans
            \/ Armed' = Armed /\ Orphans > 0 /\ Orphans' = Orphans - 1
<1>1. t \in TimerIds /\ pending[t] = 1
  BY DEF Waiting, OneTask
<1>2. pending' = [pending EXCEPT ![t] = 0]
  BY <1>1
<1>3. OneTask'
  BY <1>1, <1>2 DEF OneTask, Timers, TimerIds
<1>4. Waiting' = Waiting \ {t}
  BY <1>1, <1>2 DEF Waiting, Timers
<1>5. CASE t = timer
  <2>1. Waiting' \ {timer'} = Waiting \ {timer}
    BY <1>4, <1>5
  <2> QED  BY <1>3, <1>4, <1>5, <2>1 DEF Armed, Orphans
<1>6. CASE t # timer
  <2> DEFINE W == Waiting \ {timer}
  <2>1. Waiting' \ {timer'} = W \ {t} /\ t \in W
    BY <1>4, <1>6
  <2>2. IsFiniteSet(W)
    BY WaitingFinite, FS_Subset
  <2>3. Cardinality(W \ {t}) = Cardinality(W) - 1
    BY <2>1, <2>2, FS_RemoveElement
  <2>4. Cardinality(W \ {t}) \in Nat
    BY <2>2, FS_Subset, FS_CardinalityType
  <2>5. Armed' = Armed
    BY <1>4, <1>6 DEF Armed
  <2>6. Orphans = Cardinality(W) /\ Orphans' = Cardinality(W \ {t})
    BY <2>1 DEF Orphans
  <2>7. Cardinality(W) \in Nat
    BY <2>2, FS_CardinalityType
  <2> HIDE DEF W
  <2> QED  BY <1>3, <2>3, <2>4, <2>5, <2>6, <2>7
<1> QED  BY <1>5, <1>6

-----------------------------------------------------------------------------
\* The whole handlers, as steps of LOLM3BanRoom between two rooms at rest.

\* Both captains are linked, and a captain is in control if its team is.
LEMMA Captains ==
  \A c \in Teams : Room!Linked(c) /\ (c = Found.nowCtrl => Room!InControl(c))
                   /\ (Room!InControl(c) => c = Found.nowCtrl)
<1> DEFINE all == <<(<<0, 0>>), (<<1, 1>>)>>
<1>1. DOMAIN all = {1, 2} /\ all[1] = <<0, 0>> /\ all[2] = <<1, 1>>
  OBVIOUS
<1>2. \A c \in Teams : Room!Linked(c)
  BY <1>1 DEF Room!Linked, Teams
<1>3. \A c \in Teams, k \in {1, 2} : Room!findPlayer(c, k) <=> k = c + 1
  BY <1>1 DEF Room!findPlayer, Teams
<1>4. \A c \in Teams : Room!InControl(c) <=> c = Found.nowCtrl
  BY <1>1, <1>3 DEF Room!InControl, Found, Teams
<1> QED  BY <1>2, <1>4

\* A call of nextProcess, whoever makes it, is a step of the room.
LEMMA CallIsAStep ==
  ASSUME Found \in Rooms, NEW n, NEW cur, Called(n, cur, settled'.orphans),
         Room!nextProcess(n, cur)
  PROVE  Room!Next
<1>1. CASE n \in Nums /\ cur = settled.armed /\ settled'.orphans = settled.orphans
  <2>1. Found.nowCtrl \in Teams
    BY DEF Rooms
  <2>2. Room!Choose(Found.nowCtrl, n)
    BY <1>1, <2>1, Captains DEF Room!Choose
  <2> QED  BY <1>1, <2>1, <2>2 DEF Room!Next, Nums
<1>2. CASE n = Found.previewNum /\ settled.armed /\ cur = FALSE
           /\ settled'.orphans = settled.orphans
  <2>1. Room!TimerFires
    BY <1>2 DEF Room!TimerFires, Found
  <2> QED  BY <2>1 DEF Room!Next
<1>3. CASE n = Found.previewNum /\ settled.orphans > 0
           /\ cur = settled.armed /\ settled'.orphans = settled.orphans - 1
  <2>1. Room!OrphanFires
    BY <1>3 DEF Room!OrphanFires, Found
  <2> QED  BY <2>1 DEF Room!Next
<1> QED  BY <1>1, <1>2, <1>3 DEF Called

\* What the room at rest is after a handler that ends.
LEMMA RestFields ==
  ASSUME settled' = Rest'
  PROVE  /\ Found' = room' /\ settled'.armed = Armed' /\ settled'.orphans = Orphans'
         /\ settled'.screen = screen' /\ settled'.shown = shown'
         /\ settled' = [room |-> Found', armed |-> settled'.armed, orphans |-> settled'.orphans,
                        screen |-> settled'.screen, shown |-> settled'.shown]
         /\ settled'.armed \in BOOLEAN
  BY DEF Found, Rest, Armed, Orphans

\* The room at rest is right if the room is when the handler ends.
LEMMA RestRight ==
  ASSUME settled' = Rest', NEW r \in Rooms, room' = r, Orphans' \in Nat,
         r.Json.Status = r.status,
         r.status = "WAIT" => r.banFlage = 0 /\ r.pickFlage = 0,
         r.status = "BAN" => r.banFlage < 2 * BanCount /\ r.pickFlage = 0,
         r.status = "PICK" => r.pickFlage < 10
  PROVE  FoundRight'
  BY RestFields DEF FoundRight

\* The text that was made last is what LOLM3BanRoom says the captains have.
LEMMA SyncIsLast ==
  ASSUME settled'.screen = Snapshot(Found')
  PROVE  Room!Sync
<1>1. settled'.screen = Room!Snapshot'
  BY DEF Snapshot, Found, Room!Snapshot
<1>2. \A c \in Teams : Room!Linked(c)'
  <2>1. \A c \in Teams : Room!Linked(c)
    BY Captains
  <2> QED  BY <2>1 DEF Room!Linked
<1> QED  BY <1>1, <1>2 DEF Room!Sync

\* READY from beginning to end.
LEMMA ReadyIsAStep ==
  ASSUME FoundRight, NEW team, ReadyDone(team), settled' = Rest',
         UNCHANGED <<room, timer, pending>>, screen' = Snapshot(room), shown' = settled.shown
  PROVE  Room!Next /\ FoundRight'
<1>1. Found \in Rooms /\ team \in Teams /\ Found.status = "WAIT"
  BY DEF FoundRight, ReadyDone
<1>2. /\ Found' = room /\ settled'.orphans = Orphans /\ settled'.shown = settled.shown
      /\ (settled'.armed <=> Armed) /\ settled'.screen = Snapshot(Found')
  BY RestFields, ClockStays DEF Armed, Orphans, Waiting
<1>3. Room!Sync
  BY <1>2, SyncIsLast
<1>4. Room!Linked(team)
  BY <1>1, Captains
<1>5. CASE room = Marked(team) /\ ClockSame /\ ~AllReady(team)
  <2>1. PICK r : r = Marked(team)
    OBVIOUS
  <2>2. /\ r.isReady = [Found.isReady EXCEPT ![team] = TRUE]
        /\ r.status = Found.status /\ r.nowCtrl = Found.nowCtrl /\ r.Json = Found.Json
        /\ r.chosen = Found.chosen /\ r.banData = Found.banData /\ r.pickData = Found.pickData
        /\ r.banFlage = Found.banFlage /\ r.pickFlage = Found.pickFlage
        /\ r.previewNum = Found.previewNum /\ r \in Rooms
    BY <1>1, <2>1 DEF Marked, Rooms
  <2>3. \E k \in Teams : ~r.isReady[k]
    BY <1>5, <2>1 DEF AllReady
  <2>4. Found' = r /\ settled'.orphans = settled.orphans /\ settled'.armed = settled.armed
    BY <1>2, <1>5, <2>1, RestFields, ClockStays DEF ClockSame, FoundRight
  <2>5. Room!Ready(team, team)
    BY <1>1, <1>2, <1>3, <1>4, <2>2, <2>3, <2>4 DEF Room!Ready, Found, Room!Teams, Teams
  <2>6. FoundRight'
    BY <1>1, <2>2, <2>4, RestFields DEF FoundRight
  <2> QED  BY <1>1, <2>5, <2>6 DEF Room!Next, Room!Teams, Teams
<1>6. CASE room = Started(team) /\ Armed /\ OneMore /\ AllReady(team)
  <2>1. PICK r : r = Started(team)
    OBVIOUS
  <2>2. /\ r.isReady = [Found.isReady EXCEPT ![team] = TRUE]
        /\ r.status = "BAN" /\ r.nowCtrl = 0
        /\ r.Json = [Found.Json EXCEPT !.Status = "BAN", !.nowCtrl = 0,
                                       !.banFlage = Found.banFlage]
    BY <1>1, <2>1 DEF Started, Opened, Begun, Marked, Rooms, Jsons
  <2>3. /\ r.chosen = Found.chosen /\ r.banData = Found.banData /\ r.pickData = Found.pickData
        /\ r.banFlage = Found.banFlage /\ r.pickFlage = Found.pickFlage
        /\ r.previewNum = Found.previewNum
    BY <1>1, <2>1 DEF Started, Opened, Begun, Marked, Rooms, Jsons
  <2>4. r \in Rooms
    BY <1>1, <2>1 DEF Started, Opened, Begun, Marked, Rooms, Jsons, Statuses, Teams
  <2>5. \A k \in Teams : r.isReady[k]
    BY <1>6, <2>2, <1>1 DEF AllReady, Marked, Rooms
  <2>6. /\ Found' = r /\ settled'.armed = TRUE
        /\ settled'.orphans = settled.orphans + IF settled.armed THEN 1 ELSE 0
    BY <1>2, <1>6, <2>1, RestFields, ClockStays DEF OneMore
  <2>7. Room!Ready(team, team)
    BY <1>1, <1>2, <1>3, <1>4, <2>2, <2>3, <2>5, <2>6 DEF Room!Ready, Found, Room!Teams, Teams
  <2>8. r.Json.Status = "BAN"
    <3>1. Found.Json \in Jsons
      BY <1>1 DEF Rooms
    <3> QED  BY <2>2, <3>1 DEF Jsons
  <2>9. r.banFlage < 2 * BanCount /\ r.pickFlage = 0
    BY <1>1, <2>3, BanCountAssumption DEF FoundRight
  <2>10. FoundRight'
    <3>1. room' = r /\ Orphans' \in Nat /\ r.Json.Status = r.status /\ r.status = "BAN"
      BY <2>2, <2>6, <2>8, OrphansType, ClockStays, RestFields
    <3> QED  BY <2>4, <2>9, <3>1, RestRight
  <2> QED  BY <1>1, <2>7, <2>10 DEF Room!Next, Room!Teams, Teams
<1> QED  BY <1>5, <1>6 DEF ReadyDone

\* PREVIEW from beginning to end.
LEMMA PreviewIsAStep ==
  ASSUME FoundRight, NEW n \in Nums, NEW team \in Teams, n = 0 \/ n \notin Found.chosen,
         room = [Found EXCEPT !.previewNum = n], ClockSame, settled' = Rest',
         UNCHANGED <<room, timer, pending>>, screen' = settled.screen,
         shown' = IF team = Found.nowCtrl /\ Found.status \in {"BAN", "PICK"}
                  THEN n ELSE settled.shown
  PROVE  Room!Next /\ FoundRight'
<1>1. Found \in Rooms /\ n \in Int
  BY PacketAssumption DEF FoundRight, Nums
<1>2. PICK r : r = [Found EXCEPT !.previewNum = n]
  OBVIOUS
<1>3. /\ r.isReady = Found.isReady
      /\ r.status = Found.status /\ r.nowCtrl = Found.nowCtrl /\ r.Json = Found.Json
      /\ r.chosen = Found.chosen /\ r.banData = Found.banData /\ r.pickData = Found.pickData
      /\ r.banFlage = Found.banFlage /\ r.pickFlage = Found.pickFlage
      /\ r.previewNum = n /\ r \in Rooms
  BY <1>1, <1>2 DEF Rooms
<1>4. Found' = r
  BY <1>2, RestFields
<1>5. /\ settled'.orphans = settled.orphans /\ settled'.armed = settled.armed
      /\ settled'.screen = settled.screen
      /\ settled'.shown = IF team = Found.nowCtrl /\ Found.status \in {"BAN", "PICK"}
                          THEN n ELSE settled.shown
  BY RestFields, ClockStays DEF ClockSame, FoundRight
<1>6. Room!Preview(team, n)
  BY <1>3, <1>4, <1>5, Captains DEF Room!Preview, Room!draft, Found
<1>7. FoundRight'
  BY <1>3, <1>4, <1>5, RestFields DEF FoundRight
<1> QED  BY <1>6, <1>7 DEF Room!Next, Nums

\* A call of nextProcess that is refused.
LEMMA RefusalIsAStep ==
  ASSUME FoundRight, NEW n \in Int, Called(n, Armed, Orphans),
         ~(n < MaxHeroCount /\ (n = 0 \/ n \notin Found.chosen)),
         room = Cleared, settled' = Rest',
         UNCHANGED <<room, timer, pending>>, screen' = settled.screen, shown' = settled.shown
  PROVE  Room!Next /\ FoundRight'
<1>1. Found \in Rooms
  BY DEF FoundRight
<1>2. PICK r : r = Cleared
  OBVIOUS
<1>3. /\ r.isReady = Found.isReady
      /\ r.status = Found.status /\ r.nowCtrl = Found.nowCtrl /\ r.Json = Found.Json
      /\ r.chosen = Found.chosen /\ r.banData = Found.banData /\ r.pickData = Found.pickData
      /\ r.banFlage = Found.banFlage /\ r.pickFlage = Found.pickFlage
      /\ r.previewNum = 0 /\ r \in Rooms
  BY <1>1, <1>2 DEF Rooms, Cleared
<1>4. Found' = r
  BY <1>2, RestFields
<1>5. /\ settled'.orphans = Orphans /\ settled'.armed = Armed
      /\ settled'.screen = settled.screen /\ settled'.shown = settled.shown
  BY RestFields, ClockStays
<1>6. Called(n, settled'.armed, settled'.orphans)
  BY <1>5
<1>7. Room!nextProcess(n, settled'.armed)
  BY <1>3, <1>4, <1>5 DEF Room!nextProcess, Room!Acceptable, Room!draft, Found
<1>8. settled'.orphans \in Nat
  BY <1>5, OrphansType
<1>9. FoundRight'
  BY <1>3, <1>4, <1>5, <1>8, RestFields DEF FoundRight
<1> QED  BY <1>1, <1>6, <1>7, <1>9, CallIsAStep

\* The fields of the room after a turn.
LEMMA TookFields ==
  ASSUME Found \in Rooms, NEW n \in Int, NEW r, r = Took(n)
  PROVE  /\ r.isReady = Found.isReady
         /\ r.status = Found.status /\ r.nowCtrl = Found.nowCtrl /\ r.Json = Found.Json
         /\ r.chosen = Found.chosen \cup ({n} \ {0})
         /\ r.banData = Found.banData /\ r.pickData = Found.pickData
         /\ r.banFlage = Found.banFlage /\ r.pickFlage = Found.pickFlage
         /\ r.previewNum = 0 /\ r \in Rooms
<1>1. PICK c : c = Cleared
  OBVIOUS
<1>2. /\ c.isReady = Found.isReady
      /\ c.status = Found.status /\ c.nowCtrl = Found.nowCtrl /\ c.Json = Found.Json
      /\ c.chosen = Found.chosen
      /\ c.banData = Found.banData /\ c.pickData = Found.pickData
      /\ c.banFlage = Found.banFlage /\ c.pickFlage = Found.pickFlage
      /\ c.previewNum = 0 /\ c \in Rooms
  BY <1>1 DEF Cleared, Rooms
<1>3. r = [c EXCEPT !.chosen = c.chosen \cup ({n} \ {0})]
  BY <1>1 DEF Took
<1> HIDE DEF Took
<1> QED  BY ONLY <1>2, <1>3, n \in Int DEF Rooms

\* y is x but for the turn: the status, who is in control and what RoomJData says.
SameSlots(x, y) ==
  /\ y.isReady = x.isReady /\ y.chosen = x.chosen
  /\ y.banData = x.banData /\ y.pickData = x.pickData
  /\ y.banFlage = x.banFlage /\ y.pickFlage = x.pickFlage /\ y.previewNum = x.previewNum

\* The three ways in which a turn writes them.
LEMMA PutCtrl ==
  ASSUME NEW x \in Rooms, NEW c \in Teams, NEW y, y = [x EXCEPT !.nowCtrl = c]
  PROVE  /\ SameSlots(x, y) /\ y \in Rooms
         /\ y.status = x.status /\ y.nowCtrl = c /\ y.Json = x.Json
  BY DEF Rooms, SameSlots

\* RoomJData is told.
LEMMA PutJson ==
  ASSUME NEW x \in Rooms, NEW j \in Jsons, NEW y, y = [x EXCEPT !.Json = j]
  PROVE  /\ SameSlots(x, y) /\ y \in Rooms
         /\ y.status = x.status /\ y.nowCtrl = x.nowCtrl /\ y.Json = j
  BY DEF Rooms, SameSlots

\* The status changes.
LEMMA PutStatus ==
  ASSUME NEW x \in Rooms, NEW st \in Statuses, NEW y, y = [x EXCEPT !.status = st]
  PROVE  /\ SameSlots(x, y) /\ y \in Rooms
         /\ y.status = st /\ y.nowCtrl = x.nowCtrl /\ y.Json = x.Json
  BY DEF Rooms, SameSlots

\* A ban, as the statements of BanTurn put it together.
LEMMA BannedFields ==
  ASSUME Found \in Rooms, NEW n \in Int, NEW r, r = Banned(n),
         Found.status = "BAN", BanAt < 2 * BanCount
  PROVE  /\ r.isReady = Found.isReady /\ r.chosen = Found.chosen \cup ({n} \ {0})
         /\ r.banData = [Found.banData EXCEPT ![BanAt] = n] /\ r.pickData = Found.pickData
         /\ r.banFlage = BanAt + 1 /\ r.pickFlage = Found.pickFlage
         /\ r.previewNum = 0 /\ r \in Rooms
         /\ \/ /\ BanAt + 1 = 2 * BanCount
               /\ r.status = "PICK" /\ r.nowCtrl = 0
               /\ r.Json = [Status |-> "PICK", nowCtrl |-> 0, banFlage |-> BanAt + 1,
                            pickFlage |-> Found.pickFlage]
            \/ /\ BanAt + 1 < 2 * BanCount
               /\ r.status = "BAN" /\ r.nowCtrl = banProcess[BanAt + 1]
               /\ r.Json = [Found.Json EXCEPT !.nowCtrl = banProcess[BanAt + 1],
                                              !.banFlage = BanAt + 1]
<1>1. /\ BanAt \in Nat /\ BanAt \in BanSlots /\ BanCount \in Nat
      /\ BanAt + 1 < 2 * BanCount => BanAt + 1 \in BanSlots
  BY BanCountAssumption DEF BanAt, Rooms, BanSlots
<1>2. PICK c : c = Took(n)
  OBVIOUS
<1>3. /\ c.isReady = Found.isReady
      /\ c.status = "BAN" /\ c.nowCtrl = Found.nowCtrl /\ c.Json = Found.Json
      /\ c.chosen = Found.chosen \cup ({n} \ {0})
      /\ c.banData = Found.banData /\ c.pickData = Found.pickData
      /\ c.banFlage = BanAt /\ c.pickFlage = Found.pickFlage
      /\ c.previewNum = 0 /\ c \in Rooms
  BY <1>2, TookFields DEF BanAt
<1>4. PICK d : d = Ban3(n)
  OBVIOUS
<1>5. d = [[c EXCEPT !.banData[BanAt] = n] EXCEPT !.banFlage = BanAt + 1]
  BY <1>2, <1>4 DEF Ban3, Ban1
<1>6. /\ d.isReady = Found.isReady
      /\ d.status = "BAN" /\ d.nowCtrl = Found.nowCtrl /\ d.Json = Found.Json
      /\ d.chosen = Found.chosen \cup ({n} \ {0})
      /\ d.banData = [Found.banData EXCEPT ![BanAt] = n] /\ d.pickData = Found.pickData
      /\ d.banFlage = BanAt + 1 /\ d.pickFlage = Found.pickFlage
      /\ d.previewNum = 0
  BY ONLY <1>3, <1>5 DEF Rooms
<1>7. d \in Rooms
  <2>1. PICK e : e = [c EXCEPT !.banData[BanAt] = n]
    OBVIOUS
  <2>2. e \in Rooms
    BY ONLY <1>1, <1>3, <2>1, n \in Int DEF Rooms
  <2>3. d = [e EXCEPT !.banFlage = BanAt + 1]
    BY <1>5, <2>1
  <2> QED  BY ONLY <1>1, <2>2, <2>3 DEF Rooms
<1>8. Found.Json \in Jsons
  BY DEF Rooms
<1>9. CASE BanAt + 1 = 2 * BanCount
  <2>1. PICK j : j = [Found.Json EXCEPT !.Status = "PICK", !.pickFlage = Found.pickFlage]
    OBVIOUS
  <2>2. j = [Status |-> "PICK", nowCtrl |-> Found.Json.nowCtrl,
             banFlage |-> Found.Json.banFlage, pickFlage |-> Found.pickFlage]
    BY <1>8, <2>1 DEF Jsons
  <2>3. j \in Jsons
    BY <1>8, <2>2 DEF Jsons, Statuses, Rooms
  <2>4. PICK e : e = Ban4(n)
    OBVIOUS
  <2>5. e = [d EXCEPT !.status = "PICK", !.Json = j]
    BY <1>4, <1>6, <1>7, <2>1, <2>4 DEF Ban4, Rooms
  <2>6. SameSlots(d, e) /\ e \in Rooms /\ e.status = "PICK" /\ e.Json = j
    <3>1. PICK z : z = [d EXCEPT !.status = "PICK"]
      OBVIOUS
    <3>2. e = [z EXCEPT !.Json = j] /\ "PICK" \in Statuses
      BY <2>5, <3>1 DEF Statuses
    <3>3. SameSlots(d, z) /\ z \in Rooms /\ z.status = "PICK"
      BY ONLY <1>7, <3>1, <3>2, PutStatus
    <3>4. SameSlots(z, e) /\ e \in Rooms /\ e.status = z.status /\ e.Json = j
      BY ONLY <2>3, <3>2, <3>3, PutJson
    <3> QED  BY ONLY <3>3, <3>4 DEF SameSlots
  <2>7. PICK g : g = Ban5(n)
    OBVIOUS
  <2>8. g = [e EXCEPT !.nowCtrl = 0]
    BY <1>9, <2>4, <2>7 DEF Ban5
  <2>9. SameSlots(e, g) /\ g \in Rooms /\ g.status = "PICK" /\ g.nowCtrl = 0 /\ g.Json = j
    BY <2>6, <2>8, PutCtrl DEF Teams
  <2>10. PICK k : k = [j EXCEPT !.nowCtrl = 0]
    OBVIOUS
  <2>11. k = [Status |-> "PICK", nowCtrl |-> 0,
              banFlage |-> Found.Json.banFlage, pickFlage |-> Found.pickFlage]
    BY <2>2, <2>10
  <2>12. k \in Jsons
    BY <2>3, <2>10 DEF Jsons, Teams
  <2>13. PICK h : h = Ban6(n)
    OBVIOUS
  <2>14. h = [g EXCEPT !.Json = k]
    BY <2>7, <2>9, <2>10, <2>13 DEF Ban6
  <2>15. SameSlots(g, h) /\ h \in Rooms /\ h.status = "PICK" /\ h.nowCtrl = 0 /\ h.Json = k
    BY <2>9, <2>12, <2>14, PutJson
  <2>16. PICK l : l = [k EXCEPT !.banFlage = BanAt + 1]
    OBVIOUS
  <2>17. l = [Status |-> "PICK", nowCtrl |-> 0,
              banFlage |-> BanAt + 1, pickFlage |-> Found.pickFlage]
    BY <2>11, <2>16
  <2>18. l \in Jsons
    BY <1>1, <2>12, <2>16 DEF Jsons
  <2>19. r = [h EXCEPT !.Json = l]
    BY <2>13, <2>15, <2>16 DEF Banned
  <2>20. SameSlots(h, r) /\ r \in Rooms /\ r.status = "PICK" /\ r.nowCtrl = 0 /\ r.Json = l
    BY <2>15, <2>18, <2>19, PutJson
  <2> QED  BY ONLY <1>6, <1>9, <2>6, <2>9, <2>15, <2>17, <2>20 DEF SameSlots
<1>10. CASE BanAt + 1 # 2 * BanCount
  <2>1. PICK v : v = banProcess[BanAt + 1]
    OBVIOUS
  <2>2. BanAt + 1 < 2 * BanCount /\ v \in Teams
    BY <1>1, <1>10, <2>1, Owners
  <2>3. PICK g : g = Ban5(n)
    OBVIOUS
  <2>4. g = [d EXCEPT !.nowCtrl = v]
    BY <1>10, <1>4, <2>1, <2>3 DEF Ban5
  <2>5. SameSlots(d, g) /\ g \in Rooms /\ g.status = "BAN" /\ g.nowCtrl = v /\ g.Json = Found.Json
    BY <1>6, <1>7, <2>2, <2>4, PutCtrl
  <2>6. PICK k : k = [Found.Json EXCEPT !.nowCtrl = v]
    OBVIOUS
  <2>7. k \in Jsons
    BY <1>8, <2>2, <2>6 DEF Jsons
  <2>8. PICK h : h = Ban6(n)
    OBVIOUS
  <2>9. h = [g EXCEPT !.Json = k]
    BY <2>3, <2>5, <2>6, <2>8 DEF Ban6
  <2>10. SameSlots(g, h) /\ h \in Rooms /\ h.status = "BAN" /\ h.nowCtrl = v /\ h.Json = k
    BY <2>5, <2>7, <2>9, PutJson
  <2>11. PICK l : l = [k EXCEPT !.banFlage = BanAt + 1]
    OBVIOUS
  <2>12. l \in Jsons
    BY <1>1, <2>7, <2>11 DEF Jsons
  <2>13. r = [h EXCEPT !.Json = l]
    BY <2>8, <2>10, <2>11 DEF Banned
  <2>14. SameSlots(h, r) /\ r \in Rooms /\ r.status = "BAN" /\ r.nowCtrl = v /\ r.Json = l
    BY <2>10, <2>12, <2>13, PutJson
  <2>15. l = [Found.Json EXCEPT !.nowCtrl = banProcess[BanAt + 1], !.banFlage = BanAt + 1]
    BY <2>1, <2>6, <2>11
  <2>16. /\ r.isReady = d.isReady /\ r.chosen = d.chosen
         /\ r.banData = d.banData /\ r.pickData = d.pickData
         /\ r.banFlage = d.banFlage /\ r.pickFlage = d.pickFlage /\ r.previewNum = d.previewNum
    BY <2>5, <2>10, <2>14 DEF SameSlots
  <2> QED  BY ONLY <1>6, <2>1, <2>2, <2>14, <2>15, <2>16
<1> QED  BY <1>9, <1>10

\* A pick, as the statements of PickTurn put it together.
LEMMA PickedFields ==
  ASSUME Found \in Rooms, NEW n \in Int, NEW r, r = Picked(n),
         Found.status = "PICK", Found.Json.Status = "PICK", PickAt < 10
  PROVE  /\ r.isReady = Found.isReady /\ r.chosen = Found.chosen \cup ({n} \ {0})
         /\ r.banData = Found.banData /\ r.pickData = [Found.pickData EXCEPT ![PickAt] = n]
         /\ r.banFlage = Found.banFlage /\ r.pickFlage = PickAt + 1
         /\ r.previewNum = 0 /\ r \in Rooms
         /\ r.status = (IF PickAt + 1 = 10 THEN "END" ELSE "PICK")
         /\ r.nowCtrl = (IF PickAt + 1 = 10 THEN Found.nowCtrl ELSE pickProcess[PickAt + 1])
         /\ r.Json = [Found.Json EXCEPT !.Status = r.status, !.nowCtrl = r.nowCtrl,
                                        !.pickFlage = PickAt + 1]
<1>1. /\ PickAt \in Nat /\ PickAt \in PickSlots
      /\ PickAt + 1 # 10 => PickAt + 1 \in PickSlots
  BY DEF PickAt, Rooms, PickSlots
<1>2. PICK c : c = Took(n)
  OBVIOUS
<1>3. /\ c.isReady = Found.isReady
      /\ c.status = "PICK" /\ c.nowCtrl = Found.nowCtrl /\ c.Json = Found.Json
      /\ c.chosen = Found.chosen \cup ({n} \ {0})
      /\ c.banData = Found.banData /\ c.pickData = Found.pickData
      /\ c.banFlage = Found.banFlage /\ c.pickFlage = PickAt
      /\ c.previewNum = 0 /\ c \in Rooms
  BY <1>2, TookFields DEF PickAt
<1>4. PICK d : d = Pick3(n)
  OBVIOUS
<1>5. d = [[c EXCEPT !.pickData[PickAt] = n] EXCEPT !.pickFlage = PickAt + 1]
  BY <1>2, <1>4 DEF Pick3, Pick1
<1>6. /\ d.isReady = Found.isReady
      /\ d.status = "PICK" /\ d.nowCtrl = Found.nowCtrl /\ d.Json = Found.Json
      /\ d.chosen = Found.chosen \cup ({n} \ {0})
      /\ d.banData = Found.banData /\ d.pickData = [Found.pickData EXCEPT ![PickAt] = n]
      /\ d.banFlage = Found.banFlage /\ d.pickFlage = PickAt + 1
      /\ d.previewNum = 0
  BY ONLY <1>3, <1>5 DEF Rooms
<1>7. d \in Rooms
  <2>1. PICK e : e = [c EXCEPT !.pickData[PickAt] = n]
    OBVIOUS
  <2>2. e \in Rooms
    BY ONLY <1>1, <1>3, <2>1, n \in Int DEF Rooms
  <2>3. d = [e EXCEPT !.pickFlage = PickAt + 1]
    BY <1>5, <2>1
  <2> QED  BY ONLY <1>1, <2>2, <2>3 DEF Rooms
<1>8. PICK st : st = IF PickAt + 1 = 10 THEN "END" ELSE "PICK"
  OBVIOUS
<1>9. PICK v : v = IF PickAt + 1 = 10 THEN Found.nowCtrl ELSE pickProcess[PickAt + 1]
  OBVIOUS
<1>10. st \in Statuses /\ v \in Teams
  BY <1>1, <1>8, <1>9, Owners DEF Statuses, Rooms
<1>11. PICK j : j = [Found.Json EXCEPT !.Status = st]
  OBVIOUS
<1>12. Found.Json \in Jsons /\ j \in Jsons
  BY <1>10, <1>11 DEF Rooms, Jsons
<1>13. PICK e : e = Pick4(n)
  OBVIOUS
<1>14. /\ SameSlots(d, e) /\ e \in Rooms /\ e.status = st /\ e.nowCtrl = v /\ e.Json = j
  <2>1. CASE PickAt + 1 = 10
    <3>1. PICK z : z = [d EXCEPT !.status = "END"]
      OBVIOUS
    <3>2. e = [z EXCEPT !.Json = j] /\ st = "END" /\ v = Found.nowCtrl
      BY <1>4, <1>6, <1>7, <1>8, <1>9, <1>11, <1>13, <2>1, <3>1 DEF Pick4, Rooms
    <3>3. SameSlots(d, z) /\ z \in Rooms /\ z.status = st /\ z.nowCtrl = v
      BY ONLY <1>6, <1>7, <1>10, <3>1, <3>2, PutStatus
    <3>4. SameSlots(z, e) /\ e \in Rooms /\ e.status = st /\ e.nowCtrl = v /\ e.Json = j
      BY ONLY <1>12, <3>2, <3>3, PutJson
    <3> QED  BY ONLY <3>3, <3>4 DEF SameSlots
  <2>2. CASE PickAt + 1 # 10
    <3>1. e = [d EXCEPT !.nowCtrl = v] /\ st = "PICK"
      BY <1>4, <1>8, <1>9, <1>13, <2>2 DEF Pick4
    <3>2. SameSlots(d, e) /\ e \in Rooms /\ e.status = st /\ e.nowCtrl = v /\ e.Json = Found.Json
      BY ONLY <1>6, <1>7, <1>10, <3>1, PutCtrl
    <3>3. j = Found.Json
      BY <1>11, <1>12, <3>1 DEF Jsons
    <3> QED  BY <3>2, <3>3
  <2> QED  BY <2>1, <2>2
<1>15. PICK k : k = [j EXCEPT !.nowCtrl = v]
  OBVIOUS
<1>16. k \in Jsons
  BY <1>10, <1>12, <1>15 DEF Jsons
<1>17. PICK h : h = Pick5(n)
  OBVIOUS
<1>18. h = [e EXCEPT !.Json = k]
  BY <1>13, <1>14, <1>15, <1>17 DEF Pick5
<1>19. SameSlots(e, h) /\ h \in Rooms /\ h.status = st /\ h.nowCtrl = v /\ h.Json = k
  BY <1>14, <1>16, <1>18, PutJson
<1>20. PICK l : l = [k EXCEPT !.pickFlage = PickAt + 1]
  OBVIOUS
<1>21. l \in Jsons
  BY <1>1, <1>16, <1>20 DEF Jsons
<1>22. r = [h EXCEPT !.Json = l]
  BY <1>17, <1>19, <1>20 DEF Picked
<1>23. SameSlots(h, r) /\ r \in Rooms /\ r.status = st /\ r.nowCtrl = v /\ r.Json = l
  BY <1>19, <1>21, <1>22, PutJson
<1>24. l = [Found.Json EXCEPT !.Status = st, !.nowCtrl = v, !.pickFlage = PickAt + 1]
  BY <1>11, <1>15, <1>20
<1>25. /\ r.isReady = d.isReady /\ r.chosen = d.chosen
       /\ r.banData = d.banData /\ r.pickData = d.pickData
       /\ r.banFlage = d.banFlage /\ r.pickFlage = d.pickFlage /\ r.previewNum = d.previewNum
  BY <1>14, <1>19, <1>23 DEF SameSlots
<1> QED  BY ONLY <1>6, <1>8, <1>9, <1>23, <1>24, <1>25

\* A call of nextProcess that is not refused.
LEMMA TurnIsAStep ==
  ASSUME FoundRight, NEW n \in Int, TurnDone(n), settled' = Rest',
         UNCHANGED <<room, timer, pending>>, screen' = Snapshot(room), shown' = 0
  PROVE  Room!Next /\ FoundRight'
<1>1. PICK cur \in BOOLEAN : Called(n, cur, Orphans)
  BY DEF TurnDone, Taking
<1>2. n < MaxHeroCount /\ (n = 0 \/ n \notin Found.chosen)
  BY DEF TurnDone, Taking
<1>3. PICK r : r = Turned(n)
  OBVIOUS
<1>4. /\ Found \in Rooms /\ Found.status \in Statuses /\ Found.banFlage \in Nat
      /\ Found.pickFlage \in Nat /\ Found.Json.Status = Found.status
  BY DEF FoundRight, Rooms
<1>5. /\ Found' = r /\ room = r
      /\ settled'.orphans = Orphans /\ settled'.shown = 0
      /\ (settled'.armed <=> r.status # "END") /\ settled'.screen = Snapshot(Found')
  BY <1>3, RestFields, ClockStays DEF TurnDone
<1>6. Room!Sync
  BY <1>5, SyncIsLast
<1>7. settled'.orphans \in Nat
  BY <1>5, OrphansType
<1>8. settled'.armed = (r.status # "END")
  BY <1>5, RestFields
<1>9. ASSUME r.previewNum = 0, r.isReady = Found.isReady,
             r.chosen = Found.chosen \cup ({n} \ {0}), Room!Turn(n)
      PROVE  Room!Next
  <2>1. Room!nextProcess(n, cur)
    BY <1>2, <1>5, <1>6, <1>8, <1>9 DEF Room!nextProcess, Room!Acceptable, Found
  <2> QED  BY <1>1, <1>4, <1>5, <2>1, CallIsAStep
<1>10. CASE Found.status = "BAN"
  <2>1. BanAt < 2 * BanCount /\ r = Banned(n)
    BY <1>3, <1>10 DEF FoundRight, Turned, BanAt
  <2>2. /\ r.isReady = Found.isReady /\ r.chosen = Found.chosen \cup ({n} \ {0})
        /\ r.banData = [Found.banData EXCEPT ![BanAt] = n] /\ r.pickData = Found.pickData
        /\ r.banFlage = BanAt + 1 /\ r.pickFlage = Found.pickFlage
        /\ r.previewNum = 0 /\ r \in Rooms
        /\ \/ /\ BanAt + 1 = 2 * BanCount
              /\ r.status = "PICK" /\ r.nowCtrl = 0
              /\ r.Json = [Status |-> "PICK", nowCtrl |-> 0, banFlage |-> BanAt + 1,
                           pickFlage |-> Found.pickFlage]
           \/ /\ BanAt + 1 < 2 * BanCount
              /\ r.status = "BAN" /\ r.nowCtrl = banProcess[BanAt + 1]
              /\ r.Json = [Found.Json EXCEPT !.nowCtrl = banProcess[BanAt + 1],
                                             !.banFlage = BanAt + 1]
    BY <1>4, <1>10, <2>1, BannedFields
  <2>3. Room!BanTurn(n)
    <3>1. Room!banProcess = banProcess
      BY DEF Room!banProcess, Room!BanSlots, banProcess, BanSlots
    <3>2. CASE /\ BanAt + 1 = 2 * BanCount
               /\ r.status = "PICK" /\ r.nowCtrl = 0
               /\ r.Json = [Status |-> "PICK", nowCtrl |-> 0, banFlage |-> BanAt + 1,
                            pickFlage |-> Found.pickFlage]
      BY <1>5, <1>10, <2>2, <3>2 DEF Room!BanTurn, BanAt, Found
    <3>3. CASE /\ BanAt + 1 < 2 * BanCount
               /\ r.status = "BAN" /\ r.nowCtrl = banProcess[BanAt + 1]
               /\ r.Json = [Found.Json EXCEPT !.nowCtrl = banProcess[BanAt + 1],
                                              !.banFlage = BanAt + 1]
      <4>1. BanAt + 1 # 2 * BanCount
        BY <1>4, <3>3, BanCountAssumption DEF BanAt
      <4> QED  BY <1>5, <1>10, <2>2, <3>1, <3>3, <4>1 DEF Room!BanTurn, BanAt, Found
    <3> QED  BY <2>2, <3>2, <3>3
  <2>4. Room!Next
    BY <1>9, <2>2, <2>3 DEF Room!Turn
  <2>5. r.Json.Status = r.status
    <3>1. Found.Json \in Jsons
      BY <1>4 DEF Rooms
    <3>2. [Found.Json EXCEPT !.nowCtrl = banProcess[BanAt + 1], !.banFlage = BanAt + 1].Status
            = Found.Json.Status
      BY <3>1 DEF Jsons
    <3>3. CASE r.status = "PICK" /\ r.Json.Status = "PICK"
      BY <3>3
    <3>4. CASE r.status = "BAN" /\ r.Json.Status = Found.Json.Status
      BY <1>4, <1>10, <3>4
    <3>5. [Status |-> "PICK", nowCtrl |-> 0, banFlage |-> BanAt + 1,
           pickFlage |-> Found.pickFlage].Status = "PICK"
      OBVIOUS
    <3> QED  BY ONLY <2>2, <3>2, <3>3, <3>4, <3>5
  <2>6. FoundRight'
    BY <1>5, <1>7, <1>10, <2>2, <2>5, RestFields DEF FoundRight
  <2> QED  BY <2>4, <2>6
<1>11. CASE Found.status = "PICK"
  <2>1. PickAt < 10 /\ r = Picked(n)
    BY <1>3, <1>11 DEF FoundRight, Turned, PickAt
  <2>2. /\ r.isReady = Found.isReady /\ r.chosen = Found.chosen \cup ({n} \ {0})
        /\ r.banData = Found.banData /\ r.pickData = [Found.pickData EXCEPT ![PickAt] = n]
        /\ r.banFlage = Found.banFlage /\ r.pickFlage = PickAt + 1
        /\ r.previewNum = 0 /\ r \in Rooms
        /\ r.status = (IF PickAt + 1 = 10 THEN "END" ELSE "PICK")
        /\ r.nowCtrl = (IF PickAt + 1 = 10 THEN Found.nowCtrl ELSE pickProcess[PickAt + 1])
        /\ r.Json = [Found.Json EXCEPT !.Status = r.status, !.nowCtrl = r.nowCtrl,
                                       !.pickFlage = PickAt + 1]
    <3>1. Found \in Rooms /\ Found.Json.Status = "PICK"
      BY <1>4, <1>11
    <3> QED  BY ONLY <1>11, <2>1, <3>1, n \in Int, PickedFields, Zenon
  <2>3. Room!PickTurn(n)
    BY <1>5, <1>11, <2>2 DEF Room!PickTurn, Room!pickProcess, Room!PickSlots, pickProcess,
       PickSlots, PickAt, Found
  <2>4. Room!Next
    BY <1>9, <2>2, <2>3 DEF Room!Turn
  <2>5. r.Json.Status = r.status
    BY <1>4, <2>2 DEF Rooms, Jsons
  <2>6. FoundRight'
    BY <1>4, <1>5, <1>7, <1>11, <2>1, <2>2, <2>5, RestFields DEF FoundRight, PickAt
  <2> QED  BY <2>4, <2>6
<1>12. CASE Found.status \in {"WAIT", "END"}
  <2>1. r = Took(n)
    BY <1>3, <1>12 DEF Turned
  <2>2. /\ r.isReady = Found.isReady
        /\ r.status = Found.status /\ r.nowCtrl = Found.nowCtrl /\ r.Json = Found.Json
        /\ r.chosen = Found.chosen \cup ({n} \ {0})
        /\ r.banData = Found.banData /\ r.pickData = Found.pickData
        /\ r.banFlage = Found.banFlage /\ r.pickFlage = Found.pickFlage
        /\ r.previewNum = 0 /\ r \in Rooms
    BY <1>4, <2>1, TookFields
  <2>3. Room!NoTurn
    BY <1>5, <1>12, <2>2 DEF Room!NoTurn, Found
  <2>4. Room!Next
    BY <1>9, <2>2, <2>3 DEF Room!Turn
  <2>5. FoundRight'
    BY <1>4, <1>5, <1>7, <2>2, RestFields DEF FoundRight
  <2> QED  BY <2>4, <2>5
<1> QED  BY <1>4, <1>10, <1>11, <1>12 DEF Statuses

-----------------------------------------------------------------------------
\* Statement by statement: a handler in progress stays where the tables above
\* say, and one that ends was a step of LOLM3BanRoom or did nothing.
Handling(t) == /\ screen = settled.screen /\ shown = settled.shown
               /\ InReady(t) /\ InPacket(t) /\ InTurn(t)
GoesOn(t) == OneTask' /\ pc'[t] # "idle" /\ (settled' = settled => Handling(t)')
Ends(t)   == /\ OneTask' /\ pc'[t] = "idle"
             /\ settled' = Rest' => FoundRight' /\ (settled' = settled \/ Room!Next)

\* What the handler found does not change while it is in progress.
LEMMA Held ==
  ASSUME settled' = settled
  PROVE  /\ Found' = Found /\ BanAt' = BanAt /\ PickAt' = PickAt /\ Cleared' = Cleared
         /\ \A k : Marked(k)' = Marked(k) /\ Begun(k)' = Begun(k) /\ Opened(k)' = Opened(k)
                   /\ Started(k)' = Started(k) /\ (AllReady(k)' <=> AllReady(k))
         /\ \A k : Took(k)' = Took(k) /\ Turned(k)' = Turned(k)
         /\ \A k : Ban1(k)' = Ban1(k) /\ Ban3(k)' = Ban3(k) /\ Ban4(k)' = Ban4(k)
                   /\ Ban5(k)' = Ban5(k) /\ Ban6(k)' = Ban6(k)
         /\ \A k : Pick1(k)' = Pick1(k) /\ Pick3(k)' = Pick3(k) /\ Pick4(k)' = Pick4(k)
                   /\ Pick5(k)' = Pick5(k)
         /\ \A n, c, o : Called(n, c, o)' <=> Called(n, c, o)
<1>1. /\ Found' = Found /\ BanAt' = BanAt /\ PickAt' = PickAt /\ Cleared' = Cleared
  BY DEF Found, BanAt, PickAt, Cleared
<1>2. \A k : Marked(k)' = Marked(k)
  BY <1>1 DEF Marked
<1>3. \A k : Begun(k)' = Begun(k)
  BY <1>1, <1>2 DEF Begun
<1>4. \A k : Opened(k)' = Opened(k)
  BY <1>1, <1>3 DEF Opened
<1>5. \A k : Started(k)' = Started(k) /\ (AllReady(k)' <=> AllReady(k))
  BY <1>2, <1>4 DEF Started, AllReady
<1>6. \A k : Took(k)' = Took(k)
  BY <1>1 DEF Took
<1>7. \A k : Ban1(k)' = Ban1(k)
  BY <1>1, <1>6 DEF Ban1
<1>8. \A k : Ban3(k)' = Ban3(k)
  BY <1>1, <1>7 DEF Ban3
<1>9. \A k : Ban4(k)' = Ban4(k)
  BY <1>1, <1>8 DEF Ban4
<1>10. \A k : Ban5(k)' = Ban5(k)
  BY <1>1, <1>8, <1>9 DEF Ban5
<1>11. \A k : Ban6(k)' = Ban6(k)
  BY <1>10 DEF Ban6
<1>12. \A k : Banned(k)' = Banned(k)
  BY <1>1, <1>11 DEF Banned
<1>13. \A k : Pick1(k)' = Pick1(k)
  BY <1>1, <1>6 DEF Pick1
<1>14. \A k : Pick3(k)' = Pick3(k)
  BY <1>1, <1>13 DEF Pick3
<1>15. \A k : Pick4(k)' = Pick4(k)
  BY <1>1, <1>14 DEF Pick4
<1>16. \A k : Pick5(k)' = Pick5(k)
  BY <1>15 DEF Pick5
<1>17. \A k : Picked(k)' = Picked(k)
  BY <1>1, <1>16 DEF Picked
<1>18. \A k : Turned(k)' = Turned(k)
  BY <1>1, <1>6, <1>12, <1>17 DEF Turned
<1>19. \A n, c, o : Called(n, c, o)' <=> Called(n, c, o)
  BY <1>1 DEF Called
<1> QED  BY <1>1, <1>2, <1>3, <1>4, <1>5, <1>6, <1>7, <1>8, <1>9, <1>10, <1>11, <1>13,
            <1>14, <1>15, <1>16, <1>18, <1>19

\* A statement within a handler: the clock, the captains' screens and the locals
\* stay.
LEMMA StmtAlone ==
  ASSUME Types, OneTask, NEW t \in Threads, NEW from, NEW to, NEW r, Stmt(t, from, to, r)
  PROVE  /\ pc[t] = from /\ pc'[t] = to /\ room' = r
         /\ to # "idle" => loc' = loc
         /\ UNCHANGED <<timer, pending, created, live, fresh, screen, shown>>
         /\ Armed' = Armed /\ Orphans' = Orphans /\ OneTask'
<1>1. UNCHANGED <<timer, pending, created, live, fresh, screen, shown>>
  BY StmtMoves DEF clock
<1>2. Armed' = Armed /\ Orphans' = Orphans /\ OneTask'
  BY <1>1, ClockStays
<1> QED  BY <1>1, <1>2, StmtMoves

\* The same of a branch.
LEMMA BranchAlone ==
  ASSUME Types, OneTask, NEW t \in Threads, NEW from, NEW to, Branch(t, from, to)
  PROVE  /\ pc[t] = from /\ pc'[t] = to /\ room' = room
         /\ to # "idle" => loc' = loc
         /\ UNCHANGED <<timer, pending, created, live, fresh, screen, shown>>
         /\ Armed' = Armed /\ Orphans' = Orphans /\ OneTask'
  BY StmtAlone DEF Branch

\* A packet that is ignored.
LEMMA QuietEnd ==
  ASSUME FoundRight, OneTask, NEW t, Handling(t), room = Found, ClockSame, pc'[t] = "idle",
         UNCHANGED <<room, timer, pending, created, screen, shown>>
  PROVE  Ends(t)
<1>1. Armed' = Armed /\ Orphans' = Orphans /\ OneTask'
  BY ClockStays
<1>2. ASSUME settled' = Rest'  PROVE settled' = settled
  BY <1>1, <1>2, RestFields DEF FoundRight, ClockSame, Handling
<1>3. settled' = settled => FoundRight'
  BY Held DEF FoundRight
<1> QED  BY <1>1, <1>2, <1>3 DEF Ends

\* READY, with nobody else in a handler.
LEMMA ReadyAlone ==
  ASSUME Types, Timers, OneTask, FoundRight, NEW t \in Threads, Handling(t), Ready(t)
  PROVE  GoesOn(t) \/ Ends(t)
<1> DEFINE team == loc[t].team
<1>1. team \in Teams /\ Found \in Rooms
  BY DEF Types, Locals, FoundRight
<1>2. CASE room.status = "WAIT" /\ Branch(t, "READY", "ready1")
  <2>1. /\ pc[t] = "READY" /\ pc'[t] = "ready1" /\ room' = room
        /\ UNCHANGED <<screen, shown>>
        /\ Armed' = Armed /\ Orphans' = Orphans /\ OneTask'
    BY <1>2, BranchAlone
  <2>2. room = Found /\ ClockSame
    BY <2>1 DEF Handling, InReady
  <2>3. ASSUME settled' = settled  PROVE InReady(t)'
    BY <1>2, <2>1, <2>2, <2>3, Held DEF InReady, ClockSame
  <2>4. InPacket(t)' /\ InTurn(t)'
    BY <2>1 DEF InPacket, InTurn
  <2> QED  BY <2>1, <2>3, <2>4 DEF GoesOn, Handling
<1>3. CASE Branch(t, "READY", "idle")
  <2>1. /\ pc[t] = "READY" /\ pc'[t] = "idle"
        /\ UNCHANGED <<room, timer, pending, created, screen, shown>>
    BY <1>3, BranchAlone
  <2>2. room = Found /\ ClockSame
    BY <2>1 DEF Handling, InReady
  <2> QED  BY <2>1, <2>2, QuietEnd
<1>4. CASE Stmt(t, "ready1", "ready2", [room EXCEPT !.isReady[team] = TRUE])
  <2>1. /\ pc[t] = "ready1" /\ pc'[t] = "ready2" /\ room' = [room EXCEPT !.isReady[team] = TRUE]
        /\ loc' = loc /\ UNCHANGED <<screen, shown>>
        /\ Armed' = Armed /\ Orphans' = Orphans /\ OneTask'
    BY <1>4, StmtAlone
  <2>2. room = Found /\ ClockSame /\ Found.status = "WAIT"
    BY <2>1 DEF Handling, InReady
  <2>3. room' = Marked(team)
    BY <2>1, <2>2 DEF Marked
  <2>4. ASSUME settled' = settled  PROVE InReady(t)'
    BY <2>1, <2>2, <2>3, <2>4, Held DEF InReady, ClockSame
  <2>5. InPacket(t)' /\ InTurn(t)'
    BY <2>1 DEF InPacket, InTurn
  <2> QED  BY <2>1, <2>4, <2>5 DEF GoesOn, Handling
<1>5. ASSUME NEW to \in {"start", "ready3"}, Branch(t, "ready2", to),
             to = "start" <=> \A k \in Teams : room.isReady[k]
      PROVE  GoesOn(t)
  <2>1. /\ pc[t] = "ready2" /\ pc'[t] = to /\ room' = room
        /\ loc' = loc /\ UNCHANGED <<screen, shown>>
        /\ Armed' = Armed /\ Orphans' = Orphans /\ OneTask'
    BY <1>5, BranchAlone
  <2>2. room = Marked(team) /\ ClockSame /\ Found.status = "WAIT"
    BY <2>1 DEF Handling, InReady
  <2>3. to = "start" <=> AllReady(team)
    BY <1>5, <2>2 DEF AllReady
  <2>4. ASSUME settled' = settled  PROVE InReady(t)'
    BY <1>1, <1>5, <2>1, <2>2, <2>3, <2>4, Held DEF InReady, ClockSame, ReadyDone
  <2>5. InPacket(t)' /\ InTurn(t)'
    BY <2>1, <1>5 DEF InPacket, InTurn
  <2> QED  BY <2>1, <1>5, <2>4, <2>5 DEF GoesOn, Handling
<1>6. CASE Text(t, "ready3", "ready4")
  <2>1. /\ pc[t] = "ready3" /\ pc'[t] = "ready4" /\ loc'[t].data = Snapshot(room)
        /\ UNCHANGED <<room, timer, pending, created, screen, shown>>
    BY <1>6 DEF Text, Goto, shared, clock, Types, NoLocals
  <2>2. Armed' = Armed /\ Orphans' = Orphans /\ OneTask'
    BY <2>1, ClockStays
  <2>3. PICK k \in Teams : ReadyDone(k)
    BY <1>1, <2>1 DEF Handling, InReady
  <2>4. ASSUME settled' = settled  PROVE InReady(t)'
    <3>1. ReadyDone(k)'
      BY <2>1, <2>2, <2>3, <2>4, Held DEF ReadyDone, ClockSame, OneMore
    <3>2. (loc[t].data = Snapshot(room))'
      BY <2>1
    <3>3. \E j \in Teams : ReadyDone(j)'
      BY <3>1
    <3> QED  BY ONLY <2>1, <3>2, <3>3 DEF InReady
  <2>5. InPacket(t)' /\ InTurn(t)'
    BY <2>1 DEF InPacket, InTurn
  <2> QED  BY <2>1, <2>2, <2>4, <2>5 DEF GoesOn, Handling
<1>7. CASE Write(t, "ready4", FALSE)
  <2>1. /\ pc[t] = "ready4" /\ pc'[t] = "idle" /\ screen' = loc[t].data /\ shown' = shown
        /\ UNCHANGED <<room, timer, pending, created>>
    BY <1>7 DEF Write, Return, Goto, clock, Types
  <2>2. PICK k \in Teams : ReadyDone(k)
    BY <2>1 DEF Handling, InReady
  <2>3. screen' = Snapshot(room) /\ shown' = settled.shown /\ OneTask'
    BY <2>1, ClockStays DEF Handling, InReady
  <2> QED  BY <2>1, <2>2, <2>3, ReadyIsAStep DEF Ends
<1> QED  BY <1>2, <1>3, <1>4, <1>5, <1>6, <1>7 DEF Ready

\* The three statements that set a clock, where nobody comes between them.
LEMMA ScheduleAlone ==
  ASSUME Types, Timers, Timers', OneTask, NEW t \in Threads, NEW from, NEW new, NEW add, NEW to,
         Schedule(t, from, new, add, to), pc[t] = add => ~Armed /\ live /\ fresh
  PROVE  /\ OneTask' /\ UNCHANGED <<room, loc, screen, shown>>
         /\ \/ /\ pc[t] = from /\ pc'[t] = new /\ fresh' = TRUE
               /\ Armed' = Armed /\ Orphans' = Orphans
            \/ /\ pc[t] = new /\ pc'[t] = add /\ fresh' = fresh /\ live' = TRUE
               /\ ~Armed' /\ Orphans' = Orphans + IF Armed THEN 1 ELSE 0
            \/ /\ pc[t] = add /\ pc'[t] = to
               /\ Armed' /\ Orphans' = Orphans
<1>1. CASE /\ pc[t] = from /\ Goto(t, new)
           /\ fresh' = TRUE
           /\ UNCHANGED <<timer, live, pending, created, room, screen, shown, queue, loc>>
  BY <1>1, ClockStays DEF Goto, Types
<1>2. CASE /\ pc[t] = new /\ Goto(t, add)
           /\ created < at.timers
           /\ created' = created + 1 /\ timer' = created' /\ live' = TRUE
           /\ UNCHANGED <<fresh, pending, room, screen, shown, queue, loc>>
  <2>1. pc'[t] = add
    BY <1>2 DEF Goto, Types
  <2> QED  BY <1>2, <2>1, NewClock
<1>3. CASE /\ pc[t] = add /\ Goto(t, to)
           /\ live /\ fresh
           /\ fresh' = FALSE /\ pending' = [pending EXCEPT ![timer] = @ + 1]
           /\ UNCHANGED <<timer, live, created, room, screen, shown, queue, loc>>
  <2>1. pc'[t] = to
    BY <1>3 DEF Goto, Types
  <2> QED  BY <1>3, <2>1, AddClock
<1>4. CASE ~(live /\ fresh) /\ Branch(t, add, "idle")
  BY <1>4, BranchMoves
<1> QED  BY <1>1, <1>2, <1>3, <1>4 DEF Schedule

\* SetStatus(BAN), with nobody else in a handler: it is not begun twice.
LEMMA StartBanAlone ==
  ASSUME Types, Timers, Timers', OneTask, FoundRight, NEW t \in Threads, Handling(t), StartBan(t)
  PROVE  GoesOn(t) \/ Ends(t)
<1> DEFINE team == loc[t].team
<1>1. team \in Teams /\ Found \in Rooms
  BY DEF Types, Locals, FoundRight
<1>2. ASSUME room.status = "BAN", Branch(t, "start", "ready3")  PROVE FALSE
  <2>1. pc[t] = "start"
    BY <1>2, BranchMoves
  <2>2. room = Marked(team) /\ Found.status = "WAIT"
    BY <2>1 DEF Handling, InReady
  <2> QED  BY <1>1, <1>2, <2>2 DEF Marked, Rooms
<1>3. CASE Branch(t, "start", "start1")
  <2>1. /\ pc[t] = "start" /\ pc'[t] = "start1" /\ room' = room
        /\ loc' = loc /\ UNCHANGED <<screen, shown>>
        /\ Armed' = Armed /\ Orphans' = Orphans /\ OneTask'
    BY <1>3, BranchAlone
  <2>2. room = Marked(team) /\ ClockSame /\ Found.status = "WAIT" /\ AllReady(team)
    BY <2>1 DEF Handling, InReady
  <2>3. ASSUME settled' = settled  PROVE InReady(t)'
    BY <2>1, <2>2, <2>3, Held DEF InReady, ClockSame
  <2>4. InPacket(t)' /\ InTurn(t)'
    BY <2>1 DEF InPacket, InTurn
  <2> QED  BY <2>1, <2>3, <2>4 DEF GoesOn, Handling
<1>4. CASE Stmt(t, "start1", "start2", [room EXCEPT !.status = "BAN", !.Json.Status = "BAN"])
  <2>1. /\ pc[t] = "start1" /\ pc'[t] = "start2"
        /\ room' = [room EXCEPT !.status = "BAN", !.Json.Status = "BAN"]
        /\ loc' = loc /\ UNCHANGED <<screen, shown>>
        /\ Armed' = Armed /\ Orphans' = Orphans /\ OneTask'
    BY <1>4, StmtAlone
  <2>2. room = Marked(team) /\ ClockSame /\ Found.status = "WAIT" /\ AllReady(team)
    BY <2>1 DEF Handling, InReady
  <2>3. room' = Begun(team)
    BY <2>1, <2>2 DEF Begun
  <2>4. ASSUME settled' = settled  PROVE InReady(t)'
    BY <2>1, <2>2, <2>3, <2>4, Held DEF InReady, ClockSame
  <2>5. InPacket(t)' /\ InTurn(t)'
    BY <2>1 DEF InPacket, InTurn
  <2> QED  BY <2>1, <2>4, <2>5 DEF GoesOn, Handling
<1>5. CASE Schedule(t, "start2", "start_timer", "start_schedule", "start3")
  <2>1. pc[t] = "start_schedule" => ~Armed /\ live /\ fresh
    BY DEF Handling, InReady
  <2>2. /\ OneTask' /\ UNCHANGED <<room, loc, screen, shown>>
        /\ \/ /\ pc[t] = "start2" /\ pc'[t] = "start_timer" /\ fresh' = TRUE
              /\ Armed' = Armed /\ Orphans' = Orphans
           \/ /\ pc[t] = "start_timer" /\ pc'[t] = "start_schedule"
              /\ fresh' = fresh /\ live' = TRUE
              /\ ~Armed' /\ Orphans' = Orphans + IF Armed THEN 1 ELSE 0
           \/ /\ pc[t] = "start_schedule" /\ pc'[t] = "start3"
              /\ Armed' /\ Orphans' = Orphans
    BY <1>5, <2>1, ScheduleAlone
  <2>3. ASSUME settled' = settled  PROVE InReady(t)'
    <3>1. room = Begun(team) /\ Found.status = "WAIT" /\ AllReady(team)
      BY <2>2 DEF Handling, InReady
    <3>2. CASE /\ pc[t] = "start2" /\ pc'[t] = "start_timer" /\ fresh' = TRUE
               /\ Armed' = Armed /\ Orphans' = Orphans
      <4>1. ClockSame
        BY <3>2 DEF Handling, InReady
      <4> QED  BY <2>2, <2>3, <3>1, <3>2, <4>1, Held DEF InReady, ClockSame
    <3>3. CASE /\ pc[t] = "start_timer" /\ pc'[t] = "start_schedule"
               /\ fresh' = fresh /\ live' = TRUE
               /\ ~Armed' /\ Orphans' = Orphans + IF Armed THEN 1 ELSE 0
      <4>1. ClockSame /\ fresh
        BY <3>3 DEF Handling, InReady
      <4>2. OneMore'
        BY <2>3, <3>3, <4>1 DEF ClockSame, OneMore
      <4> QED  BY <2>2, <2>3, <3>1, <3>3, <4>1, <4>2, Held DEF InReady
    <3>4. CASE /\ pc[t] = "start_schedule" /\ pc'[t] = "start3"
               /\ Armed' /\ Orphans' = Orphans
      <4>1. OneMore
        BY <3>4 DEF Handling, InReady
      <4> QED  BY <2>2, <2>3, <3>1, <3>4, <4>1, Held DEF InReady, OneMore
    <3> QED  BY <2>2, <3>2, <3>3, <3>4
  <2>4. InPacket(t)' /\ InTurn(t)' /\ pc'[t] # "idle"
    BY <2>2 DEF InPacket, InTurn
  <2> QED  BY <2>2, <2>3, <2>4 DEF GoesOn, Handling
<1>6. CASE Stmt(t, "start3", "start4", [room EXCEPT !.Json.banFlage = room.banFlage])
  <2>1. /\ pc[t] = "start3" /\ pc'[t] = "start4"
        /\ room' = [room EXCEPT !.Json.banFlage = room.banFlage]
        /\ loc' = loc /\ UNCHANGED <<screen, shown>>
        /\ Armed' = Armed /\ Orphans' = Orphans /\ OneTask'
    BY <1>6, StmtAlone
  <2>2. room = Begun(team) /\ Armed /\ OneMore /\ Found.status = "WAIT" /\ AllReady(team)
    BY <2>1 DEF Handling, InReady
  <2>3. room.banFlage = Found.banFlage
    BY <1>1, <2>2 DEF Begun, Marked, Rooms
  <2>4. room' = Opened(team)
    BY <2>1, <2>2, <2>3 DEF Opened
  <2>5. ASSUME settled' = settled  PROVE InReady(t)'
    BY <2>1, <2>2, <2>4, <2>5, Held DEF InReady, OneMore
  <2>6. InPacket(t)' /\ InTurn(t)'
    BY <2>1 DEF InPacket, InTurn
  <2> QED  BY <2>1, <2>5, <2>6 DEF GoesOn, Handling
<1>7. CASE Stmt(t, "start4", "ready3", [room EXCEPT !.nowCtrl = 0, !.Json.nowCtrl = 0])
  <2>1. /\ pc[t] = "start4" /\ pc'[t] = "ready3"
        /\ room' = [room EXCEPT !.nowCtrl = 0, !.Json.nowCtrl = 0]
        /\ loc' = loc /\ UNCHANGED <<screen, shown>>
        /\ Armed' = Armed /\ Orphans' = Orphans /\ OneTask'
    BY <1>7, StmtAlone
  <2>2. room = Opened(team) /\ Armed /\ OneMore /\ Found.status = "WAIT" /\ AllReady(team)
    BY <2>1 DEF Handling, InReady
  <2>3. room' = Started(team)
    BY <2>1, <2>2 DEF Started
  <2>4. ASSUME settled' = settled  PROVE InReady(t)'
    BY <1>1, <2>1, <2>2, <2>3, <2>4, Held DEF InReady, OneMore, ReadyDone
  <2>5. InPacket(t)' /\ InTurn(t)'
    BY <2>1 DEF InPacket, InTurn
  <2> QED  BY <2>1, <2>4, <2>5 DEF GoesOn, Handling
<1> QED  BY <1>2, <1>3, <1>4, <1>5, <1>6, <1>7 DEF StartBan

\* CHOOSE: in turn it calls nextProcess, out of turn it does nothing.
LEMMA ChooseAlone ==
  ASSUME Types, Timers, OneTask, FoundRight, NEW t \in Threads, Handling(t), Choose(t)
  PROVE  GoesOn(t) \/ Ends(t)
<1>1. CASE Branch(t, "CHOOSE", "next")
  <2>1. /\ pc[t] = "CHOOSE" /\ pc'[t] = "next" /\ room' = room
        /\ loc' = loc /\ UNCHANGED <<screen, shown>>
        /\ Armed' = Armed /\ Orphans' = Orphans /\ OneTask'
    BY <1>1, BranchAlone
  <2>2. room = Found /\ ClockSame /\ loc[t].num \in Nums
    BY <2>1 DEF Handling, InPacket
  <2>3. PICK n : n = loc[t].num
    OBVIOUS
  <2>4. Called(n, Armed, Orphans)
    BY <2>2, <2>3 DEF Called, ClockSame
  <2>5. ASSUME settled' = settled  PROVE InTurn(t)'
    <3>1. Called(n, Armed', Orphans')
      BY <2>1, <2>4
    <3>2. Called(n, Armed, Orphans)'
      BY <2>5, <3>1, Held
    <3> QED  BY <2>1, <2>2, <2>3, <2>5, <3>2, Held DEF InTurn
  <2>6. InReady(t)' /\ InPacket(t)'
    BY <2>1 DEF InReady, InPacket
  <2> QED  BY <2>1, <2>5, <2>6 DEF GoesOn, Handling
<1>2. CASE Branch(t, "CHOOSE", "idle")
  <2>1. /\ pc[t] = "CHOOSE" /\ pc'[t] = "idle"
        /\ UNCHANGED <<room, timer, pending, created, screen, shown>>
    BY <1>2, BranchAlone
  <2>2. room = Found /\ ClockSame
    BY <2>1 DEF Handling, InPacket
  <2> QED  BY <2>1, <2>2, QuietEnd
<1> QED  BY <1>1, <1>2 DEF Choose

\* PREVIEW: refused, stored, or stored and shown.
LEMMA PreviewAlone ==
  ASSUME Types, Timers, OneTask, FoundRight, NEW t \in Threads, Handling(t), Preview(t)
  PROVE  GoesOn(t) \/ Ends(t)
<1> DEFINE free == loc[t].num = 0 \/ loc[t].num \notin room.chosen
           mine == loc[t].team = room.nowCtrl /\ room.status \in {"BAN", "PICK"}
<1>1. Found \in Rooms /\ loc[t].team \in Teams
  BY DEF FoundRight, Types, Locals
<1>2. CASE free /\ Branch(t, "PREVIEW", "preview1")
  <2>1. /\ pc[t] = "PREVIEW" /\ pc'[t] = "preview1" /\ room' = room
        /\ loc' = loc /\ UNCHANGED <<screen, shown>>
        /\ Armed' = Armed /\ Orphans' = Orphans /\ OneTask'
    BY <1>2, BranchAlone
  <2>2. room = Found /\ ClockSame /\ loc[t].num \in Nums /\ t \in PackThreads
    BY <2>1 DEF Handling, InPacket
  <2>3. ASSUME settled' = settled  PROVE InPacket(t)'
    BY <1>2, <2>1, <2>2, <2>3, Held DEF InPacket, ClockSame
  <2>4. InReady(t)' /\ InTurn(t)'
    BY <2>1 DEF InReady, InTurn
  <2> QED  BY <2>1, <2>3, <2>4 DEF GoesOn, Handling
<1>3. CASE Branch(t, "PREVIEW", "idle")
  <2>1. /\ pc[t] = "PREVIEW" /\ pc'[t] = "idle"
        /\ UNCHANGED <<room, timer, pending, created, screen, shown>>
    BY <1>3, BranchAlone
  <2>2. room = Found /\ ClockSame
    BY <2>1 DEF Handling, InPacket
  <2> QED  BY <2>1, <2>2, QuietEnd
<1>4. CASE Stmt(t, "preview1", "preview2", [room EXCEPT !.previewNum = loc[t].num])
  <2>1. /\ pc[t] = "preview1" /\ pc'[t] = "preview2"
        /\ room' = [room EXCEPT !.previewNum = loc[t].num]
        /\ loc' = loc /\ UNCHANGED <<screen, shown>>
        /\ Armed' = Armed /\ Orphans' = Orphans /\ OneTask'
    BY <1>4, StmtAlone
  <2>2. /\ room = Found /\ ClockSame /\ loc[t].num \in Nums /\ t \in PackThreads
        /\ loc[t].num = 0 \/ loc[t].num \notin Found.chosen
    BY <2>1 DEF Handling, InPacket
  <2>3. ASSUME settled' = settled  PROVE InPacket(t)'
    BY <2>1, <2>2, <2>3, Held DEF InPacket, ClockSame
  <2>4. InReady(t)' /\ InTurn(t)'
    BY <2>1 DEF InReady, InTurn
  <2> QED  BY <2>1, <2>3, <2>4 DEF GoesOn, Handling
<1>5. ASSUME pc[t] = "preview2"
      PROVE  /\ room = [Found EXCEPT !.previewNum = loc[t].num] /\ ClockSame
             /\ loc[t].num \in Nums /\ (loc[t].num = 0 \/ loc[t].num \notin Found.chosen)
             /\ room.previewNum = loc[t].num /\ room.status = Found.status
             /\ room.nowCtrl = Found.nowCtrl
  <2>1. /\ room = [Found EXCEPT !.previewNum = loc[t].num] /\ ClockSame
        /\ loc[t].num \in Nums /\ (loc[t].num = 0 \/ loc[t].num \notin Found.chosen)
    BY <1>5 DEF Handling, InPacket
  <2> QED  BY <1>1, <2>1 DEF Rooms
<1>6. CASE ~mine /\ Branch(t, "preview2", "idle")
  <2>1. /\ pc[t] = "preview2" /\ pc'[t] = "idle" /\ OneTask'
        /\ UNCHANGED <<room, timer, pending, created, screen, shown>>
    BY <1>6, BranchAlone
  <2>2. /\ screen' = settled.screen
        /\ shown' = IF loc[t].team = Found.nowCtrl /\ Found.status \in {"BAN", "PICK"}
                    THEN loc[t].num ELSE settled.shown
    BY <1>5, <1>6, <2>1 DEF Handling
  <2> QED  BY <1>1, <1>5, <2>1, <2>2, PreviewIsAStep DEF Ends
<1>7. CASE /\ mine /\ pc[t] = "preview2" /\ Return(t)
           /\ shown' = room.previewNum
           /\ UNCHANGED <<room, clock, screen, queue>>
  <2>1. /\ pc[t] = "preview2" /\ pc'[t] = "idle"
        /\ UNCHANGED <<room, timer, pending, created, screen>>
    BY <1>7 DEF Return, Goto, clock, Types
  <2>2. /\ screen' = settled.screen
        /\ shown' = IF loc[t].team = Found.nowCtrl /\ Found.status \in {"BAN", "PICK"}
                    THEN loc[t].num ELSE settled.shown
    BY <1>5, <1>7, <2>1 DEF Handling
  <2>3. OneTask'
    BY <2>1, ClockStays
  <2> QED  BY <1>1, <1>5, <2>1, <2>2, <2>3, PreviewIsAStep DEF Ends
<1> QED  BY <1>2, <1>3, <1>4, <1>6, <1>7 DEF Preview

\* A call that is not refused stays one while the handler goes on.
LEMMA TakingHeld ==
  ASSUME settled' = settled, Orphans' = Orphans, NEW n, Taking(n)
  PROVE  Taking(n)'
<1>1. PICK cur \in BOOLEAN : Called(n, cur, Orphans)
  BY DEF Taking
<1>2. Called(n, cur, Orphans')
  BY <1>1
<1>3. Called(n, cur, Orphans)'
  BY <1>2, Held
<1> QED  BY <1>3, Held DEF Taking

\* nextProcess up to the turn: the timer is cancelled once the hero is accepted.
LEMMA NextProcessAlone ==
  ASSUME Types, Timers, OneTask, FoundRight, NEW t \in Threads, Handling(t), NextProcess(t)
  PROVE  GoesOn(t) \/ Ends(t)
<1> DEFINE choose == loc[t].num
           acceptable == choose < MaxHeroCount /\ (choose = 0 \/ choose \notin room.chosen)
<1>1. Found \in Rooms /\ choose \in Int
  BY DEF FoundRight, Types, Locals
<1>2. PICK n \in Int : n = choose
  BY <1>1
<1>3. PICK r : r = Took(n)
  OBVIOUS
<1>4. r.status = Found.status
  BY <1>1, <1>3, TookFields
<1>5. CASE Stmt(t, "next", "next1", [room EXCEPT !.previewNum = 0])
  <2>1. /\ pc[t] = "next" /\ pc'[t] = "next1" /\ room' = [room EXCEPT !.previewNum = 0]
        /\ loc' = loc /\ UNCHANGED <<screen, shown>>
        /\ Armed' = Armed /\ Orphans' = Orphans /\ OneTask'
    BY <1>5, StmtAlone
  <2>2. room = Found /\ Called(n, Armed, Orphans)
    BY <1>2, <2>1 DEF Handling, InTurn
  <2>3. room' = Cleared
    BY <2>1, <2>2 DEF Cleared
  <2>4. ASSUME settled' = settled  PROVE InTurn(t)'
    <3>1. Called(n, Armed', Orphans')
      BY <2>1, <2>2
    <3>2. Called(n, Armed, Orphans)'
      BY <2>4, <3>1, Held
    <3> QED  BY <1>2, <2>1, <2>3, <2>4, <3>2, Held DEF InTurn
  <2>5. InReady(t)' /\ InPacket(t)'
    BY <2>1 DEF InReady, InPacket
  <2> QED  BY <2>1, <2>4, <2>5 DEF GoesOn, Handling
<1>6. ASSUME pc[t] = "next1"
      PROVE  room = Cleared /\ room.chosen = Found.chosen /\ Called(n, Armed, Orphans)
  <2>1. room = Cleared /\ Called(n, Armed, Orphans)
    BY <1>2, <1>6 DEF Handling, InTurn
  <2> QED  BY <1>1, <2>1 DEF Cleared, Rooms
<1>7. CASE ~acceptable /\ Branch(t, "next1", "idle")
  <2>1. /\ pc[t] = "next1" /\ pc'[t] = "idle" /\ OneTask'
        /\ UNCHANGED <<room, timer, pending, created, screen, shown>>
    BY <1>7, BranchAlone
  <2>2. ~(n < MaxHeroCount /\ (n = 0 \/ n \notin Found.chosen))
    BY <1>2, <1>6, <1>7, <2>1
  <2>3. screen' = settled.screen /\ shown' = settled.shown
    BY <2>1 DEF Handling
  <2> QED  BY <1>6, <2>1, <2>2, <2>3, RefusalIsAStep DEF Ends
<1>8. CASE acceptable /\ Branch(t, "next1", "next2")
  <2>1. /\ pc[t] = "next1" /\ pc'[t] = "next2" /\ room' = room
        /\ loc' = loc /\ UNCHANGED <<screen, shown>>
        /\ Armed' = Armed /\ Orphans' = Orphans /\ OneTask'
    BY <1>8, BranchAlone
  <2>2. Armed \in BOOLEAN
    BY DEF Armed
  <2>3. Taking(n)
    BY <1>2, <1>6, <1>8, <2>1, <2>2 DEF Taking
  <2>4. ASSUME settled' = settled  PROVE InTurn(t)'
    BY <1>2, <1>6, <2>1, <2>3, <2>4, TakingHeld, Held DEF InTurn
  <2>5. InReady(t)' /\ InPacket(t)'
    BY <2>1 DEF InReady, InPacket
  <2> QED  BY <2>1, <2>4, <2>5 DEF GoesOn, Handling
<1>9. CASE Stmt(t, "next2", "next3", [room EXCEPT !.chosen = @ \cup ({choose} \ {0})])
  <2>1. /\ pc[t] = "next2" /\ pc'[t] = "next3"
        /\ room' = [room EXCEPT !.chosen = @ \cup ({choose} \ {0})]
        /\ loc' = loc /\ UNCHANGED <<screen, shown>>
        /\ Armed' = Armed /\ Orphans' = Orphans /\ OneTask'
    BY <1>9, StmtAlone
  <2>2. room = Cleared /\ Taking(n)
    BY <1>2, <2>1 DEF Handling, InTurn
  <2>3. room' = Took(n)
    BY <1>2, <2>1, <2>2 DEF Took
  <2>4. ASSUME settled' = settled  PROVE InTurn(t)'
    BY <1>2, <2>1, <2>2, <2>3, <2>4, TakingHeld, Held DEF InTurn
  <2>5. InReady(t)' /\ InPacket(t)'
    BY <2>1 DEF InReady, InPacket
  <2> QED  BY <2>1, <2>4, <2>5 DEF GoesOn, Handling
<1>10. CASE /\ pc[t] = "next3" /\ Goto(t, "next4")
            /\ live' = FALSE
            /\ pending' = [k \in TimerIds |-> IF k = timer THEN 0 ELSE pending[k]]
            /\ UNCHANGED <<room, timer, fresh, created, screen, shown, queue, loc>>
  <2>1. pc[t] = "next3" /\ pc'[t] = "next4" /\ UNCHANGED <<room, loc, screen, shown>>
    BY <1>10 DEF Goto, Types
  <2>2. ~Armed' /\ Orphans' = Orphans /\ OneTask'
    BY <1>10, CancelClock
  <2>3. room = Took(n) /\ Taking(n)
    BY <1>2, <2>1 DEF Handling, InTurn
  <2>4. ASSUME settled' = settled  PROVE InTurn(t)'
    BY <1>2, <2>1, <2>2, <2>3, <2>4, TakingHeld, Held DEF InTurn
  <2>5. InReady(t)' /\ InPacket(t)'
    BY <2>1 DEF InReady, InPacket
  <2> QED  BY <2>1, <2>2, <2>4, <2>5 DEF GoesOn, Handling
<1>11. ASSUME NEW to \in {"ban", "pick", "rearm"}, Branch(t, "next4", to),
              to = "ban" => room.status = "BAN", to = "pick" => room.status = "PICK",
              to = "rearm" => room.status \in {"WAIT", "END"}
       PROVE  GoesOn(t)
  <2>1. /\ pc[t] = "next4" /\ pc'[t] = to /\ to # "idle" /\ room' = room
        /\ loc' = loc /\ UNCHANGED <<screen, shown>>
        /\ Armed' = Armed /\ Orphans' = Orphans /\ OneTask'
    BY <1>11, BranchAlone
  <2>2. room = Took(n) /\ Taking(n) /\ ~Armed
    BY <1>2, <2>1 DEF Handling, InTurn
  <2>3. room.status = Found.status
    BY <1>3, <1>4, <2>2
  <2>4. to = "rearm" => room = Turned(n)
    BY <1>11, <2>2, <2>3 DEF Turned
  <2>5. ASSUME settled' = settled  PROVE InTurn(t)'
    <3>1. Taking(n)' /\ ~Armed' /\ Took(n)' = Took(n) /\ Turned(n)' = Turned(n) /\ Found' = Found
      BY <2>1, <2>2, <2>5, TakingHeld, Held
    <3>2. CASE to = "ban"
      BY <1>2, <1>11, <2>1, <2>2, <2>3, <3>1, <3>2 DEF InTurn
    <3>3. CASE to = "pick"
      BY <1>2, <1>11, <2>1, <2>2, <2>3, <3>1, <3>3 DEF InTurn
    <3>4. CASE to = "rearm"
      BY <1>2, <2>1, <2>2, <2>4, <3>1, <3>4 DEF InTurn
    <3> QED  BY <1>11, <3>2, <3>3, <3>4
  <2>6. InReady(t)' /\ InPacket(t)'
    BY <1>11, <2>1 DEF InReady, InPacket
  <2> QED  BY <2>1, <2>5, <2>6 DEF GoesOn, Handling
<1> QED  BY <1>5, <1>7, <1>8, <1>9, <1>10, <1>11 DEF NextProcess

\* The flag and the status within a ban.
LEMMA BanFlags ==
  ASSUME Found \in Rooms, NEW n \in Int
  PROVE  /\ Took(n).banFlage = BanAt /\ Ban1(n).banFlage = BanAt
         /\ Ban3(n).banFlage = BanAt + 1 /\ Ban3(n).status = Found.status
         /\ Ban3(n).pickFlage = Found.pickFlage /\ Ban6(n).banFlage = BanAt + 1
<1>1. PICK c : c = Took(n)
  OBVIOUS
<1>2. c \in Rooms /\ c.banFlage = BanAt /\ c.status = Found.status /\ c.pickFlage = Found.pickFlage
  BY <1>1, TookFields DEF BanAt
<1>3. PICK b : b = Ban1(n)
  OBVIOUS
<1>4. b = [c EXCEPT !.banData[BanAt] = n]
  BY <1>1, <1>3 DEF Ban1
<1>5. DOMAIN b = DOMAIN c /\ b.banFlage = BanAt /\ b.status = Found.status
      /\ b.pickFlage = Found.pickFlage
  BY ONLY <1>2, <1>4 DEF Rooms
<1>6. PICK d : d = Ban3(n)
  OBVIOUS
<1>7. d = [b EXCEPT !.banFlage = BanAt + 1]
  BY <1>3, <1>6 DEF Ban3
<1>8. DOMAIN d = DOMAIN c /\ d.banFlage = BanAt + 1 /\ d.status = Found.status
      /\ d.pickFlage = Found.pickFlage
  BY ONLY <1>2, <1>5, <1>7 DEF Rooms
<1>9. PICK e : e = Ban4(n)
  OBVIOUS
<1>10. DOMAIN e = DOMAIN c /\ e.banFlage = BanAt + 1
  BY <1>2, <1>6, <1>8, <1>9 DEF Ban4, Rooms
<1>11. PICK g : g = Ban5(n)
  OBVIOUS
<1>12. DOMAIN g = DOMAIN c /\ g.banFlage = BanAt + 1
  BY <1>2, <1>6, <1>8, <1>9, <1>10, <1>11 DEF Ban5, Rooms
<1>13. Ban6(n).banFlage = BanAt + 1
  BY <1>2, <1>11, <1>12 DEF Ban6, Rooms
<1> QED  BY <1>1, <1>2, <1>3, <1>5, <1>6, <1>8, <1>13

\* The turn of a ban: nothing runs past the bans when no handler overlaps.
LEMMA BanTurnAlone ==
  ASSUME Types, Timers, OneTask, FoundRight, NEW t \in Threads, Handling(t), BanTurn(t)
  PROVE  GoesOn(t) \/ Ends(t)
<1> DEFINE B == {"ban", "ban1", "ban2", "ban3", "ban4", "ban5", "ban6"}
           f == room.banFlage
<1>1. Found \in Rooms /\ loc[t].num \in Int
  BY DEF FoundRight, Types, Locals
<1>2. PICK n \in Int : n = loc[t].num
  BY <1>1
<1>3. ASSUME pc[t] \in B
      PROVE  /\ Taking(n) /\ ~Armed /\ Found.status = "BAN"
             /\ BanAt \in Nat /\ BanAt < 2 * BanCount /\ BanAt \in BanSlots
  <2>1. Taking(n) /\ ~Armed /\ Found.status = "BAN"
    BY <1>2, <1>3 DEF Handling, InTurn
  <2> QED  BY <1>1, <2>1, BanCountAssumption DEF FoundRight, BanAt, Rooms, BanSlots
<1>4. ASSUME NEW from \in B, NEW to \in B \cup {"rearm"}, NEW r,
             Stmt(t, from, to, r), to \notin {"ban", "ban2"},
             to = "ban1" => r = Ban1(n), to = "ban3" => r = Ban3(n),
             to = "ban4" => r = Ban4(n) /\ BanAt + 1 = 2 * BanCount,
             to = "ban5" => r = Ban5(n), to = "ban6" => r = Ban6(n),
             to = "rearm" => r = Turned(n)
      PROVE  GoesOn(t)
  <2>1. /\ pc[t] = from /\ pc'[t] = to /\ to # "idle" /\ room' = r
        /\ loc' = loc /\ UNCHANGED <<screen, shown>>
        /\ Armed' = Armed /\ Orphans' = Orphans /\ OneTask'
    BY <1>4, StmtAlone
  <2>2. ASSUME settled' = settled  PROVE InTurn(t)'
    <3>1. /\ Taking(n)' /\ ~Armed' /\ Found' = Found /\ Found.status = "BAN"
          /\ BanAt' = BanAt
      BY <1>2, <1>3, <2>1, <2>2, TakingHeld, Held
    <3>2. /\ Ban1(n)' = Ban1(n) /\ Ban3(n)' = Ban3(n) /\ Ban4(n)' = Ban4(n)
          /\ Ban5(n)' = Ban5(n) /\ Ban6(n)' = Ban6(n) /\ Turned(n)' = Turned(n)
      BY <2>2, Held
    <3>3. CASE to = "ban1"
      BY <1>2, <1>4, <2>1, <3>1, <3>2, <3>3 DEF InTurn
    <3>4. CASE to = "ban3"
      BY <1>2, <1>4, <2>1, <3>1, <3>2, <3>4 DEF InTurn
    <3>5. CASE to = "ban4"
      BY <1>2, <1>4, <2>1, <2>2, <3>1, <3>2, <3>5 DEF InTurn
    <3>6. CASE to = "ban5"
      BY <1>2, <1>4, <2>1, <3>1, <3>2, <3>6 DEF InTurn
    <3>7. CASE to = "ban6"
      BY <1>2, <1>4, <2>1, <3>1, <3>2, <3>7 DEF InTurn
    <3>8. CASE to = "rearm"
      BY <1>2, <1>4, <2>1, <3>1, <3>2, <3>8 DEF InTurn
    <3> QED  BY <1>4, <3>3, <3>4, <3>5, <3>6, <3>7, <3>8
  <2>3. InReady(t)' /\ InPacket(t)'
    BY <1>4, <2>1 DEF InReady, InPacket
  <2> QED  BY <2>1, <2>2, <2>3 DEF GoesOn, Handling
<1>5. ASSUME f \in BanSlots, Stmt(t, "ban", "ban1", [room EXCEPT !.banData[f] = loc[t].num])
      PROVE  GoesOn(t)
  <2>1. room = Took(n)
    BY <1>2, <1>5, StmtMoves DEF Handling, InTurn
  <2>2. [room EXCEPT !.banData[f] = loc[t].num] = Ban1(n)
    BY <1>1, <1>2, <2>1, BanFlags DEF Ban1
  <2> QED  BY <1>4, <1>5, <2>2
<1>6. ASSUME f \notin BanSlots, Branch(t, "ban", "idle")  PROVE FALSE
  <2>1. room = Took(n) /\ pc[t] \in B
    BY <1>2, <1>6, BranchMoves DEF Handling, InTurn
  <2> QED  BY <1>1, <1>3, <1>6, <2>1, BanFlags
<1>7. ASSUME pc[t] = "ban1", Goto(t, "ban2"), loc' = [loc EXCEPT ![t].flag = f],
             UNCHANGED <<shared, queue>>
      PROVE  GoesOn(t)
  <2>1. /\ pc'[t] = "ban2" /\ loc'[t].num = n /\ loc'[t].flag = f
        /\ UNCHANGED <<room, timer, pending, created, screen, shown>>
    BY <1>2, <1>7 DEF Goto, shared, clock, Types, Locals
  <2>2. Armed' = Armed /\ Orphans' = Orphans /\ OneTask'
    BY <2>1, ClockStays
  <2>3. room = Ban1(n) /\ f = BanAt
    BY <1>1, <1>2, <1>7, BanFlags DEF Handling, InTurn
  <2>4. ASSUME settled' = settled  PROVE InTurn(t)'
    <3>1. /\ Taking(n)' /\ ~Armed' /\ Found' = Found /\ Found.status = "BAN"
          /\ BanAt' = BanAt /\ room' = Ban1(n)'
      BY <1>3, <1>7, <2>1, <2>2, <2>3, <2>4, TakingHeld, Held
    <3> QED  BY <2>1, <2>3, <3>1 DEF InTurn
  <2>5. InReady(t)' /\ InPacket(t)'
    BY <2>1 DEF InReady, InPacket
  <2> QED  BY <2>1, <2>2, <2>4, <2>5 DEF GoesOn, Handling
<1>8. ASSUME Stmt(t, "ban2", "ban3", [room EXCEPT !.banFlage = loc[t].flag + 1])
      PROVE  GoesOn(t)
  <2>1. room = Ban1(n) /\ loc[t].flag = BanAt
    BY <1>2, <1>8, StmtMoves DEF Handling, InTurn
  <2>2. [room EXCEPT !.banFlage = loc[t].flag + 1] = Ban3(n)
    BY <2>1 DEF Ban3
  <2> QED  BY <1>4, <1>8, <2>2
<1>9. ASSUME pc[t] = "ban3"
      PROVE  room = Ban3(n) /\ f = BanAt + 1 /\ room.status = "BAN"
             /\ room.pickFlage = Found.pickFlage
  <2>1. room = Ban3(n)
    BY <1>2, <1>9 DEF Handling, InTurn
  <2> QED  BY <1>1, <1>3, <1>9, <2>1, BanFlags
<1>10. ASSUME NEW r, r = [room EXCEPT !.status = "PICK", !.Json.Status = "PICK",
                !.Json.pickFlage = IF room.status = "PICK" THEN @ ELSE room.pickFlage],
              f = 2 * BanCount, Stmt(t, "ban3", "ban4", r)
       PROVE  GoesOn(t)
  <2>1. room = Ban3(n) /\ f = BanAt + 1 /\ room.status = "BAN"
        /\ room.pickFlage = Found.pickFlage
    BY <1>9, <1>10, StmtMoves
  <2>2. r = Ban4(n)
    BY <1>10, <2>1 DEF Ban4
  <2> QED  BY <1>4, <1>10, <2>1, <2>2
<1>11. ASSUME Stmt(t, "ban4", "ban5", [room EXCEPT !.nowCtrl = 0])
       PROVE  GoesOn(t)
  <2>1. room = Ban4(n) /\ BanAt + 1 = 2 * BanCount
    BY <1>2, <1>11, StmtMoves DEF Handling, InTurn
  <2>2. [room EXCEPT !.nowCtrl = 0] = Ban5(n)
    BY <2>1 DEF Ban5
  <2> QED  BY <1>4, <1>11, <2>2
<1>12. ASSUME f \in BanSlots, Stmt(t, "ban3", "ban5", [room EXCEPT !.nowCtrl = banProcess[f]])
       PROVE  GoesOn(t)
  <2>1. room = Ban3(n) /\ f = BanAt + 1
    BY <1>9, <1>12, StmtMoves
  <2>2. BanAt + 1 # 2 * BanCount
    BY <1>12, <2>1, BanCountAssumption DEF BanSlots
  <2>3. [room EXCEPT !.nowCtrl = banProcess[f]] = Ban5(n)
    BY <2>1, <2>2 DEF Ban5
  <2> QED  BY <1>4, <1>12, <2>3
<1>13. ASSUME f > 2 * BanCount, Branch(t, "ban3", "idle")  PROVE FALSE
  <2>1. f = BanAt + 1 /\ pc[t] \in B
    BY <1>9, <1>13, BranchMoves
  <2> QED  BY <1>3, <1>13, <2>1, BanCountAssumption
<1>14. ASSUME Stmt(t, "ban5", "ban6", [room EXCEPT !.Json.nowCtrl = room.nowCtrl])
       PROVE  GoesOn(t)
  <2>1. room = Ban5(n)
    BY <1>2, <1>14, StmtMoves DEF Handling, InTurn
  <2>2. [room EXCEPT !.Json.nowCtrl = room.nowCtrl] = Ban6(n)
    BY <2>1 DEF Ban6
  <2> QED  BY <1>4, <1>14, <2>2
<1>15. ASSUME Stmt(t, "ban6", "rearm", [room EXCEPT !.Json.banFlage = f])
       PROVE  GoesOn(t)
  <2>1. room = Ban6(n) /\ pc[t] \in B
    BY <1>2, <1>15, StmtMoves DEF Handling, InTurn
  <2>2. f = BanAt + 1
    BY <1>1, <2>1, BanFlags
  <2>3. [room EXCEPT !.Json.banFlage = f] = Banned(n)
    BY <2>1, <2>2 DEF Banned
  <2>4. Turned(n) = Banned(n)
    BY <1>3, <2>1 DEF Turned
  <2> QED  BY <1>4, <1>15, <2>3, <2>4
<1> QED  BY <1>5, <1>6, <1>7, <1>8, <1>10, <1>11, <1>12, <1>13, <1>14, <1>15 DEF BanTurn

\* The flag and the status within a pick.
LEMMA PickFlags ==
  ASSUME Found \in Rooms, NEW n \in Int
  PROVE  /\ Took(n).pickFlage = PickAt /\ Pick1(n).pickFlage = PickAt
         /\ Pick3(n).pickFlage = PickAt + 1 /\ Pick5(n).pickFlage = PickAt + 1
<1>1. PICK c : c = Took(n)
  OBVIOUS
<1>2. c \in Rooms /\ c.pickFlage = PickAt
  BY <1>1, TookFields DEF PickAt
<1>3. PICK b : b = Pick1(n)
  OBVIOUS
<1>4. b = [c EXCEPT !.pickData[PickAt] = n]
  BY <1>1, <1>3 DEF Pick1
<1>5. DOMAIN b = DOMAIN c /\ b.pickFlage = PickAt
  BY ONLY <1>2, <1>4 DEF Rooms
<1>6. PICK d : d = Pick3(n)
  OBVIOUS
<1>7. d = [b EXCEPT !.pickFlage = PickAt + 1]
  BY <1>3, <1>6 DEF Pick3
<1>8. DOMAIN d = DOMAIN c /\ d.pickFlage = PickAt + 1
  BY ONLY <1>2, <1>5, <1>7 DEF Rooms
<1>9. PICK e : e = Pick4(n)
  OBVIOUS
<1>10. DOMAIN e = DOMAIN c /\ e.pickFlage = PickAt + 1
  BY <1>2, <1>6, <1>8, <1>9 DEF Pick4, Rooms
<1>11. Pick5(n).pickFlage = PickAt + 1
  BY <1>2, <1>9, <1>10 DEF Pick5, Rooms
<1> QED  BY <1>1, <1>2, <1>3, <1>5, <1>6, <1>8, <1>11

\* The turn of a pick: nothing runs past the picks when no handler overlaps.
LEMMA PickTurnAlone ==
  ASSUME Types, Timers, OneTask, FoundRight, NEW t \in Threads, Handling(t), PickTurn(t)
  PROVE  GoesOn(t) \/ Ends(t)
<1> DEFINE P == {"pick", "pick1", "pick2", "pick3", "pick4", "pick5"}
           f == room.pickFlage
<1>1. Found \in Rooms /\ loc[t].num \in Int
  BY DEF FoundRight, Types, Locals
<1>2. PICK n \in Int : n = loc[t].num
  BY <1>1
<1>3. ASSUME pc[t] \in P
      PROVE  /\ Taking(n) /\ ~Armed /\ Found.status = "PICK"
             /\ PickAt \in Nat /\ PickAt < 10 /\ PickAt \in PickSlots
  <2>1. Taking(n) /\ ~Armed /\ Found.status = "PICK"
    BY <1>2, <1>3 DEF Handling, InTurn
  <2> QED  BY <1>1, <2>1 DEF FoundRight, PickAt, Rooms, PickSlots
<1>4. ASSUME NEW from \in P, NEW to \in P \cup {"rearm"}, NEW r,
             Stmt(t, from, to, r), to \notin {"pick", "pick2"},
             to = "pick1" => r = Pick1(n), to = "pick3" => r = Pick3(n),
             to = "pick4" => r = Pick4(n), to = "pick5" => r = Pick5(n),
             to = "rearm" => r = Turned(n)
      PROVE  GoesOn(t)
  <2>1. /\ pc[t] = from /\ pc'[t] = to /\ to # "idle" /\ room' = r
        /\ loc' = loc /\ UNCHANGED <<screen, shown>>
        /\ Armed' = Armed /\ Orphans' = Orphans /\ OneTask'
    BY <1>4, StmtAlone
  <2>2. ASSUME settled' = settled  PROVE InTurn(t)'
    <3>1. /\ Taking(n)' /\ ~Armed' /\ Found' = Found /\ Found.status = "PICK"
          /\ PickAt' = PickAt
      BY <1>2, <1>3, <2>1, <2>2, TakingHeld, Held
    <3>2. /\ Pick1(n)' = Pick1(n) /\ Pick3(n)' = Pick3(n) /\ Pick4(n)' = Pick4(n)
          /\ Pick5(n)' = Pick5(n) /\ Turned(n)' = Turned(n)
      BY <2>2, Held
    <3>3. CASE to = "pick1"
      BY <1>2, <1>4, <2>1, <3>1, <3>2, <3>3 DEF InTurn
    <3>4. CASE to = "pick3"
      BY <1>2, <1>4, <2>1, <3>1, <3>2, <3>4 DEF InTurn
    <3>5. CASE to = "pick4"
      BY <1>2, <1>4, <2>1, <3>1, <3>2, <3>5 DEF InTurn
    <3>6. CASE to = "pick5"
      BY <1>2, <1>4, <2>1, <3>1, <3>2, <3>6 DEF InTurn
    <3>7. CASE to = "rearm"
      BY <1>2, <1>4, <2>1, <3>1, <3>2, <3>7 DEF InTurn
    <3> QED  BY <1>4, <3>3, <3>4, <3>5, <3>6, <3>7
  <2>3. InReady(t)' /\ InPacket(t)'
    BY <1>4, <2>1 DEF InReady, InPacket
  <2> QED  BY <2>1, <2>2, <2>3 DEF GoesOn, Handling
<1>5. ASSUME f \in PickSlots, Stmt(t, "pick", "pick1", [room EXCEPT !.pickData[f] = loc[t].num])
      PROVE  GoesOn(t)
  <2>1. room = Took(n)
    BY <1>2, <1>5, StmtMoves DEF Handling, InTurn
  <2>2. [room EXCEPT !.pickData[f] = loc[t].num] = Pick1(n)
    BY <1>1, <1>2, <2>1, PickFlags DEF Pick1
  <2> QED  BY <1>4, <1>5, <2>2
<1>6. ASSUME f \notin PickSlots, Branch(t, "pick", "idle")  PROVE FALSE
  <2>1. room = Took(n) /\ pc[t] \in P
    BY <1>2, <1>6, BranchMoves DEF Handling, InTurn
  <2> QED  BY <1>1, <1>3, <1>6, <2>1, PickFlags
<1>7. ASSUME pc[t] = "pick1", Goto(t, "pick2"), loc' = [loc EXCEPT ![t].flag = f],
             UNCHANGED <<shared, queue>>
      PROVE  GoesOn(t)
  <2>1. /\ pc'[t] = "pick2" /\ loc'[t].num = n /\ loc'[t].flag = f
        /\ UNCHANGED <<room, timer, pending, created, screen, shown>>
    BY <1>2, <1>7 DEF Goto, shared, clock, Types, Locals
  <2>2. Armed' = Armed /\ Orphans' = Orphans /\ OneTask'
    BY <2>1, ClockStays
  <2>3. room = Pick1(n) /\ f = PickAt
    BY <1>1, <1>2, <1>7, PickFlags DEF Handling, InTurn
  <2>4. ASSUME settled' = settled  PROVE InTurn(t)'
    <3>1. /\ Taking(n)' /\ ~Armed' /\ Found' = Found /\ Found.status = "PICK"
          /\ PickAt' = PickAt /\ room' = Pick1(n)'
      BY <1>3, <1>7, <2>1, <2>2, <2>3, <2>4, TakingHeld, Held
    <3> QED  BY <2>1, <2>3, <3>1 DEF InTurn
  <2>5. InReady(t)' /\ InPacket(t)'
    BY <2>1 DEF InReady, InPacket
  <2> QED  BY <2>1, <2>2, <2>4, <2>5 DEF GoesOn, Handling
<1>8. ASSUME Stmt(t, "pick2", "pick3", [room EXCEPT !.pickFlage = loc[t].flag + 1])
      PROVE  GoesOn(t)
  <2>1. room = Pick1(n) /\ loc[t].flag = PickAt
    BY <1>2, <1>8, StmtMoves DEF Handling, InTurn
  <2>2. [room EXCEPT !.pickFlage = loc[t].flag + 1] = Pick3(n)
    BY <2>1 DEF Pick3
  <2> QED  BY <1>4, <1>8, <2>2
<1>9. ASSUME pc[t] = "pick3"  PROVE room = Pick3(n) /\ f = PickAt + 1
  <2>1. room = Pick3(n)
    BY <1>2, <1>9 DEF Handling, InTurn
  <2> QED  BY <1>1, <2>1, PickFlags
<1>10. ASSUME f = 10, Stmt(t, "pick3", "pick4", [room EXCEPT !.status = "END", !.Json.Status = "END"])
       PROVE  GoesOn(t)
  <2>1. room = Pick3(n) /\ f = PickAt + 1
    BY <1>9, <1>10, StmtMoves
  <2>2. [room EXCEPT !.status = "END", !.Json.Status = "END"] = Pick4(n)
    BY <1>10, <2>1 DEF Pick4
  <2> QED  BY <1>4, <1>10, <2>2
<1>11. ASSUME f \in PickSlots, Stmt(t, "pick3", "pick4", [room EXCEPT !.nowCtrl = PickCtrl(f)])
       PROVE  GoesOn(t)
  <2>1. room = Pick3(n) /\ f = PickAt + 1
    BY <1>9, <1>11, StmtMoves
  <2>2. PickAt + 1 # 10
    BY <1>11, <2>1 DEF PickSlots
  <2>3. [room EXCEPT !.nowCtrl = PickCtrl(f)] = Pick4(n)
    BY <2>1, <2>2 DEF Pick4, PickCtrl
  <2> QED  BY <1>4, <1>11, <2>3
<1>12. ASSUME f > 10, Branch(t, "pick3", "idle")  PROVE FALSE
  <2>1. f = PickAt + 1 /\ pc[t] \in P
    BY <1>9, <1>12, BranchMoves
  <2> QED  BY <1>3, <1>12, <2>1
<1>13. ASSUME Stmt(t, "pick4", "pick5", [room EXCEPT !.Json.nowCtrl = room.nowCtrl])
       PROVE  GoesOn(t)
  <2>1. room = Pick4(n)
    BY <1>2, <1>13, StmtMoves DEF Handling, InTurn
  <2>2. [room EXCEPT !.Json.nowCtrl = room.nowCtrl] = Pick5(n)
    BY <2>1 DEF Pick5
  <2> QED  BY <1>4, <1>13, <2>2
<1>14. ASSUME Stmt(t, "pick5", "rearm", [room EXCEPT !.Json.pickFlage = f])
       PROVE  GoesOn(t)
  <2>1. room = Pick5(n) /\ pc[t] \in P
    BY <1>2, <1>14, StmtMoves DEF Handling, InTurn
  <2>2. f = PickAt + 1
    BY <1>1, <2>1, PickFlags
  <2>3. [room EXCEPT !.Json.pickFlage = f] = Picked(n)
    BY <2>1, <2>2 DEF Picked
  <2>4. Turned(n) = Picked(n)
    BY <1>3, <2>1 DEF Turned
  <2> QED  BY <1>4, <1>14, <2>3, <2>4
<1> QED  BY <1>5, <1>6, <1>7, <1>8, <1>10, <1>11, <1>12, <1>13, <1>14 DEF PickTurn

\* The end of a turn: the next timer, unless the draft is over, and the SYNC.
LEMMA EndProcessAlone ==
  ASSUME Types, Timers, Timers', OneTask, FoundRight, NEW t \in Threads, Handling(t), EndProcess(t)
  PROVE  GoesOn(t) \/ Ends(t)
<1>1. loc[t].num \in Int
  BY DEF Types, Locals
<1>2. PICK n \in Int : n = loc[t].num
  BY <1>1
<1>3. ASSUME pc[t] \in {"rearm", "rearm_timer", "rearm_schedule"}
      PROVE  room = Turned(n) /\ Taking(n) /\ ~Armed
  BY <1>2, <1>3 DEF Handling, InTurn
<1>4. ASSUME room' = room, loc' = loc, room = Turned(n), Taking(n), Orphans' = Orphans,
             pc'[t] = "sync", UNCHANGED <<screen, shown>>, OneTask',
             Armed' <=> room.status # "END"
      PROVE  GoesOn(t)
  <2>1. ASSUME settled' = settled  PROVE InTurn(t)'
    <3>1. Taking(n)' /\ Turned(n)' = Turned(n)
      BY <1>4, <2>1, TakingHeld, Held
    <3>2. TurnDone(n)'
      BY <1>4, <3>1 DEF TurnDone, Armed
    <3> QED  BY <1>2, <1>4, <3>2 DEF InTurn
  <2>2. InReady(t)' /\ InPacket(t)'
    BY <1>4 DEF InReady, InPacket
  <2> QED  BY <1>4, <2>1, <2>2 DEF GoesOn, Handling
<1>5. ASSUME Schedule(t, "rearm", "rearm_timer", "rearm_schedule", "sync"),
             pc[t] = "rearm" => room.status # "END"
      PROVE  GoesOn(t)
  <2>1. pc[t] = "rearm_schedule" => ~Armed /\ live /\ fresh
    BY DEF Handling, InTurn
  <2>2. /\ OneTask' /\ UNCHANGED <<room, loc, screen, shown>>
        /\ \/ /\ pc[t] = "rearm" /\ pc'[t] = "rearm_timer" /\ fresh' = TRUE
              /\ Armed' = Armed /\ Orphans' = Orphans
           \/ /\ pc[t] = "rearm_timer" /\ pc'[t] = "rearm_schedule" /\ fresh' = fresh
              /\ live' = TRUE /\ ~Armed' /\ Orphans' = Orphans + IF Armed THEN 1 ELSE 0
           \/ /\ pc[t] = "rearm_schedule" /\ pc'[t] = "sync"
              /\ Armed' /\ Orphans' = Orphans
    BY <1>5, <2>1, ScheduleAlone
  <2>3. room = Turned(n) /\ Taking(n) /\ ~Armed
    BY <1>3, <2>2
  <2>4. pc[t] \in {"rearm_timer", "rearm_schedule"} => fresh /\ room.status # "END"
    BY DEF Handling, InTurn
  <2>5. CASE pc[t] = "rearm_schedule"
    BY <1>4, <2>2, <2>3, <2>4, <2>5
  <2>6. CASE pc[t] \in {"rearm", "rearm_timer"}
    <3>1. /\ ~Armed' /\ Orphans' = Orphans /\ fresh' /\ room.status # "END"
          /\ pc'[t] \in {"rearm_timer", "rearm_schedule"}
          /\ pc'[t] = "rearm_schedule" => live'
      BY <1>5, <2>2, <2>3, <2>4, <2>6, OrphansType
    <3>2. ASSUME settled' = settled  PROVE InTurn(t)'
      <4>1. Taking(n)' /\ Turned(n)' = Turned(n)
        BY <2>3, <3>1, <3>2, TakingHeld, Held
      <4> QED  BY <1>2, <2>2, <2>3, <3>1, <4>1 DEF InTurn
    <3>3. InReady(t)' /\ InPacket(t)'
      BY <3>1 DEF InReady, InPacket
    <3> QED  BY <2>2, <3>1, <3>2, <3>3 DEF GoesOn, Handling
  <2> QED  BY <2>2, <2>5, <2>6
<1>6. ASSUME room.status = "END", Branch(t, "rearm", "sync")  PROVE GoesOn(t)
  <2>1. /\ pc[t] = "rearm" /\ pc'[t] = "sync" /\ room' = room
        /\ loc' = loc /\ UNCHANGED <<screen, shown>>
        /\ Armed' = Armed /\ Orphans' = Orphans /\ OneTask'
    BY <1>6, BranchAlone
  <2> QED  BY <1>3, <1>4, <1>6, <2>1
<1>7. ASSUME Text(t, "sync", "sync1")  PROVE GoesOn(t)
  <2>1. /\ pc[t] = "sync" /\ pc'[t] = "sync1"
        /\ UNCHANGED <<room, timer, pending, created, screen, shown>>
        /\ loc'[t].data = Snapshot(room)
    BY <1>7 DEF Text, Goto, shared, clock, Types, NoLocals
  <2>2. Armed' = Armed /\ Orphans' = Orphans /\ OneTask'
    BY <2>1, ClockStays
  <2>3. TurnDone(n)
    BY <1>2, <2>1 DEF Handling, InTurn
  <2>4. ASSUME settled' = settled  PROVE InTurn(t)'
    <3>1. Taking(n) /\ room = Turned(n) /\ (Armed <=> room.status # "END")
      BY <2>3 DEF TurnDone
    <3>2. Taking(n)' /\ Turned(n)' = Turned(n)
      BY <2>2, <2>4, <3>1, TakingHeld, Held
    <3>3. Armed' <=> room'.status # "END"
      BY <2>1, <2>2, <3>1
    <3>4. TurnDone(n)'
      BY <2>1, <3>1, <3>2, <3>3 DEF TurnDone, Armed
    <3>5. Snapshot(room)' = Snapshot(room)
      BY <2>1 DEF Snapshot
    <3> QED  BY <2>1, <3>4, <3>5 DEF InTurn
  <2>5. InReady(t)' /\ InPacket(t)'
    BY <2>1 DEF InReady, InPacket
  <2> QED  BY <2>1, <2>2, <2>4, <2>5 DEF GoesOn, Handling
<1>8. ASSUME Write(t, "sync1", TRUE)  PROVE Ends(t)
  <2>1. /\ pc[t] = "sync1" /\ pc'[t] = "idle"
        /\ UNCHANGED <<room, timer, pending, created>>
        /\ screen' = loc[t].data /\ shown' = 0
    BY <1>8 DEF Write, Return, Goto, clock, Types
  <2>2. loc[t].data = Snapshot(room) /\ \E k \in Int : TurnDone(k)
    BY <2>1 DEF Handling, InTurn
  <2>3. PICK k \in Int : TurnDone(k)
    BY <2>2
  <2>4. OneTask'
    BY <2>1, ClockStays
  <2> QED  BY <2>1, <2>2, <2>3, <2>4, TurnIsAStep DEF Ends
<1> QED  BY <1>5, <1>6, <1>7, <1>8 DEF EndProcess

-----------------------------------------------------------------------------
\* A handler begins where the room is at rest: with a packet, or as a task.
LEMMA BeginsAlone ==
  ASSUME Types, Timers, OneTask, FoundRight, settled = Rest, NEW t \in Threads, Take(t) \/ Fire(t)
  PROVE  GoesOn(t) /\ pc[t] = "idle"
<1>1. Found = room /\ settled.screen = screen /\ settled.shown = shown
  BY DEF Found, Rest
<1>2. ClockSame
  BY DEF Rest, ClockSame, Armed, Orphans
<1>3. CASE Take(t)
  <2>1. PICK p \in queue : loc' = [loc EXCEPT ![t].team = p.team, ![t].num = p.num] /\ Goto(t, p.pt)
    BY <1>3 DEF Take
  <2>2. p \in Packets
    BY <2>1 DEF Types, Packets
  <2>3. p.pt \in {"READY", "CHOOSE", "PREVIEW"} /\ p.num \in Nums
    BY <2>2, PacketAssumption DEF Nums
  <2>4. /\ pc[t] = "idle" /\ pc'[t] = p.pt /\ loc'[t].num = p.num /\ t \in PackThreads
        /\ UNCHANGED <<room, timer, pending, created, screen, shown>>
    <3>1. /\ pc[t] = "idle" /\ t \in PackThreads
          /\ UNCHANGED <<room, timer, pending, created, screen, shown>>
      BY <1>3 DEF Take, shared, clock
    <3>2. pc'[t] = p.pt
      BY <2>1 DEF Goto, Types
    <3>3. loc'[t].num = p.num
      BY <2>1 DEF Types, Locals
    <3> QED  BY <3>1, <3>2, <3>3
  <2>5. Armed' = Armed /\ Orphans' = Orphans /\ OneTask'
    BY <2>4, ClockStays
  <2>6. ASSUME settled' = settled  PROVE InReady(t)' /\ InPacket(t)' /\ InTurn(t)'
    <3>1. Found' = room' /\ ClockSame' /\ (loc[t].num \in Nums)'
      BY <1>1, <1>2, <2>3, <2>4, <2>5, <2>6, Held DEF ClockSame, Nums
    <3>2. InReady(t)'
      BY <2>3, <2>4, <3>1 DEF InReady
    <3>3. InPacket(t)'
      BY <2>3, <2>4, <3>1 DEF InPacket
    <3>4. InTurn(t)'
      BY <2>3, <2>4 DEF InTurn
    <3> QED  BY <3>2, <3>3, <3>4
  <2>7. p.pt # "idle"
    BY <2>3
  <2> QED  BY <1>1, <2>4, <2>5, <2>6, <2>7 DEF GoesOn, Handling
<1>4. CASE Fire(t)
  <2>1. /\ t \in Waiting /\ pc[t] = "idle" /\ pc'[t] = "next" /\ loc'[t].num = room.previewNum
        /\ pending' = [pending EXCEPT ![t] = @ - 1]
        /\ UNCHANGED <<room, timer, created, screen, shown>>
    BY <1>4 DEF Fire, Goto, Types, Locals
  <2>2. /\ OneTask'
        /\ \/ Armed /\ ~Armed' /\ Orphans' = Orphans
           \/ Armed' = Armed /\ Orphans > 0 /\ Orphans' = Orphans - 1
    BY <2>1, FireClock
  <2>3. Called(room.previewNum, Armed', Orphans')
    <3>1. CASE Armed /\ ~Armed' /\ Orphans' = Orphans
      <4>1. settled.armed /\ Orphans' = settled.orphans
        BY <1>2, <3>1 DEF ClockSame
      <4>2. Armed' = FALSE
        BY <3>1 DEF Armed
      <4> QED  BY <1>1, <4>1, <4>2 DEF Called
    <3>2. CASE Armed' = Armed /\ Orphans > 0 /\ Orphans' = Orphans - 1
      <4>1. (Armed' = settled.armed) /\ settled.orphans > 0 /\ Orphans' = settled.orphans - 1
        BY <1>2, <3>2 DEF ClockSame
      <4> QED  BY <1>1, <4>1 DEF Called
    <3> QED  BY <2>2, <3>1, <3>2
  <2>4. PICK n : n = room.previewNum
    OBVIOUS
  <2>5. ASSUME settled' = settled  PROVE InTurn(t)'
    <3>1. Called(n, Armed, Orphans)'
      BY <2>3, <2>4, <2>5, Held
    <3>2. loc'[t].num = n /\ Found' = room'
      BY <1>1, <2>1, <2>4, <2>5, Held
    <3> QED  BY <2>1, <3>1, <3>2 DEF InTurn
  <2>6. InReady(t)' /\ InPacket(t)'
    BY <2>1 DEF InReady, InPacket
  <2> QED  BY <1>1, <2>1, <2>2, <2>5, <2>6 DEF GoesOn, Handling
<1> QED  BY <1>3, <1>4

\* Any other step is one of a handler in progress.
LEMMA InProgress ==
  ASSUME NEW t \in Threads, Step(t), ~Take(t), ~Fire(t)
  PROVE  pc[t] # "idle"
<1>1. ASSUME NEW from, NEW to, NEW r, Stmt(t, from, to, r)  PROVE pc[t] = from
  BY <1>1 DEF Stmt
<1>2. ASSUME NEW from, NEW to, Branch(t, from, to)  PROVE pc[t] = from
  BY <1>2 DEF Branch, Stmt
<1>3. ASSUME NEW from, NEW new, NEW add, NEW to, Schedule(t, from, new, add, to)
      PROVE  pc[t] \in {from, new, add}
  BY <1>3 DEF Schedule, Branch, Stmt
<1>4. ASSUME NEW from, NEW to, Text(t, from, to)  PROVE pc[t] = from
  BY <1>4 DEF Text
<1>5. ASSUME NEW from, NEW b, Write(t, from, b)  PROVE pc[t] = from
  BY <1>5 DEF Write
<1>6. Ready(t) => pc[t] # "idle"
  BY <1>1, <1>2, <1>4, <1>5 DEF Ready
<1>7. StartBan(t) => pc[t] # "idle"
  BY <1>1, <1>2, <1>3 DEF StartBan
<1>8. Choose(t) => pc[t] # "idle"
  BY <1>2 DEF Choose
<1>9. Preview(t) => pc[t] # "idle"
  BY <1>1, <1>2 DEF Preview
<1>10. NextProcess(t) => pc[t] # "idle"
  BY <1>1, <1>2 DEF NextProcess
<1>11. BanTurn(t) => pc[t] # "idle"
  BY <1>1, <1>2 DEF BanTurn
<1>12. PickTurn(t) => pc[t] # "idle"
  BY <1>1, <1>2 DEF PickTurn
<1>13. EndProcess(t) => pc[t] # "idle"
  <2>1. Schedule(t, "rearm", "rearm_timer", "rearm_schedule", "sync") => pc[t] # "idle"
    BY <1>3
  <2>2. Branch(t, "rearm", "sync") \/ Text(t, "sync", "sync1") \/ Write(t, "sync1", TRUE)
          => pc[t] # "idle"
    BY <1>2, <1>4, <1>5
  <2> QED  BY <2>1, <2>2 DEF EndProcess
<1> QED  BY <1>6, <1>7, <1>8, <1>9, <1>10, <1>11, <1>12, <1>13 DEF Step

\* Who is busy after step t, where no two are.
LEMMA BusyAlone ==
  ASSUME NEW t \in Threads, NEW to, DOMAIN pc = Threads, pc' = [pc EXCEPT ![t] = to],
         Cardinality(Busy') <= 1
  PROVE  /\ pc'[t] # "idle" => Busy' = {t} /\ Busy \subseteq {t} /\ Cardinality(Busy') = 1
         /\ pc'[t] = "idle" /\ Busy = {t} => Busy' = {}
<1>1. IsFiniteSet(Busy')
  <2>1. IsFiniteSet(TimerIds)
    BY FS_Interval, ThreadAssumption, 1 \in Int, MaxTimers \in Int DEF TimerIds
  <2>2. IsFiniteSet(Threads)
    BY <2>1, ThreadAssumption, FS_Union DEF Threads
  <2>3. Busy' \subseteq Threads
    BY DEF Busy
  <2> QED  BY <2>2, <2>3, FS_Subset
<1>2. \A u \in Threads : u # t => pc'[u] = pc[u]
  OBVIOUS
<1>3. ASSUME pc'[t] # "idle"
      PROVE  Busy' = {t} /\ Busy \subseteq {t} /\ Cardinality(Busy') = 1
  <2>1. t \in Busy'
    BY <1>3 DEF Busy
  <2>2. Cardinality(Busy' \ {t}) = Cardinality(Busy') - 1
    BY <1>1, <2>1, FS_RemoveElement
  <2>3. IsFiniteSet(Busy' \ {t})
    BY <1>1, FS_Subset
  <2>4. Cardinality(Busy' \ {t}) \in Nat /\ Cardinality(Busy') \in Nat
    BY <1>1, <2>3, FS_CardinalityType
  <2>5. Cardinality(Busy' \ {t}) = 0 /\ Cardinality(Busy') = 1
    BY <2>2, <2>4
  <2>6. Busy' \ {t} = {}
    BY <2>3, <2>5, FS_EmptySet
  <2>7. Busy' = {t}
    BY <2>1, <2>6
  <2>8. Busy \subseteq {t}
    BY <1>2, <2>7 DEF Busy
  <2> QED  BY <2>5, <2>7, <2>8
<1>4. ASSUME pc'[t] = "idle", Busy = {t}  PROVE Busy' = {}
  BY <1>2, <1>4 DEF Busy
<1> QED  BY <1>3, <1>4

\* Where handlers do not overlap, a step leaves the room at rest as it is, or
\* the handler that ends with it was one step of LOLM3BanRoom.
LEMMA AloneStep ==
  ASSUME Types, Timers, Timers', Alone, NEW t \in Threads, Step(t), History(t),
         Cardinality(Busy') <= 1
  PROVE  Alone' /\ (settled' = settled \/ Room!Next)
<1>1. FoundRight /\ OneTask
  BY DEF Alone
<1>2. Kept(t)
  BY StepKept
<1>3. PICK to : pc' = [pc EXCEPT ![t] = to]
  BY <1>2 DEF Kept
<1>4. /\ pc'[t] # "idle" => Busy' = {t} /\ Busy \subseteq {t} /\ Cardinality(Busy') = 1
      /\ pc'[t] = "idle" /\ Busy = {t} => Busy' = {}
  BY <1>3, BusyAlone DEF Types
<1>5. ASSUME GoesOn(t)  PROVE Alone' /\ settled' = settled
  <2>1. pc'[t] # "idle" /\ OneTask'
    BY <1>5 DEF GoesOn
  <2>2. Busy' = {t} /\ Cardinality(Busy') = 1
    BY <1>4, <2>1
  <2>3. settled' = settled
    BY <2>2 DEF History
  <2>4. FoundRight'
    BY <1>1, <2>3, Held DEF FoundRight
  <2>5. Handling(t)'
    BY <1>5, <2>3 DEF GoesOn
  <2>6. Busy' # {} /\ \A u \in Busy' : u = t
    BY <2>2
  <2> QED  BY <2>1, <2>2, <2>3, <2>4, <2>5, <2>6 DEF Alone, Handling
<1>6. CASE Take(t) \/ Fire(t)
  <2>1. pc'[t] # "idle"
    <3>1. CASE Take(t)
      <4>1. PICK p \in queue : Goto(t, p.pt)
        BY <3>1 DEF Take
      <4>2. p \in Packets
        BY <4>1 DEF Types, Packets
      <4>3. p.pt # "idle"
        BY <4>2, PacketAssumption
      <4> QED  BY <4>1, <4>3 DEF Goto, Types
    <3>2. CASE Fire(t)
      BY <3>2 DEF Fire, Goto, Types
    <3> QED  BY <1>6, <3>1, <3>2
  <2>2. pc[t] = "idle"
    BY <1>6 DEF Take, Fire
  <2>3. Busy = {}
    BY <1>4, <2>1, <2>2 DEF Busy
  <2>4. settled = Rest
    BY <2>3 DEF Alone
  <2> QED  BY <1>1, <1>5, <1>6, <2>4, BeginsAlone
<1>7. CASE ~Take(t) /\ ~Fire(t)
  <2>1. t \in Busy
    BY <1>7, InProgress DEF Busy
  <2>2. Busy = {t} /\ Handling(t)
    BY <2>1 DEF Alone, Handling
  <2>3. GoesOn(t) \/ Ends(t)
    BY <1>1, <1>7, <2>2, ReadyAlone, StartBanAlone, ChooseAlone, PreviewAlone, NextProcessAlone,
       BanTurnAlone, PickTurnAlone, EndProcessAlone DEF Step
  <2>4. ASSUME Ends(t)  PROVE Alone' /\ (settled' = settled \/ Room!Next)
    <3>1. Busy' = {}
      BY <1>4, <2>2, <2>4 DEF Ends
    <3>2. settled' = Rest'
      BY <3>1, FS_EmptySet DEF History
    <3>3. OneTask' /\ FoundRight' /\ (settled' = settled \/ Room!Next)
      BY <2>4, <3>2 DEF Ends
    <3> QED  BY <3>1, <3>2, <3>3 DEF Alone
  <2> QED  BY <1>5, <2>3, <2>4
<1> QED  BY <1>6, <1>7

\* The room at rest at first, whichever start was chosen.
LEMMA AloneInit == Init => AloneRight
<1> SUFFICES ASSUME Init  PROVE Alone
  BY DEF AloneRight
<1>1. at \in Starts /\ room = RoomAt(at.bans, at.picks) /\ settled = Rest
  BY DEF Init
<1>2. /\ at.bans \in 0 .. 2 * BanCount /\ at.picks \in PickSlots
      /\ at.picks > 0 => at.bans = 2 * BanCount
      /\ BanCount \in Nat \ {0} /\ MaxTimers \in Nat
  BY <1>1, StartAssumption, BanCountAssumption, ThreadAssumption
<1>3. /\ room.Json.Status = room.status
      /\ room.status = "WAIT" => room.banFlage = 0 /\ room.pickFlage = 0
      /\ room.status = "BAN" => room.banFlage < 2 * BanCount /\ room.pickFlage = 0
      /\ room.status = "PICK" => room.pickFlage < 10
  BY <1>1, <1>2 DEF RoomAt, PickSlots
<1>4. room \in Rooms
  BY Initial DEF IInv, Types
<1>5. FoundRight
  <2>1. /\ Found = room /\ settled.armed \in BOOLEAN /\ settled.orphans = Orphans
        /\ settled = [room |-> Found, armed |-> settled.armed, orphans |-> settled.orphans,
                      screen |-> settled.screen, shown |-> settled.shown]
    BY <1>1 DEF Rest, Found, Orphans
  <2> QED  BY <1>3, <1>4, <2>1, OrphansType DEF FoundRight
<1>6. OneTask
  BY DEF Init, OneTask
<1>7. Busy = {}
  BY DEF Init, Busy
<1> QED  BY <1>1, <1>5, <1>6, <1>7 DEF Alone

\* Nothing happens.
LEMMA StillHandling ==
  ASSUME UNCHANGED <<room, timer, live, fresh, pending, created, pc, loc, screen, shown, settled>>,
         Armed' = Armed, Orphans' = Orphans, NEW t, Handling(t)
  PROVE  Handling(t)'
<1>1. ASSUME NEW k, Taking(k)  PROVE Taking(k)'
  BY <1>1, TakingHeld
<1>2. ASSUME NEW k, TurnDone(k)  PROVE TurnDone(k)'
  BY <1>1, <1>2, Held DEF TurnDone
<1>3. ASSUME NEW k, ReadyDone(k)  PROVE ReadyDone(k)'
  BY <1>3, Held DEF ReadyDone, ClockSame, OneMore
<1>4. Snapshot(room)' = Snapshot(room)
  BY DEF Snapshot
<1>5. PICK n : n = loc[t].num
  OBVIOUS
<1>6. PICK team : team = loc[t].team
  OBVIOUS
<1>7. Called(n, Armed, Orphans) => Called(n, Armed, Orphans)'
  <2>1. Called(n, Armed, Orphans) => Called(n, Armed', Orphans')
    OBVIOUS
  <2> QED  BY <2>1, Held
<1>8. InReady(t)'
  BY <1>3, <1>4, <1>6, Held DEF Handling, InReady, ClockSame, OneMore
<1>9. InPacket(t)'
  BY Held DEF Handling, InPacket, ClockSame
<1>10. InTurn(t)'
  BY <1>1, <1>2, <1>4, <1>5, <1>7, Held DEF Handling, InTurn
<1> QED  BY <1>8, <1>9, <1>10 DEF Handling

\* The tables above hold as long as handlers do not overlap, and every change of
\* the room at rest is a step of LOLM3BanRoom.
LEMMA AloneInductive ==
  IInv /\ IInv' /\ AloneRight /\ [Next]_vars
    => AloneRight' /\ [~at.overlap => Room!Next]_settled
<1> SUFFICES ASSUME IInv, IInv', AloneRight, [Next]_vars
             PROVE  AloneRight' /\ [~at.overlap => Room!Next]_settled
  OBVIOUS
<1>1. CASE at.overlap
  BY <1>1 DEF AloneRight, Next, vars
<1>2. CASE ~at.overlap /\ Next
  <2>1. PICK t \in Threads : Step(t) /\ History(t)
    BY <1>2 DEF Next
  <2>2. Cardinality(Busy') <= 1 /\ Alone
    BY <1>2 DEF Next, AloneRight
  <2>3. Alone' /\ (settled' = settled \/ Room!Next)
    BY <2>1, <2>2, AloneStep DEF IInv
  <2> QED  BY <2>3 DEF AloneRight
<1>3. ~at.overlap => Alone
  BY DEF AloneRight
<1>4. CASE ~at.overlap /\ UNCHANGED vars
  <2>1. /\ settled' = settled
        /\ UNCHANGED <<room, timer, live, fresh, pending, created, pc, loc, screen, shown>>
        /\ at' = at
    BY <1>4 DEF vars, shared, clock
  <2>2. Armed' = Armed /\ Orphans' = Orphans /\ OneTask'
    BY <1>3, <1>4, <2>1, ClockStays DEF Alone
  <2>3. FoundRight' /\ Rest' = Rest /\ Busy' = Busy
    BY <1>3, <1>4, <2>1, Held DEF Alone, FoundRight, Rest, Waiting, Busy
  <2>4. ASSUME NEW u \in Busy  PROVE (Busy' = {u}) /\ Handling(u)'
    <3>1. Busy = {u} /\ Handling(u)
      BY <1>4, <1>3, <2>4 DEF Alone, Handling
    <3>2. Handling(u)'
      BY <2>1, <2>2, <3>1, StillHandling
    <3> QED  BY <2>3, <3>1, <3>2
  <2>5. (Busy = {} => settled = Rest)'
    BY <1>4, <1>3, <2>1, <2>3 DEF Alone
  <2> QED  BY <2>1, <2>2, <2>3, <2>4, <2>5 DEF AloneRight, Alone, Handling
<1> QED  BY <1>1, <1>2, <1>4

\* Where no two handlers overlap, the statements of a whole handler add up to one
\* step of LOLM3BanRoom: its actions may be taken as atomic.
THEOREM AtomicIsRight == Spec => AtomicWhenAlone
<1>1. Init => IInv /\ AloneRight
  BY Initial, AloneInit
<1> QED  BY <1>1, Inductive, AloneInductive, PTL DEF Spec, AtomicWhenAlone
=============================================================================
