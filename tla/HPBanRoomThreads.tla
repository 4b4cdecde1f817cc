-------------------------- MODULE HPBanRoomThreads --------------------------
(***************************************************************************)
(* The handlers of one HPBanRoom taken apart into the statements that read *)
(* or write the room's fields, and run by the threads that run them: the   *)
(* two PackThreads, and one thread for each java.util.Timer.  Nothing in   *)
(* the room keeps two of them from being in a handler at once.             *)
(*                                                                         *)
(* The two captains are linked throughout, and one card of each team is    *)
(* followed: the first of its first group, which the other team is shown.  *)
(* Clocks run for minutes and handlers for moments: two clocks that were   *)
(* set by one event may run at once, but no handler lasts from the start   *)
(* of a clock to its end.                                                  *)
(***************************************************************************)
EXTENDS Integers, FiniteSets

CONSTANTS composeCount,
          PackThreads,  \* the threads of ThreadManager
          Starts,       \* where the draft stands at first, the packets that wait,
                        \* each handled once, and whether handlers may overlap
          MaxTimers     \* bound: the java.util.Timers made

Teams    == {0, 1}
TimerIds == 1 .. MaxTimers        \* each Timer has a thread of its own
Threads  == PackThreads \cup TimerIds
NoBan    == -1
NoTurn   == -1
NotPut   == <<>>

Packets == UNION {start.packets : start \in Starts}

ASSUME PacketAssumption ==
  Packets \subseteq [pt : {"READY", "CHOOSE", "COMPOSE"}, team : Teams, num : Nat]
ASSUME ThreadAssumption == MaxTimers \in Nat \ {0} /\ PackThreads \cap TimerIds = {}
ASSUME StartAssumption ==
  \A start \in Starts : start.phase \in 0 .. 3 /\ start.overlap \in BOOLEAN

VARIABLES
  at,          \* the start that was chosen
  room,        \* the fields of the room, and what RoomJData holds
  timer,       \* the field timer: the id of a Timer; 1 is there at first
  task,        \* the field task: what it does, and whether it was scheduled
  live,        \* the Timer in the field timer has not been cancelled
  pending,     \* the tasks that have not started: on which Timer, what they do, at
               \* which instant, and the handlers that run since they were scheduled
  created,     \* how many Timers were made
  now,         \* the last instant at which a clock ran
  queue,       \* packets no thread has taken yet
  pc,          \* pc[t]: the statement thread t is about to execute
  loc,         \* loc[t]: its arguments and local values
  screen,      \* the last SYNC that reached the captains
  told,        \* told[c]: what captain c was sent: its card, the masked copy, all
  doubled,     \* history: a clock was set for the time to compose, and one more
  overtaken,   \* history: a turn ended while a choice of it was tested, but not stored
  settled      \* history: the room at rest, before the one handler in progress

clock  == <<timer, task, live, pending, created, now>>
shared == <<room, clock, screen, told>>
vars == <<at, shared, queue, pc, loc, doubled, overtaken, settled>>

\* RoomJData.toString()
Snapshot(r) == [Status |-> r.Json.Status, Ready |-> r.isReady,
                BanList |-> IF r.Json.BanList THEN r.banData ELSE NotPut,
                NowCtrl |-> r.Json.NowCtrl, HideCompose |-> r.Json.HideCompose,
                Compose |-> IF r.Json.Compose THEN r.card ELSE NotPut]

\* The room at rest before the draft (0), while it is composed (1), in the first
\* turn (2), and in the second after a timeout (3).
RoomAt(k) ==
  LET st == CASE k = 0 -> "WAIT" [] k = 1 -> "COMPOSE" [] OTHER -> "BAN"
  IN [status |-> st, isReady |-> [t \in Teams |-> k > 0], card |-> [t \in Teams |-> 0],
      banData |-> [t \in Teams |-> IF k = 3 /\ t = 0 THEN 0 ELSE NoBan],
      nowCtrl |-> IF k = 3 THEN 1 ELSE 0,
      Json |-> [Status |-> st, BanList |-> k = 3, Compose |-> FALSE,
                NowCtrl |-> IF k < 2 THEN NoTurn ELSE k - 2,
                HideCompose |-> IF k < 2 THEN NotPut ELSE [t \in Teams |-> 0]]]

Task(k, does) == [on |-> k, does |-> does, due |-> now + 1, during |-> {}]

Rest == [room |-> room, armed |-> {p.does : p \in pending}, screen |-> screen, told |-> told]

NoLocals == [team |-> 0, num |-> 0, ctrl |-> 0, data |-> NotPut]

Init ==
  /\ at \in Starts
  /\ room = RoomAt(at.phase)
  /\ created = 1 /\ timer = 1 /\ live = TRUE /\ now = 0
  /\ task = [does |-> "SetStatus", fresh |-> FALSE]
  /\ pending = CASE at.phase = 0 -> {} [] at.phase = 1 -> {Task(1, "SetStatus")}
                 [] OTHER -> {Task(1, "nextProcess")}
  /\ queue = at.packets
  /\ pc = [t \in Threads |-> "idle"]
  /\ loc = [t \in Threads |-> NoLocals]
  /\ screen = Snapshot(room)
  /\ told = [c \in Teams |-> IF at.phase < 2 THEN {} ELSE {"masked"}]
  /\ doubled = FALSE /\ overtaken = FALSE
  /\ settled = Rest

-----------------------------------------------------------------------------
Busy == {t \in Threads : pc[t] # "idle"}

Goto(t, l) == pc' = [pc EXCEPT ![t] = l]

\* Thread t is done with its handler, which no task is younger than any more.
Leaves(t, tasks) == {[p EXCEPT !.during = @ \ {t}] : p \in tasks}
Return(t) == /\ Goto(t, "idle") /\ loc' = [loc EXCEPT ![t] = NoLocals]
             /\ pending' = Leaves(t, pending)

\* Statement `from` of thread t: it writes the room and goes to `to`.
Stmt(t, from, to, r) ==
  /\ pc[t] = from
  /\ IF to = "idle" THEN Return(t) ELSE Goto(t, to) /\ UNCHANGED <<loc, pending>>
  /\ room' = r
  /\ UNCHANGED <<timer, task, live, created, now, screen, told, queue>>

\* A statement that only decides where to go.
Branch(t, from, to) == Stmt(t, from, to, room)

\* task = new TimerTask(), timer = new Timer(), timer.schedule(task).  schedule
\* throws on a Timer that was cancelled and on a task that was scheduled before;
\* the handler is then over.
Schedule(t, from, new, add, does, to) ==
  \/ /\ pc[t] = from /\ Goto(t, new)
     /\ task' = [does |-> does, fresh |-> TRUE]
     /\ UNCHANGED <<room, timer, live, pending, created, now, screen, told, queue, loc>>
  \/ /\ pc[t] = new /\ Goto(t, add)
     /\ created < MaxTimers
     /\ created' = created + 1 /\ timer' = created' /\ live' = TRUE
     /\ UNCHANGED <<room, task, pending, now, screen, told, queue, loc>>
  \/ /\ pc[t] = add /\ Goto(t, to)
     /\ live /\ task.fresh
     /\ task' = [task EXCEPT !.fresh = FALSE]
     /\ pending' = pending \cup {[Task(timer, task.does) EXCEPT !.during = Busy \cap PackThreads]}
     /\ UNCHANGED <<room, timer, live, created, now, screen, told, queue, loc>>
  \/ ~(live /\ task.fresh) /\ Branch(t, add, "idle")

\* broadcast(RoomJData.toString(), SYNC): the text first, then the writes.
Sync(t, from) ==
  \/ /\ pc[t] = from /\ Goto(t, "write")
     /\ loc' = [loc EXCEPT ![t] = [NoLocals EXCEPT !.data = Snapshot(room)]]
     /\ UNCHANGED <<shared, queue>>
  \/ /\ pc[t] = "write" /\ Return(t)
     /\ screen' = loc[t].data
     /\ told' = [c \in Teams |->
          told[c] \cup {m \in {"masked", "all"} :
             IF m = "all" THEN screen'.Compose # NotPut ELSE screen'.HideCompose # NotPut}]
     /\ UNCHANGED <<room, timer, task, live, created, now, queue>>

-----------------------------------------------------------------------------
\* A PackThread takes a packet; packets wait for whichever thread is free.
Take(t) ==
  /\ t \in PackThreads /\ pc[t] = "idle"
  /\ \E p \in queue : /\ queue' = queue \ {p}
                      /\ loc' = [loc EXCEPT ![t].team = p.team, ![t].num = p.num]
                      /\ Goto(t, p.pt)
  /\ UNCHANGED shared

\* A task starts on the thread of its Timer: at its instant, which comes after the
\* handlers of the instant before; cancelling no longer stops it.
Fire(t) ==
  \E p \in pending :
    /\ p.on = t /\ pc[t] = "idle" /\ p.during = {}
    /\ \A q \in pending : p.due <= q.due
    /\ p.due > now => Busy \cap TimerIds = {}
    /\ now' = p.due /\ pending' = pending \ {p}
    /\ Goto(t, p.does)
    /\ UNCHANGED <<room, timer, task, live, created, screen, told, queue, loc>>

Ready(t) ==
  \/ room.status = "WAIT" /\ Branch(t, "READY", "ready")
  \/ room.status # "WAIT" /\ Branch(t, "READY", "idle")
  \/ Stmt(t, "ready", "both", [room EXCEPT !.isReady[loc[t].team] = TRUE])
  \/ (\A k \in Teams : room.isReady[k]) /\ Branch(t, "both", "COMPOSE?")
  \/ (\E k \in Teams : ~room.isReady[k]) /\ Branch(t, "both", "text")

\* SetStatus(COMPOSE): it looks at the status and then sets it.
StartCompose(t) ==
  \/ room.status = "COMPOSE" /\ Branch(t, "COMPOSE?", "text")
  \/ room.status # "COMPOSE" /\ Branch(t, "COMPOSE?", "compose1")
  \/ Stmt(t, "compose1", "compose2", [room EXCEPT !.status = "COMPOSE"])
  \/ Stmt(t, "compose2", "compose3", [room EXCEPT !.Json.Status = "COMPOSE"])
  \/ Schedule(t, "compose3", "compose_timer", "compose_schedule", "SetStatus", "text")

\* SetStatus(BAN), the task of the clock for composing.
StartBan(t) ==
  \/ room.status = "BAN" /\ Branch(t, "SetStatus", "idle")
  \/ room.status # "BAN" /\ Branch(t, "SetStatus", "ban1")
  \/ Stmt(t, "ban1", "ban2", [room EXCEPT !.status = "BAN"])
  \/ Stmt(t, "ban2", "ban3", [room EXCEPT !.Json.Status = "BAN"])
  \/ Schedule(t, "ban3", "ban_timer", "ban_schedule", "nextProcess", "ban4")
  \/ Stmt(t, "ban4", "ban5", [room EXCEPT !.nowCtrl = 0])
  \/ Stmt(t, "ban5", "ban6", [room EXCEPT !.Json.NowCtrl = room.nowCtrl])
  \/ Stmt(t, "ban6", "text", [room EXCEPT !.Json.HideCompose = [k \in Teams |-> room.card[1 - k]]])

\* Mutant: either team may ban, in the slot of the team on the move.
ChooseAnyTeam(t) ==
  \/ room.status = "BAN" /\ Branch(t, "CHOOSE", "choose2")
  \/ room.status # "BAN" /\ Branch(t, "CHOOSE", "idle")
  \/ /\ room.nowCtrl \in Teams
     /\ Stmt(t, "choose2", "choose3", [room EXCEPT !.banData[room.nowCtrl] = loc[t].num])
  \/ room.nowCtrl \notin Teams /\ Branch(t, "choose2", "idle")
  \/ Stmt(t, "choose3", "text", [room EXCEPT !.Json.BanList = TRUE])
\* The field nowCtrl is read for the test, and again for the write.
Choose(t) ==
  \/ room.status = "BAN" /\ Branch(t, "CHOOSE", "choose1")
  \/ room.status # "BAN" /\ Branch(t, "CHOOSE", "idle")
  \/ loc[t].team = room.nowCtrl /\ Branch(t, "choose1", "choose2")
  \/ loc[t].team # room.nowCtrl /\ Branch(t, "choose1", "idle")
  \/ /\ room.nowCtrl \in Teams
     /\ Stmt(t, "choose2", "choose3", [room EXCEPT !.banData[room.nowCtrl] = loc[t].num])
  \/ room.nowCtrl \notin Teams /\ Branch(t, "choose2", "idle")
  \/ Stmt(t, "choose3", "text", [room EXCEPT !.Json.BanList = TRUE])

Compose(t) ==
  \/ room.status = "COMPOSE" /\ Branch(t, "COMPOSE", "card")
  \/ room.status # "COMPOSE" /\ Branch(t, "COMPOSE", "idle")
  \/ Stmt(t, "card", "tell", [room EXCEPT !.card[loc[t].team] = loc[t].num])
  \/ /\ pc[t] = "tell" /\ Return(t)
     /\ told' = [told EXCEPT ![loc[t].team] = @ \cup {"card"}]
     /\ UNCHANGED <<room, timer, task, live, created, now, screen, queue>>

\* The turn has no ban.  (Mutant: looks at the first turn only.)
MissedFirst(turn) == turn = 0 /\ room.banData[turn] = NoBan
Missed(turn) == room.banData[turn] = NoBan

\* nextProcess(0), the task of the clock of a turn.  An index that is past its
\* array throws, and the catch around it all ends the handler.
NextProcess(t) ==
  LET turn == room.nowCtrl
  IN \/ /\ pc[t] = "nextProcess" /\ Goto(t, "next1")      \* timer.cancel()
        /\ live' = FALSE
        /\ pending' = {p \in pending : p.on # timer}
        /\ UNCHANGED <<room, timer, task, created, now, screen, told, queue, loc>>
     \/ room.status = "BAN" /\ Branch(t, "next1", "next2")
     \/ room.status # "BAN" /\ Branch(t, "next1", "rearm?")
     \/ turn \in Teams /\ Missed(turn) /\ Branch(t, "next2", "next3")
     \/ turn \in Teams /\ ~Missed(turn) /\ Branch(t, "next2", "next5")
     \/ turn \in Teams /\ Stmt(t, "next3", "next4", [room EXCEPT !.banData[turn] = 0])
     \/ turn \notin Teams /\ (Branch(t, "next2", "idle") \/ Branch(t, "next3", "idle"))
     \/ Stmt(t, "next4", "next5", [room EXCEPT !.Json.BanList = TRUE])
     \/ /\ pc[t] = "next5" /\ Goto(t, "next6")            \* nowCtrl++ reads ...
        /\ loc' = [loc EXCEPT ![t].ctrl = turn]
        /\ UNCHANGED <<shared, queue>>
     \/ Stmt(t, "next6", "next7", [room EXCEPT !.nowCtrl = loc[t].ctrl + 1])
     \/ Stmt(t, "next7", "next8", [room EXCEPT !.Json.NowCtrl = turn])
     \/ turn = 2 /\ Branch(t, "next8", "end")
     \/ turn # 2 /\ Branch(t, "next8", "rearm?")
     \/ Stmt(t, "end", "end1", [room EXCEPT !.status = "END"])
     \/ Stmt(t, "end1", "end2", [room EXCEPT !.Json.Status = "END"])
     \/ Stmt(t, "end2", "end3", [room EXCEPT !.nowCtrl = 0])
     \/ Stmt(t, "end3", "rearm?", [room EXCEPT !.Json.Compose = TRUE])

\* Mutant: only the first turn is timed.
EndProcessFirst(t) ==
  \/ room.status # "END" /\ room.nowCtrl = 0 /\ Branch(t, "rearm?", "rearm")
  \/ (room.status = "END" \/ room.nowCtrl # 0) /\ Branch(t, "rearm?", "text")
  \/ Schedule(t, "rearm", "rearm_timer", "rearm_schedule", "nextProcess", "text")
EndProcess(t) ==
  \/ room.status # "END" /\ Branch(t, "rearm?", "rearm")
  \/ room.status = "END" /\ Branch(t, "rearm?", "text")
  \/ Schedule(t, "rearm", "rearm_timer", "rearm_schedule", "nextProcess", "text")

-----------------------------------------------------------------------------
\* The history of a step, and the room at rest.
History ==
  /\ doubled' = (doubled \/ Cardinality({p \in pending' : p.does = "SetStatus"}) > 1)
  /\ overtaken' = (overtaken \/ \E t \in PackThreads :
                                  pc[t] = "choose2" /\ room'.nowCtrl # room.nowCtrl)
  /\ settled' = CASE Busy' = {} -> Rest'
                  [] Cardinality(Busy') = 1 -> settled
                  [] OTHER -> NotPut

Step(t) == Take(t) \/ Fire(t) \/ Ready(t) \/ StartCompose(t) \/ StartBan(t) \/ Choose(t)
           \/ Compose(t) \/ NextProcess(t) \/ EndProcess(t) \/ Sync(t, "text")

\* In a start without overlap no handler begins before the last one is done.
Moves(t) == /\ Step(t) /\ History
            /\ at.overlap \/ Cardinality(Busy') <= 1
            /\ UNCHANGED at
Next == \E t \in Threads : Moves(t)

\* Threads run, tasks that are due start, and the packets are taken.
Spec == Init /\ [][Next]_vars /\ \A t \in Threads : WF_vars(Moves(t))

-----------------------------------------------------------------------------
(***************************************************************************)
(* Properties.                                                             *)
(***************************************************************************)
Place == <<0, 0>>
AllPlaces == (0 .. composeCount - 1) \X (0 .. 11)
Shown == {p \in AllPlaces : p[2] \in {0, 1, 2, 3, 8, 9, 11}}
Groups(cards) == [t \in Teams |-> [p \in AllPlaces |-> IF p = Place THEN cards[t] ELSE 0]]
Masked(cards) == [t \in Teams |-> [p \in AllPlaces |->
                   IF p \notin Shown THEN -1 ELSE IF p = Place THEN cards[t] ELSE 0]]
Full(text) == [text EXCEPT !.HideCompose = IF @ = NotPut THEN @ ELSE Masked(@),
                           !.Compose = IF @ = NotPut THEN @ ELSE Groups(@)]

Room == INSTANCE HPBanRoom WITH
  Cards <- {p.num : p \in Packets} , Composed <- {Place},
  ChooseNums <- {p.num : p \in Packets}, Ctx <- Teams, Joins <- {}, Asks <- {},
  MaxPlayers <- 2,
  status <- settled.room.status, isReady <- settled.room.isReady,
  banData <- settled.room.banData, composeData <- Groups(settled.room.card),
  nowCtrl <- settled.room.nowCtrl,
  task <- IF settled.armed = {} THEN "none" ELSE CHOOSE does \in settled.armed : TRUE,
  allPlayers <- <<(<<0, 0>>), (<<1, 1>>)>>, online <- Teams,
  RoomJData <- [settled.room.Json EXCEPT !.HideCompose = IF @ = NotPut THEN @ ELSE Masked(@)],
  view <- [c \in Teams |-> Full(settled.screen)],
  seen <- [c \in Teams |-> (IF "card" \in settled.told[c] THEN {<<c, Place>>} ELSE {})
             \cup (IF "masked" \in settled.told[c] THEN Teams \X Shown ELSE {})
             \cup (IF "all" \in settled.told[c] THEN Teams \X AllPlaces ELSE {})]

\* Where no two handlers overlap, what a whole handler does to the room is one
\* step of HPBanRoom: its atomic actions are the sum of the statements here.
AtomicWhenAlone == [][~at.overlap => Room!Next]_settled

\* Two captains that are ready get to the end of the draft, whatever choices and
\* cards overlap the clock: no clock is lost.  But two READY packets on two threads
\* may set the clock for composing twice, and then it may be lost.
DraftEnds ==
  (\A t \in Teams : room.isReady[t]) ~> (room.status = "END" /\ Busy = {}) \/ doubled

\* At the end both teams have banned, even if a choice that overlaps the end of its
\* turn is stored for the other team; but for the clock that was set twice.
BothBanned == Busy = {} /\ room.status = "END" /\ ~doubled
                => \A t \in Teams : room.banData[t] # NoBan

\* Nobody bans for the other team; but for a choice whose turn ends after it was
\* tested and before it is stored.
OwnBans ==
  ~overtaken => \A t \in Teams :
    LET own == {p \in at.packets : p.pt = "CHOOSE" /\ p.team = t}
    IN room.banData[t] \in {NoBan, 0} \cup {p.num : p \in own}
=============================================================================
