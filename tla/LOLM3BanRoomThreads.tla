------------------------- MODULE LOLM3BanRoomThreads -------------------------
(***************************************************************************)
(* The handlers of one LOLM3BanRoom taken apart into the statements that   *)
(* read or write the room's fields, and run by the threads that really run *)
(* them: the two PackThreads, which take packets from one queue, and one   *)
(* thread for each java.util.Timer.  Nothing in the room keeps two of them *)
(* from being in a handler at once.                                        *)
(*                                                                         *)
(* The two captains are linked throughout.  Interleavings are sequentially *)
(* consistent; a read that misses another thread's write is not modelled.  *)
(***************************************************************************)
EXTENDS Integers, FiniteSets

CONSTANTS BanCount, MaxHeroCount,
          PackThreads,  \* the threads of ThreadManager
          Starts,       \* where the draft stands at first, the packets that wait,
                        \* each handled once, whether handlers may overlap, and
                        \* the bound on the java.util.Timers made
          MaxTimers     \* bound: those of the start with most

Teams      == {0, 1}
TimerIds   == 1 .. MaxTimers        \* each Timer has a thread of its own
Threads    == PackThreads \cup TimerIds
BanSlots   == 0 .. 2 * BanCount - 1
PickSlots  == 0 .. 9
banProcess == [i \in BanSlots |-> i % 2]
pickProcess == [i \in PickSlots |-> IF i \in {0, 3, 4, 7, 8} THEN 0 ELSE 1]
Empty      == -1
NotPut     == -1

Packets == UNION {start.packets : start \in Starts}

ASSUME BanCountAssumption == BanCount \in Nat \ {0}
ASSUME ThreadAssumption ==
  MaxTimers \in Nat /\ IsFiniteSet(PackThreads) /\ PackThreads \cap TimerIds = {}
ASSUME PacketAssumption ==
  Packets \subseteq [pt : {"READY", "CHOOSE", "PREVIEW"}, team : Teams, num : Int]
\* The picks begin after the last ban.
ASSUME StartAssumption == \A start \in Starts :
  /\ start.overlap \in BOOLEAN /\ start.timers \in 1 .. MaxTimers
  /\ start.bans \in 0 .. 2 * BanCount /\ start.picks \in PickSlots
  /\ start.picks > 0 => start.bans = 2 * BanCount

VARIABLES
  at,          \* the start that was chosen
  room,        \* the fields of the room, and the boxed copies in RoomJData
  timer,       \* the field timer: the id of a Timer; 1 is there at first
  live,        \* that Timer has not been cancelled
  fresh,       \* the TimerTask in the field task has not been scheduled
  pending,     \* pending[k]: the tasks of Timer k that have not started
  created,     \* how many Timers were made
  queue,       \* packets no thread has taken yet
  pc,          \* pc[t]: the statement thread t is about to execute
  loc,         \* loc[t]: its arguments and local values
  screen,      \* the last SYNC that reached the captains
  shown,       \* the last PREVIEW that reached them in this turn, or 0
  derailed,    \* history: an index ran past its array, or a timeout was refused
  settled      \* history: the room at rest, before the one handler in progress

clock  == <<timer, live, fresh, pending, created>>
shared == <<room, clock, screen, shown>>
vars == <<at, shared, queue, pc, loc, derailed, settled>>

\* RoomJData.toString()
Snapshot(r) == [Status |-> r.Json.Status, BanList |-> r.banData, PickList |-> r.pickData,
                Ready |-> r.isReady, nowCtrl |-> r.Json.nowCtrl,
                banFlage |-> r.Json.banFlage, pickFlage |-> r.Json.pickFlage]

\* The room at rest after b bans and p picks that were all timeouts; before
\* the first ban the two captains are not ready yet.
RoomAt(b, p) ==
  LET begun == b + p > 0
      st == IF ~begun THEN "WAIT" ELSE IF b < 2 * BanCount THEN "BAN" ELSE "PICK"
      ctrl == IF b < 2 * BanCount THEN banProcess[b] ELSE pickProcess[p]
  IN [status |-> st, chosen |-> {}, isReady |-> [t \in Teams |-> begun],
      banData |-> [i \in BanSlots |-> IF i < b THEN 0 ELSE Empty],
      pickData |-> [i \in PickSlots |-> IF i < p THEN 0 ELSE Empty],
      nowCtrl |-> ctrl, banFlage |-> b, pickFlage |-> p, previewNum |-> 0,
      Json |-> [Status |-> st, nowCtrl |-> IF begun THEN ctrl ELSE NotPut,
                banFlage |-> IF begun THEN b ELSE NotPut,
                pickFlage |-> IF st = "PICK" THEN p ELSE NotPut]]

Waiting == {k \in TimerIds : pending[k] > 0}

Rest == [room |-> room, armed |-> timer \in Waiting,
         orphans |-> Cardinality(Waiting \ {timer}), screen |-> screen, shown |-> shown]

NoLocals == [team |-> 0, num |-> 0, flag |-> 0, data |-> <<>>]

Init ==
  /\ at \in Starts
  /\ room = RoomAt(at.bans, at.picks)
  /\ created = 1 /\ timer = 1
  /\ pending = [k \in TimerIds |-> IF k = 1 /\ room.status # "WAIT" THEN 1 ELSE 0]
  /\ live = TRUE /\ fresh = FALSE
  /\ queue = at.packets
  /\ pc = [t \in Threads |-> "idle"]
  /\ loc = [t \in Threads |-> NoLocals]
  /\ screen = Snapshot(room) /\ shown = 0
  /\ derailed = FALSE
  /\ settled = Rest

-----------------------------------------------------------------------------
Goto(t, l) == pc' = [pc EXCEPT ![t] = l]

\* Thread t is done with its handler.
Return(t) == Goto(t, "idle") /\ loc' = [loc EXCEPT ![t] = NoLocals]

\* Statement `from` of thread t: it writes the room and goes to `to`.
Stmt(t, from, to, r) ==
  /\ pc[t] = from
  /\ IF to = "idle" THEN Return(t) ELSE Goto(t, to) /\ UNCHANGED loc
  /\ room' = r
  /\ UNCHANGED <<clock, screen, shown, queue>>

\* A statement that only decides where to go.
Branch(t, from, to) == Stmt(t, from, to, room)

\* task = new TimerTask(), timer = new Timer(), timer.schedule(task): three
\* statements on two fields.  schedule throws on a Timer that was cancelled and
\* on a task that was scheduled before, and the handler's catch ends it there.
Schedule(t, from, new, add, to) ==
  \/ /\ pc[t] = from /\ Goto(t, new)
     /\ fresh' = TRUE
     /\ UNCHANGED <<timer, live, pending, created, room, screen, shown, queue, loc>>
  \/ /\ pc[t] = new /\ Goto(t, add)
     /\ created < at.timers
     /\ created' = created + 1 /\ timer' = created' /\ live' = TRUE
     /\ UNCHANGED <<fresh, pending, room, screen, shown, queue, loc>>
  \/ /\ pc[t] = add /\ Goto(t, to)
     /\ live /\ fresh
     /\ fresh' = FALSE /\ pending' = [pending EXCEPT ![timer] = @ + 1]
     /\ UNCHANGED <<timer, live, created, room, screen, shown, queue, loc>>
  \/ ~(live /\ fresh) /\ Branch(t, add, "idle")

\* broadcast(RoomJData.toString(), SYNC): the text first, then the writes.
Text(t, from, to) ==
  /\ pc[t] = from /\ Goto(t, to)
  /\ loc' = [loc EXCEPT ![t] = [NoLocals EXCEPT !.data = Snapshot(room)]]
  /\ UNCHANGED <<shared, queue>>

Write(t, from, turn) ==
  /\ pc[t] = from /\ Return(t)
  /\ screen' = loc[t].data
  /\ shown' = IF turn THEN 0 ELSE shown
  /\ UNCHANGED <<room, clock, queue>>

-----------------------------------------------------------------------------
\* A PackThread takes a packet; packets wait for whichever thread is free.
Take(t) ==
  /\ t \in PackThreads /\ pc[t] = "idle"
  /\ \E p \in queue :
       /\ queue' = queue \ {p}
       /\ loc' = [loc EXCEPT ![t].team = p.team, ![t].num = p.num]
       /\ Goto(t, p.pt)
  /\ UNCHANGED shared

\* A task starts on the thread of its Timer; cancelling no longer stops it.
Fire(t) ==
  /\ t \in Waiting /\ pc[t] = "idle"
  /\ pending' = [pending EXCEPT ![t] = @ - 1]
  /\ loc' = [loc EXCEPT ![t].num = room.previewNum]
  /\ Goto(t, "next")
  /\ UNCHANGED <<room, timer, live, fresh, created, screen, shown, queue>>

\* Mutant: looks for the other captain before it marks its own.
ReadyLate(t) ==
  LET other == room.isReady[1 - loc[t].team]
  IN \/ room.status = "WAIT" /\ Branch(t, "READY", "ready2")
     \/ room.status # "WAIT" /\ Branch(t, "READY", "idle")
     \/ other /\ Stmt(t, "ready2", "start", [room EXCEPT !.isReady[loc[t].team] = TRUE])
     \/ ~other /\ Branch(t, "ready2", "ready1")
     \/ Stmt(t, "ready1", "ready3", [room EXCEPT !.isReady[loc[t].team] = TRUE])
     \/ Text(t, "ready3", "ready4")
     \/ Write(t, "ready4", FALSE)

Ready(t) ==
  \/ room.status = "WAIT" /\ Branch(t, "READY", "ready1")
  \/ room.status # "WAIT" /\ Branch(t, "READY", "idle")
  \/ Stmt(t, "ready1", "ready2", [room EXCEPT !.isReady[loc[t].team] = TRUE])
  \/ (\A k \in Teams : room.isReady[k]) /\ Branch(t, "ready2", "start")
  \/ (\E k \in Teams : ~room.isReady[k]) /\ Branch(t, "ready2", "ready3")
  \/ Text(t, "ready3", "ready4")
  \/ Write(t, "ready4", FALSE)

\* SetStatus(BAN): it looks at the status and then sets it.
StartBan(t) ==
  \/ room.status = "BAN" /\ Branch(t, "start", "ready3")
  \/ room.status # "BAN" /\ Branch(t, "start", "start1")
  \/ Stmt(t, "start1", "start2", [room EXCEPT !.status = "BAN", !.Json.Status = "BAN"])
  \/ Schedule(t, "start2", "start_timer", "start_schedule", "start3")
  \/ Stmt(t, "start3", "start4", [room EXCEPT !.Json.banFlage = room.banFlage])
  \/ Stmt(t, "start4", "ready3", [room EXCEPT !.nowCtrl = 0, !.Json.nowCtrl = 0])

Choose(t) ==
  \/ loc[t].team = room.nowCtrl /\ Branch(t, "CHOOSE", "next")
  \/ loc[t].team # room.nowCtrl /\ Branch(t, "CHOOSE", "idle")

Preview(t) ==
  LET free == loc[t].num = 0 \/ loc[t].num \notin room.chosen
      mine == loc[t].team = room.nowCtrl /\ room.status \in {"BAN", "PICK"}
  IN \/ free /\ Branch(t, "PREVIEW", "preview1")
     \/ ~free /\ Branch(t, "PREVIEW", "idle")
     \/ Stmt(t, "preview1", "preview2", [room EXCEPT !.previewNum = loc[t].num])
     \/ ~mine /\ Branch(t, "preview2", "idle")
     \/ /\ mine /\ pc[t] = "preview2" /\ Return(t)
        /\ shown' = room.previewNum
        /\ UNCHANGED <<room, clock, screen, queue>>

\* nextProcess up to the turn itself.
NextProcess(t) ==
  LET choose == loc[t].num
      acceptable == choose < MaxHeroCount /\ (choose = 0 \/ choose \notin room.chosen)
  IN \/ Stmt(t, "next", "next1", [room EXCEPT !.previewNum = 0])
     \/ ~acceptable /\ Branch(t, "next1", "idle")
     \/ acceptable /\ Branch(t, "next1", "next2")
     \/ Stmt(t, "next2", "next3", [room EXCEPT !.chosen = @ \cup ({choose} \ {0})])
     \/ /\ pc[t] = "next3" /\ Goto(t, "next4")      \* timer.cancel()
        /\ live' = FALSE
        /\ pending' = [k \in TimerIds |-> IF k = timer THEN 0 ELSE pending[k]]
        /\ UNCHANGED <<room, timer, fresh, created, screen, shown, queue, loc>>
     \/ room.status = "BAN" /\ Branch(t, "next4", "ban")
     \/ room.status = "PICK" /\ Branch(t, "next4", "pick")
     \/ room.status \in {"WAIT", "END"} /\ Branch(t, "next4", "rearm")

\* The turn of a ban.  Indexing past an array throws, and the catch around
\* the turn abandons the rest of it: the timer is cancelled by then.
BanTurn(t) ==
  LET f == room.banFlage
  IN \/ /\ f \in BanSlots
        /\ Stmt(t, "ban", "ban1", [room EXCEPT !.banData[f] = loc[t].num])
     \/ f \notin BanSlots /\ Branch(t, "ban", "idle")
     \/ /\ pc[t] = "ban1" /\ Goto(t, "ban2")         \* banFlage++ reads ...
        /\ loc' = [loc EXCEPT ![t].flag = f]
        /\ UNCHANGED <<shared, queue>>
     \/ Stmt(t, "ban2", "ban3", [room EXCEPT !.banFlage = loc[t].flag + 1])
     \/ f = 2 * BanCount /\ Stmt(t, "ban3", "ban4", [room EXCEPT
          !.status = "PICK", !.Json.Status = "PICK", !.Json.pickFlage =
             IF room.status = "PICK" THEN @ ELSE room.pickFlage])
     \/ Stmt(t, "ban4", "ban5", [room EXCEPT !.nowCtrl = 0])
     \/ f \in BanSlots /\ Stmt(t, "ban3", "ban5", [room EXCEPT !.nowCtrl = banProcess[f]])
     \/ f > 2 * BanCount /\ Branch(t, "ban3", "idle")
     \/ Stmt(t, "ban5", "ban6", [room EXCEPT !.Json.nowCtrl = room.nowCtrl])
     \/ Stmt(t, "ban6", "rearm", [room EXCEPT !.Json.banFlage = f])

\* The team that owns pick f.
PickCtrl(f) == pickProcess[f]

PickTurn(t) ==
  LET f == room.pickFlage
  IN \/ /\ f \in PickSlots
        /\ Stmt(t, "pick", "pick1", [room EXCEPT !.pickData[f] = loc[t].num])
     \/ f \notin PickSlots /\ Branch(t, "pick", "idle")
     \/ /\ pc[t] = "pick1" /\ Goto(t, "pick2")
        /\ loc' = [loc EXCEPT ![t].flag = f]
        /\ UNCHANGED <<shared, queue>>
     \/ Stmt(t, "pick2", "pick3", [room EXCEPT !.pickFlage = loc[t].flag + 1])
     \/ f = 10 /\ Stmt(t, "pick3", "pick4", [room EXCEPT !.status = "END", !.Json.Status = "END"])
     \/ f \in PickSlots /\ Stmt(t, "pick3", "pick4", [room EXCEPT !.nowCtrl = PickCtrl(f)])
     \/ f > 10 /\ Branch(t, "pick3", "idle")
     \/ Stmt(t, "pick4", "pick5", [room EXCEPT !.Json.nowCtrl = room.nowCtrl])
     \/ Stmt(t, "pick5", "rearm", [room EXCEPT !.Json.pickFlage = f])

\* Mutant: only a ban is timed.
EndProcessBans(t) ==
  \/ /\ pc[t] = "rearm" => room.status = "BAN"
     /\ Schedule(t, "rearm", "rearm_timer", "rearm_schedule", "sync")
  \/ room.status # "BAN" /\ Branch(t, "rearm", "sync")
  \/ Text(t, "sync", "sync1")
  \/ Write(t, "sync1", TRUE)

\* The end of nextProcess: the next turn's timer and the broadcast.
EndProcess(t) ==
  \/ /\ pc[t] = "rearm" => room.status # "END"
     /\ Schedule(t, "rearm", "rearm_timer", "rearm_schedule", "sync")
  \/ room.status = "END" /\ Branch(t, "rearm", "sync")
  \/ Text(t, "sync", "sync1")
  \/ Write(t, "sync1", TRUE)

-----------------------------------------------------------------------------
Busy == {t \in Threads : pc[t] # "idle"}

\* A thread gives up a turn it has begun, or a timeout's choice is refused.
Derail(t) == /\ pc'[t] = "idle"
             /\ \/ pc[t] \in {"ban", "ban3", "pick", "pick3"}
                \/ t \in TimerIds /\ pc[t] = "next1"

\* The history of step t, and the room at rest.
History(t) == /\ derailed' = (derailed \/ Derail(t))
              /\ settled' = CASE Busy' = {} -> Rest'
                              [] Cardinality(Busy') = 1 -> settled
                              [] OTHER -> <<>>

Step(t) == Take(t) \/ Fire(t) \/ Ready(t) \/ StartBan(t) \/ Choose(t) \/ Preview(t)
           \/ NextProcess(t) \/ BanTurn(t) \/ PickTurn(t) \/ EndProcess(t)

\* In a start without overlap no handler begins before the last one is done.
Next == /\ \E t \in Threads : Step(t) /\ History(t)
        /\ at.overlap \/ Cardinality(Busy') <= 1
        /\ UNCHANGED at

Spec == Init /\ [][Next]_vars

-----------------------------------------------------------------------------
(***************************************************************************)
(* Properties.                                                             *)
(***************************************************************************)
Room == INSTANCE LOLM3BanRoom WITH
  Ctx <- Teams, Joins <- Teams \X Teams, MaxPlayers <- 2,
  HeroNums <- {p.num : p \in Packets} \cup {0},
  PreviewNums <- {p.num : p \in Packets} \cup {0},
  allPlayers <- <<<<0, 0>>, <<1, 1>>>>, online <- Teams,
  status <- settled.room.status, chosen <- settled.room.chosen,
  isReady <- settled.room.isReady, banData <- settled.room.banData,
  pickData <- settled.room.pickData, nowCtrl <- settled.room.nowCtrl,
  banFlage <- settled.room.banFlage, pickFlage <- settled.room.pickFlage,
  previewNum <- settled.room.previewNum, RoomJData <- settled.room.Json,
  timer <- settled.armed, orphans <- settled.orphans,
  view <- [c \in Teams |-> settled.screen], shown <- settled.shown

\* Where no two handlers overlap, what a whole handler does to the room is one
\* step of LOLM3BanRoom: its atomic actions are the sum of the statements here.
AtomicWhenAlone == [][~at.overlap => Room!Next]_settled

\* Two READY packets on two threads may each see both captains ready, but they
\* cannot each miss it: once both were handled the draft has begun.
StartNotLost ==
  Busy = {} /\ (\A t \in Teams : room.isReady[t]) => room.status # "WAIT"

\* Whatever overlaps, a draft under way is left without a scheduled timeout only
\* after a thread ran past the end of an array or a timeout's hero was refused.
ClockKept ==
  Busy = {} /\ room.status \in {"BAN", "PICK"} /\ ~derailed => Waiting # {}

\* No hero stands in two slots.
HeroOnce ==
  LET slots == {<<"ban", i>> : i \in BanSlots} \cup {<<"pick", i>> : i \in PickSlots}
      hero(s) == IF s[1] = "ban" THEN room.banData[s[2]] ELSE room.pickData[s[2]]
  IN \A s1, s2 \in slots : s1 # s2 /\ hero(s1) > 0 => hero(s1) # hero(s2)
=============================================================================
