--------------------------- MODULE GameRoomManager ---------------------------
(***************************************************************************)
(* The table of rooms (GameServer/.../Manager/GameRoomManager.java): rooms *)
(* are put in it by the PackThreads and taken out, four hours later, by a  *)
(* sweep that a java.util.Timer runs every ten seconds.                    *)
(*                                                                         *)
(* The table is a HashMap.  Its iterator throws when a key was added or    *)
(* removed since the iterator was made, and an exception that leaves a     *)
(* TimerTask ends its Timer's thread.  CloseRoom has no caller.            *)
(***************************************************************************)
EXTENDS Integers, FiniteSets

CONSTANTS Keys,       \* room keys, numbered in the order the HashMap lists them
          gameTypes,  \* the gameType fields of the CREATE_ROOM packets
          MaxRooms    \* bound: rooms ever created

ASSUME KeysAssumption  == Keys \subseteq Nat \ {0} /\ IsFiniteSet(Keys)
ASSUME RoomsAssumption == MaxRooms \in Nat

VARIABLES
  AllGame,   \* AllGame[key]: the room under the key, or Null
  rooms,     \* how many rooms were created; they are numbered from 1
  expired,   \* the rooms created more than four hours ago
  sweep,     \* the sweep: "waiting", "made" its iterator, "locked" or "dead"
  next,      \* the key the iterator is at, or 0 at the end
  stale,     \* a key was added or removed since the iterator was made
  due        \* history: the rooms there and expired when the sweep began

table     == <<AllGame, rooms>>
tableVars == <<table, expired, sweep, next, stale, due>>

Null == 0    \* what the table holds for a gameType that no class of rooms has

TableInit == /\ AllGame = << >> /\ rooms = 0
             /\ expired = {}
             /\ sweep = "waiting" /\ next = 0 /\ stale = FALSE /\ due = {}

InTable == {AllGame[k] : k \in DOMAIN AllGame} \ {Null}

-----------------------------------------------------------------------------
\* CREATE_ROOM.  The key is a hash of the names and of the time in milliseconds:
\* it may be that of an earlier room, whose place the new one then takes.
CreateNewGameRoom(key, gameType) ==
  /\ sweep # "locked"
  /\ rooms < MaxRooms
  /\ rooms' = rooms + 1
  /\ AllGame' = [k \in DOMAIN AllGame \cup {key} |->
                   IF k # key THEN AllGame[k]
                   ELSE IF gameType \in {1, 2} THEN rooms' ELSE Null]
  /\ stale' = (stale \/ key \notin DOMAIN AllGame)
  /\ UNCHANGED <<expired, sweep, next, due>>

\* Four hours go by since the room was created.
Expire(room) == /\ room \in 1 .. rooms \ expired
                /\ expired' = expired \cup {room}
                /\ UNCHANGED <<table, sweep, next, stale, due>>

-----------------------------------------------------------------------------
\* The key the iterator comes to after k.
After(k) == LET later == {j \in DOMAIN AllGame : j > k}
            IN IF later = {} THEN 0 ELSE CHOOSE j \in later : \A i \in later : j <= i

\* checkRoom makes the iterator before it takes the lock.
Begin == /\ sweep = "waiting"
         /\ sweep' = "made"
         /\ next' = After(0) /\ stale' = FALSE
         /\ due' = InTable \cap expired
         /\ UNCHANGED <<table, expired>>

Lock == /\ sweep = "made"
        /\ sweep' = "locked"
        /\ UNCHANGED <<table, expired, next, stale, due>>

\* (Mutants: the rooms that are not; none.)
isExpiredNot(room)   == room \notin expired
isExpiredNever(room) == FALSE
isExpired(room) == room \in expired

\* Mutant: the iterator does not move.
VisitAgain == /\ sweep = "locked" /\ next # 0 /\ ~stale
              /\ isExpired(AllGame[next])
              /\ AllGame' = [k \in DOMAIN AllGame \ {next} |-> AllGame[k]]
              /\ stale' = TRUE
              /\ UNCHANGED <<rooms, expired, sweep, next, due>>

\* One entry: an expired room is removed from the table itself, which makes the
\* iterator stale.
Visit == /\ sweep = "locked" /\ next # 0 /\ ~stale
         /\ AllGame[next] # Null
         /\ LET old == isExpired(AllGame[next])
            IN /\ AllGame' = [k \in DOMAIN AllGame \ (IF old THEN {next} ELSE {})
                                |-> AllGame[k]]
               /\ stale' = old
         /\ next' = After(next)
         /\ UNCHANGED <<rooms, expired, sweep, due>>

\* The iterator is stale, or the entry holds no room: the exception ends the
\* Timer's thread.
Throw == /\ sweep = "locked" /\ next # 0
         /\ stale \/ AllGame[next] = Null
         /\ sweep' = "dead" /\ next' = 0 /\ due' = {}
         /\ UNCHANGED <<table, expired, stale>>

\* Mutant: the sweep stops at the first room it removes.
FinishFirst == /\ sweep = "locked" /\ (next = 0 \/ stale)
               /\ sweep' = "waiting" /\ next' = 0 /\ due' = {}
               /\ UNCHANGED <<table, expired, stale>>

\* No entry is left; the next sweep follows in ten seconds.
Finish == /\ sweep = "locked" /\ next = 0
          /\ sweep' = "waiting" /\ due' = {}
          /\ UNCHANGED <<table, expired, next, stale>>

checkRoom == Begin \/ Lock \/ Visit \/ Throw \/ Finish

-----------------------------------------------------------------------------
TableNext == \/ \E key \in Keys, gameType \in gameTypes : CreateNewGameRoom(key, gameType)
             \/ \E room \in 1 .. MaxRooms : Expire(room)
             \/ checkRoom

\* The Timer's thread runs as long as it lives.
TableSpec == TableInit /\ [][TableNext]_tableVars /\ WF_tableVars(checkRoom)

\* The behaviours in which no room is created while a sweep runs: only the sweep's
\* own removals change the table under its iterator.
Undisturbed == rooms' # rooms => sweep = "waiting"
QuietSpec == TableInit /\ [][TableNext /\ Undisturbed]_tableVars /\ WF_tableVars(checkRoom)

-----------------------------------------------------------------------------
(***************************************************************************)
(* Properties.                                                             *)
(***************************************************************************)

\* The types; the iterator is at a key that is still in the table.
TypeOK ==
  /\ DOMAIN AllGame \subseteq Keys
  /\ \A k \in DOMAIN AllGame : AllGame[k] \in 0 .. rooms
  /\ rooms \in 0 .. MaxRooms
  /\ expired \subseteq 1 .. rooms
  /\ sweep \in {"waiting", "made", "locked", "dead"}
  /\ next \in {0} \cup DOMAIN AllGame
  /\ stale \in BOOLEAN
  /\ due \subseteq 1 .. rooms

\* A key stops being known only four hours after its room was created: the sweep
\* never takes away a room that a draft may still need.
OnlyExpiredLeave ==
  [][\A k \in DOMAIN AllGame : k \notin DOMAIN AllGame' => AllGame[k] \in expired]_tableVars

\* A sweep that comes to its end has removed every room that was there and
\* expired when it began.
SweepComplete == [][sweep = "locked" /\ sweep' = "waiting" => InTable' \cap due = {}]_tableVars

\* An expired room leaves the table, or the sweep has died.
ExpiredLeaveOrDead ==
  \A room \in 1 .. MaxRooms :
    room \in expired /\ room \in InTable ~> room \notin InTable \/ sweep = "dead"

\* An expired room leaves the table: "check whether a room is out of time".
ExpiredLeave ==
  \A room \in 1 .. MaxRooms : room \in expired /\ room \in InTable ~> room \notin InTable
=============================================================================
