------------------------------ MODULE Sessions ------------------------------
(***************************************************************************)
(* Connections, from LOGIN to Logout, and one room they are linked to:     *)
(* WebSocketServerHandler, the packet queue and the PackThreads,           *)
(* PlayerManager, LoginProtocol, LinkRoomProtocol and, in the room, the    *)
(* list allPlayers with PlayerAdd, RmPlayer, findPlayer and broadcast.     *)
(*                                                                         *)
(* Packets are handled by the PackThreads; a connection that closes logs   *)
(* out on the thread of its event loop.  Only the additions and the        *)
(* removals take the list's lock, so the iterations of the others meet a   *)
(* list that changes, and throw.  The broadcasts of a turn, on a           *)
(* PackThread or on the thread of a Timer, read the list and change        *)
(* nothing that is modelled here: they are left out.                       *)
(*                                                                         *)
(* A connection sends LOGIN, and LINK_ROOM once it was answered, as the    *)
(* pages of the clients do.                                                *)
(***************************************************************************)
EXTENDS Integers, Sequences, SequencesExt

CONSTANTS Conns,        \* connections; each has an event loop to log out on
          PackThreads,  \* the threads of ThreadManager
          Nobody        \* no connection

ASSUME ThreadsAssumption == /\ Nobody \notin PackThreads \cup Conns
                            /\ PackThreads \cap Conns = {}

VARIABLES
  open,        \* the connections that are open
  asked,       \* asked[c]: what c last sent, or that it was answered
  QuePacket,   \* the packets no thread has taken: <<packet, connection>>
  players,     \* the connections _allPlayer has a Player for
  inRoom,      \* the connections whose Player has its _room set
  allPlayers,  \* the list of the room
  modCount,    \* how often that list was added to or removed from
  lock,        \* the connection whose Logout holds the lock of _allPlayer, or Nobody
  pc, at,      \* pc[t], at[t]: where thread t is, and for which connection
  cursor,      \* cursor[t]: its iterator of allPlayers: [next, modCount]
  cut,         \* history: connections that closed with a packet still to be handled,
               \* or whose Logout was looking for its entry while one was added
  thrown       \* history: connections for which an iteration threw

client == <<open, asked, QuePacket>>
server == <<players, inRoom, allPlayers, modCount, lock>>
thread == <<pc, at, cursor>>
vars   == <<client, server, thread, cut, thrown>>

Threads  == PackThreads \cup Conns
NoCursor == [next |-> 0, modCount |-> 0]

Init == /\ open = Conns /\ asked = [c \in Conns |-> "nothing"] /\ QuePacket = <<>>
        /\ players = {} /\ inRoom = {} /\ allPlayers = <<>> /\ modCount = 0
        /\ lock = Nobody
        /\ pc = [t \in Threads |-> "idle"]
        /\ at = [t \in Threads |-> Nobody]
        /\ cursor = [t \in Threads |-> NoCursor]
        /\ cut = {} /\ thrown = {}

Pending(c) == \/ \E i \in DOMAIN QuePacket : QuePacket[i][2] = c
              \/ \E t \in PackThreads : pc[t] # "idle" /\ at[t] = c

-----------------------------------------------------------------------------
\* The connections.

\* channelRead0: a packet is read and queued.
channelRead0(c) ==
  /\ c \in open
  /\ \/ /\ asked[c] = "nothing"
        /\ asked' = [asked EXCEPT ![c] = "LOGIN"]
        /\ QuePacket' = Append(QuePacket, <<"LOGIN", c>>)
     \/ /\ asked[c] = "in"
        /\ asked' = [asked EXCEPT ![c] = "LINK"]
        /\ QuePacket' = Append(QuePacket, <<"LINK", c>>)
  /\ UNCHANGED <<open, server, thread, cut, thrown>>

\* handlerRemoved: the connection is gone, and its Logout begins.
handlerRemoved(c) ==
  /\ c \in open
  /\ open' = open \ {c}
  /\ cut' = IF Pending(c) THEN cut \cup {c} ELSE cut
  /\ pc' = [pc EXCEPT ![c] = "logout"] /\ at' = [at EXCEPT ![c] = c]
  /\ UNCHANGED <<asked, QuePacket, server, cursor, thrown>>

-----------------------------------------------------------------------------
\* The steps of a thread.

Goto(t, l) == pc' = [pc EXCEPT ![t] = l]
Return(t)  == /\ Goto(t, "idle") /\ at' = [at EXCEPT ![t] = Nobody]
              /\ cursor' = [cursor EXCEPT ![t] = NoCursor]

\* The reply is written if the connection is still active.
Answer(c, state) == asked' = IF c \in open THEN [asked EXCEPT ![c] = state] ELSE asked

\* PackThread.run takes the packet that has waited longest.
Take(t) ==
  /\ t \in PackThreads /\ pc[t] = "idle" /\ QuePacket # <<>>
  /\ LET p == Head(QuePacket)
     IN Goto(t, p[1]) /\ at' = [at EXCEPT ![t] = p[2]]
  /\ QuePacket' = Tail(QuePacket)
  /\ UNCHANGED <<open, asked, server, cursor, cut, thrown>>

\* Mutant: the player is not added while somebody logs out.
LoginTries(t) ==
  /\ pc[t] = "LOGIN"
  /\ players' = IF lock = Nobody THEN players \cup {at[t]} ELSE players
  /\ Answer(at[t], "in")
  /\ Return(t)
  /\ UNCHANGED <<open, QuePacket, inRoom, allPlayers, modCount, lock, cut, thrown>>

\* LoginProtocol: AddPlayer, under the lock, and the answer.
Login(t) ==
  /\ pc[t] = "LOGIN" /\ lock = Nobody
  /\ players' = players \cup {at[t]}
  /\ Answer(at[t], "in")
  /\ Return(t)
  /\ UNCHANGED <<open, QuePacket, inRoom, allPlayers, modCount, lock, cut, thrown>>

\* LinkRoomProtocol asks for the Player, without the lock; there is no answer
\* to a connection that has none.
GetPlayer(t) ==
  /\ pc[t] = "LINK"
  /\ \/ at[t] \in players /\ Goto(t, "setRoom") /\ UNCHANGED <<at, cursor>>
     \/ at[t] \notin players /\ Return(t)
  /\ UNCHANGED <<client, server, cut, thrown>>

\* The connections whose Logout is looking for its entry.
Looking == {c \in Conns : pc[c] = "find"}

\* Mutant: the Player is not told its room.
PlayerAddUntold(t) ==
  /\ \/ pc[t] = "setRoom" /\ Goto(t, "add") /\ UNCHANGED <<allPlayers, modCount, cut>>
     \/ /\ pc[t] = "add" /\ Goto(t, "iterate")
        /\ allPlayers' = Append(allPlayers, at[t]) /\ modCount' = modCount + 1
        /\ cut' = cut \cup Looking
  /\ UNCHANGED <<client, at, cursor, players, inRoom, lock, thrown>>

\* PlayerAdd: the Player learns its room, the list gets the Player, and the
\* broadcast begins.
PlayerAdd(t) ==
  /\ \/ /\ pc[t] = "setRoom" /\ Goto(t, "add")
        /\ inRoom' = inRoom \cup {at[t]}
        /\ UNCHANGED <<allPlayers, modCount, cut>>
     \/ /\ pc[t] = "add" /\ Goto(t, "iterate")
        /\ allPlayers' = Append(allPlayers, at[t]) /\ modCount' = modCount + 1
        /\ cut' = cut \cup Looking
        /\ UNCHANGED inRoom
  /\ UNCHANGED <<client, at, cursor, players, lock, thrown>>

\* A new iterator of the list.
Iterate(t, from, to) ==
  /\ pc[t] = from /\ Goto(t, to)
  /\ cursor' = [cursor EXCEPT ![t] = [next |-> 0, modCount |-> modCount]]
  /\ UNCHANGED <<client, server, at, cut, thrown>>

\* ArrayList's hasNext compares the cursor with the size, next the modCounts.
AtEnd(t)  == cursor[t].next = Len(allPlayers)
Throws(t) == ~AtEnd(t) /\ cursor[t].modCount # modCount
HasNext(t) == ~AtEnd(t) /\ cursor[t].modCount = modCount
Advance(t) == /\ cursor' = [cursor EXCEPT ![t].next = @ + 1]
              /\ UNCHANGED <<pc, at>>

\* Mutant: a write to a connection that closed ends the broadcast.
broadcastBreaks(t) ==
  /\ pc[t] = "write"
  /\ \/ HasNext(t) /\ allPlayers[cursor[t].next + 1] \in open /\ Advance(t) /\ UNCHANGED thrown
     \/ HasNext(t) /\ allPlayers[cursor[t].next + 1] \notin open /\ Return(t) /\ UNCHANGED thrown
     \/ AtEnd(t) /\ Goto(t, "answer") /\ UNCHANGED <<at, cursor, thrown>>
     \/ Throws(t) /\ Return(t) /\ thrown' = thrown \cup {at[t]}
  /\ UNCHANGED <<client, server, cut>>

\* broadcast: one write per entry.  What it throws ends the handler before the
\* answer is made.
broadcast(t) ==
  /\ pc[t] = "write"
  /\ \/ HasNext(t) /\ Advance(t) /\ UNCHANGED thrown
     \/ AtEnd(t) /\ Goto(t, "answer") /\ UNCHANGED <<at, cursor, thrown>>
     \/ Throws(t) /\ Return(t) /\ thrown' = thrown \cup {at[t]}
  /\ UNCHANGED <<client, server, cut>>

Linked(t) == /\ pc[t] = "answer"
             /\ Answer(at[t], "linked")
             /\ Return(t)
             /\ UNCHANGED <<open, QuePacket, server, cut, thrown>>

\* Mutant: two connections may log out at once.
LogoutUnlocked(t) ==
  /\ pc[t] = "logout"
  /\ \/ t \notin players /\ Return(t) /\ UNCHANGED players
     \/ t \in players \ inRoom /\ Return(t) /\ players' = players \ {t}
     \/ t \in players \cap inRoom /\ Goto(t, "rmPlayer") /\ UNCHANGED <<at, cursor, players>>
  /\ UNCHANGED <<client, inRoom, allPlayers, modCount, lock, cut, thrown>>

\* Logout: a connection without a Player ends it with an exception; a Player
\* without a room is forgotten at once; a Player with one leaves it first.
Logout(t) ==
  /\ pc[t] = "logout" /\ lock = Nobody
  /\ \/ t \notin players /\ Return(t) /\ UNCHANGED <<players, lock>>
     \/ t \in players \ inRoom /\ Return(t) /\ players' = players \ {t} /\ UNCHANGED lock
     \/ /\ t \in players \cap inRoom /\ Goto(t, "rmPlayer")
        /\ lock' = t
        /\ UNCHANGED <<at, cursor, players>>
  /\ UNCHANGED <<client, inRoom, allPlayers, modCount, cut, thrown>>

\* findPlayer; an exception leaves Logout, which lets go of the lock.
findPlayer(t) ==
  /\ pc[t] = "find"
  /\ \/ AtEnd(t) /\ Goto(t, "forget") /\ UNCHANGED <<at, cursor, lock, thrown>>
     \/ /\ HasNext(t) /\ allPlayers[cursor[t].next + 1] = t
        /\ Goto(t, "remove") /\ UNCHANGED <<at, cursor, lock, thrown>>
     \/ /\ HasNext(t) /\ allPlayers[cursor[t].next + 1] # t
        /\ Advance(t) /\ UNCHANGED <<lock, thrown>>
     \/ Throws(t) /\ Return(t) /\ lock' = Nobody /\ thrown' = thrown \cup {t}
  /\ UNCHANGED <<client, players, inRoom, allPlayers, modCount, cut>>

\* The entry is removed; then the Player forgets its room and is forgotten.
RmPlayer(t) ==
  \/ /\ pc[t] = "remove" /\ Goto(t, "forget")
     /\ \E k \in DOMAIN allPlayers :
          /\ allPlayers[k] = t /\ \A i \in 1 .. k - 1 : allPlayers[i] # t
          /\ allPlayers' = RemoveAt(allPlayers, k)
     /\ modCount' = modCount + 1
     /\ UNCHANGED <<client, players, inRoom, lock, at, cursor, cut, thrown>>
  \/ /\ pc[t] = "forget" /\ Return(t)
     /\ inRoom' = inRoom \ {t} /\ players' = players \ {t} /\ lock' = Nobody
     /\ UNCHANGED <<client, allPlayers, modCount, cut, thrown>>

Step(t) == \/ Take(t) \/ Login(t) \/ GetPlayer(t) \/ PlayerAdd(t)
           \/ Iterate(t, "iterate", "write") \/ broadcast(t) \/ Linked(t)
           \/ Logout(t) \/ Iterate(t, "rmPlayer", "find") \/ findPlayer(t) \/ RmPlayer(t)

Next == \/ \E c \in Conns : channelRead0(c) \/ handlerRemoved(c)
        \/ \E t \in Threads : Step(t)

\* Every thread runs; the clients need not send or close anything.
Spec == Init /\ [][Next]_vars /\ \A t \in Threads : WF_vars(Step(t))

-----------------------------------------------------------------------------
(***************************************************************************)
(* Properties.                                                             *)
(***************************************************************************)
Listed(c) == \E i \in DOMAIN allPlayers : allPlayers[i] = c

\* A connection that was answered is known as long as it is open: packets of an
\* open connection are never dropped for want of a Player.
KnownWhileOpen ==
  \A c \in open : asked[c] \in {"in", "LINK", "linked"} => c \in players

\* An open connection with no packet on its way has its room set just when the
\* room lists it: it is broadcast to when its packets reach the room.
RoomBothWays == \A c \in open : ~Pending(c) => (c \in inRoom <=> Listed(c))

\* Nothing is left of a closed connection, whatever others added before, removed
\* meanwhile or are broadcasting, unless it closed with a packet still to be
\* handled, or an entry was added while its Logout was looking for its own.
NothingLeft ==
  \A c \in Conns \ open : pc[c] = "idle" /\ ~Pending(c) /\ c \notin cut
                            => c \notin players /\ ~Listed(c)

\* A LINK_ROOM is answered, unless the connection closes or the broadcast of its
\* PlayerAdd throws.
AnsweredOrThrown ==
  \A c \in Conns : asked[c] = "LINK" ~> asked[c] = "linked" \/ c \notin open \/ c \in thrown
=============================================================================
