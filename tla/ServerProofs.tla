----------------------------- MODULE ServerProofs -----------------------------
(***************************************************************************)
(* Theorems about what all rooms of the server share: the connections      *)
(* (Sessions) and the table of rooms (GameRoomManager, at the end).        *)
(*                                                                         *)
(* The connections, for any number of them and of threads.  The argument:  *)
(* a client waits for the answer before it sends again, so a connection    *)
(* has one packet on its way at most (OneOnItsWay) and is listed once      *)
(* (ListedOnce); a Logout begins when the connection is closed and holds   *)
(* the lock while it looks for its entry, so that nobody removes another   *)
(* meanwhile, and the list is as its iterator met it unless one was added  *)
(* (Gone).                                                                 *)
(***************************************************************************)
EXTENDS Sessions, GameRoomManager, SequenceTheorems, WellFoundedInduction, TLAPS

USE ThreadsAssumption DEF Threads

\* Where a PackThread may be, and where the Logout of a connection.
Handling == {"idle", "LOGIN", "LINK", "setRoom", "add", "iterate", "write", "answer"}
Leaving  == {"idle", "logout", "rmPlayer", "find", "remove", "forget"}
Cursors  == [next : Nat, modCount : Nat]

Types ==
  /\ open \subseteq Conns /\ players \subseteq Conns /\ inRoom \subseteq Conns
  /\ asked \in [Conns -> {"nothing", "LOGIN", "in", "LINK", "linked"}]
  /\ QuePacket \in Seq({"LOGIN", "LINK"} \X Conns)
  /\ allPlayers \in Seq(Conns) /\ modCount \in Nat
  /\ cursor \in [Threads -> Cursors]
  /\ DOMAIN pc = Threads /\ DOMAIN at = Threads

\* A PackThread handles a packet of a connection; a connection that logs out is
\* closed, and the lock is held from where its room is left.
Where ==
  /\ \A t \in PackThreads : pc[t] \in Handling /\ (pc[t] # "idle" => at[t] \in Conns)
  /\ \A c \in Conns : pc[c] \in Leaving /\ (pc[c] # "idle" => c \notin open /\ at[c] = c)
  /\ \A c \in Conns : pc[c] \in {"rmPlayer", "find", "remove", "forget"} => lock = c

\* What is on its way for a connection is what it asked last.
AskedMatches ==
  /\ \A i \in DOMAIN QuePacket : asked[QuePacket[i][2]] = QuePacket[i][1]
  /\ \A t \in PackThreads : pc[t] # "idle" =>
       asked[at[t]] = IF pc[t] = "LOGIN" THEN "LOGIN" ELSE "LINK"

\* A connection has one packet on its way at most.
OneOnItsWay ==
  /\ \A i, j \in DOMAIN QuePacket : QuePacket[i][2] = QuePacket[j][2] => i = j
  /\ \A i \in DOMAIN QuePacket, t \in PackThreads : pc[t] # "idle" => at[t] # QuePacket[i][2]
  /\ \A t, u \in PackThreads : pc[t] # "idle" /\ pc[u] # "idle" /\ at[t] = at[u] => t = u

\* A connection is listed once, and not before the add that its LINK comes to.
ListedOnce ==
  /\ \A i, j \in DOMAIN allPlayers : allPlayers[i] = allPlayers[j] => i = j
  /\ \A c \in Conns : asked[c] \in {"nothing", "LOGIN", "in"} => ~Listed(c)
  /\ \A i \in DOMAIN QuePacket : ~Listed(QuePacket[i][2])
  /\ \A t \in PackThreads : pc[t] \in {"LINK", "setRoom", "add"} => ~Listed(at[t])

\* A closed connection with a packet on its way is in cut, and an open one is not.
CutRight == /\ cut \cap open = {} /\ \A c \in Conns \ open : Pending(c) => c \in cut

\* What is listed knows its room, and what knows its room is known, and is listed
\* or about to be.
InRoom ==
  /\ \A t \in PackThreads : pc[t] = "add" /\ at[t] \in open => at[t] \in inRoom
  /\ \A c \in Conns \ cut : Listed(c) => c \in inRoom
  /\ \A c \in Conns \ cut : c \in inRoom => c \in players
  /\ \A c \in open \cap inRoom : Listed(c) \/ \E t \in PackThreads : pc[t] = "add" /\ at[t] = c

\* A Logout that reads the list to its end has not missed its connection, and no
\* removal has made its iterator stale.
Gone ==
  /\ \A c \in Conns \ cut : pc[c] = "find" =>
       /\ cursor[c].next <= Len(allPlayers) /\ cursor[c].modCount = modCount
       /\ \A i \in 1 .. cursor[c].next : allPlayers[i] # c
  /\ \A c \in Conns \ cut : pc[c] = "forget" => ~Listed(c)
  /\ \A c \in Conns \ open : pc[c] = "idle" /\ c \notin cut
                               => c \notin players /\ ~Listed(c)

IInv == /\ Types /\ Where /\ AskedMatches /\ OneOnItsWay /\ KnownWhileOpen
        /\ ListedOnce /\ CutRight /\ InRoom /\ Gone

-----------------------------------------------------------------------------
(* What taking one entry out of a list leaves; SequencesExt defines        *)
(* RemoveAt, which the library's theorems do not mention.                  *)

\* Without entry k: the entries before it stay, those after it move down by one.
LEMMA RemoveAtProperties ==
  ASSUME NEW S, NEW s \in Seq(S), NEW k \in 1 .. Len(s)
  PROVE  /\ RemoveAt(s, k) \in Seq(S)
         /\ Len(RemoveAt(s, k)) = Len(s) - 1
         /\ \A i \in 1 .. Len(s) - 1 : RemoveAt(s, k)[i] = s[IF i < k THEN i ELSE i + 1]
<1> DEFINE a == SubSeq(s, 1, k - 1)
           b == SubSeq(s, k + 1, Len(s))
<1>1. Len(s) \in Nat /\ k \in 1 .. Len(s) /\ \A i \in 1 .. Len(s) : s[i] \in S
  BY ElementOfSeq, LenProperties
<1>2. a \in Seq(S) /\ Len(a) = k - 1 /\ \A i \in 1 .. k - 1 : a[i] = s[i]
  BY <1>1
<1>3. b \in Seq(S) /\ Len(b) = Len(s) - k /\ \A i \in 1 .. Len(s) - k : b[i] = s[k + i]
  BY <1>1
<1>4. RemoveAt(s, k) = a \o b
  BY DEF RemoveAt
<1> HIDE DEF a, b
<1>5. /\ a \o b \in Seq(S) /\ Len(a \o b) = Len(a) + Len(b)
      /\ \A i \in 1 .. Len(a) + Len(b) :
           (a \o b)[i] = IF i <= Len(a) THEN a[i] ELSE b[i - Len(a)]
  BY ONLY <1>2, <1>3, ConcatProperties
<1>6. \A i \in 1 .. Len(s) - 1 : (a \o b)[i] = IF i < k THEN a[i] ELSE b[i - (k - 1)]
  BY ONLY <1>1, <1>2, <1>3, <1>5
<1>7. ASSUME NEW i \in 1 .. Len(s) - 1
      PROVE  (a \o b)[i] = s[IF i < k THEN i ELSE i + 1]
  <2>1. CASE i < k
    BY ONLY <1>1, <1>2, <1>6, <2>1
  <2>2. CASE ~(i < k)
    <3>1. i - (k - 1) \in 1 .. Len(s) - k /\ k + (i - (k - 1)) = i + 1
      BY ONLY <1>1, <2>2
    <3> QED  BY ONLY <1>3, <1>6, <2>2, <3>1
  <2> QED  BY <2>1, <2>2
<1> QED  BY <1>1, <1>2, <1>3, <1>4, <1>5, <1>7

\* Its entries are entries of the list, and all of them but entry k.
LEMMA RemoveAtEntries ==
  ASSUME NEW S, NEW s \in Seq(S), NEW k \in DOMAIN s, NEW r, r = RemoveAt(s, k)
  PROVE  /\ r \in Seq(S)
         /\ \A i \in DOMAIN r : \E j \in DOMAIN s : r[i] = s[j]
         /\ \A j \in DOMAIN s : j # k => \E i \in DOMAIN r : r[i] = s[j]
<1>1. /\ DOMAIN s = 1 .. Len(s) /\ Len(s) \in Nat /\ k \in 1 .. Len(s)
  BY LenProperties
<1>2. /\ r \in Seq(S) /\ Len(r) = Len(s) - 1
      /\ \A i \in 1 .. Len(s) - 1 : r[i] = s[IF i < k THEN i ELSE i + 1]
  BY <1>1, RemoveAtProperties
<1>3. DOMAIN r = 1 .. Len(s) - 1
  BY <1>2, LenProperties
<1>4. ASSUME NEW i \in 1 .. Len(s) - 1
      PROVE  \E j \in 1 .. Len(s) : r[i] = s[j]
  <2>1. (IF i < k THEN i ELSE i + 1) \in 1 .. Len(s)
    BY <1>1
  <2> QED  BY <1>2, <2>1
<1>5. ASSUME NEW j \in 1 .. Len(s), j # k
      PROVE  \E i \in 1 .. Len(s) - 1 : r[i] = s[j]
  <2>1. CASE j < k
    <3>1. j \in 1 .. Len(s) - 1  BY <1>1, <2>1
    <3> QED  BY <1>2, <2>1, <3>1
  <2>2. CASE j > k
    <3>1. j - 1 \in 1 .. Len(s) - 1 /\ ~(j - 1 < k) /\ (j - 1) + 1 = j  BY <1>1, <2>2
    <3>2. r[j - 1] = s[j]  BY <1>2, <3>1
    <3> QED  BY <3>1, <3>2
  <2> QED  BY <1>1, <1>5, <2>1, <2>2
<1>6. \A i \in DOMAIN r : \E j \in DOMAIN s : r[i] = s[j]
  BY <1>1, <1>3, <1>4
<1>7. \A j \in DOMAIN s : j # k => \E i \in DOMAIN r : r[i] = s[j]
  BY <1>1, <1>3, <1>5
<1> QED  BY <1>2, <1>6, <1>7

-----------------------------------------------------------------------------
(* The steps of the PackThreads. *)

\* A PackThread goes on with a packet, and leaves the players and the list alone.
LEMMA PackMoves ==
  ASSUME IInv, NEW t \in PackThreads, pc[t] # "idle",
         cursor' \in [Threads -> Cursors], DOMAIN pc' = Threads, DOMAIN at' = Threads,
         \A c \in Conns : pc'[c] = pc[c] /\ at'[c] = at[c] /\ cursor'[c] = cursor[c],
         \A u \in PackThreads : u # t => pc'[u] = pc[u] /\ at'[u] = at[u],
         pc'[t] \in {"idle", "setRoom", "iterate", "write", "answer"},
         pc'[t] # "idle" => at'[t] = at[t] /\ pc[t] # "LOGIN",
         pc'[t] = "setRoom" => pc[t] = "LINK",
         pc[t] # "add",
         asked' \in [Conns -> {"nothing", "LOGIN", "in", "LINK", "linked"}],
         \A c \in Conns : \/ asked'[c] = asked[c]
                          \/ /\ c = at[t] /\ pc[t] = "answer" /\ pc'[t] = "idle"
                             /\ asked'[c] = "linked",
         UNCHANGED <<open, QuePacket, players, inRoom, allPlayers, modCount, lock, cut>>
  PROVE  IInv'
<1>0. /\ Types /\ Where /\ AskedMatches /\ OneOnItsWay /\ KnownWhileOpen
      /\ ListedOnce /\ CutRight /\ InRoom /\ Gone
  BY DEF IInv
<1>1. at[t] \in Conns /\ pc[t] \in Handling
  BY <1>0 DEF Where
<1>2. \A u \in PackThreads : pc'[u] \in Handling /\ (pc'[u] # "idle" => pc[u] # "idle" /\ at'[u] = at[u])
  BY <1>0 DEF Where, Handling
<1>11. Types'
  BY <1>0, <1>1, <1>2 DEF Types
<1>12. Where'
  BY <1>0, <1>1, <1>2 DEF Where
<1>13. AskedMatches'
  <2>1. \A i \in DOMAIN QuePacket : /\ QuePacket[i][2] \in Conns
                                    /\ asked'[QuePacket[i][2]] = asked[QuePacket[i][2]]
    <3> TAKE i \in DOMAIN QuePacket
    <3>1. QuePacket[i] \in {"LOGIN", "LINK"} \X Conns
      BY <1>0, ElementOfSeq, LenProperties DEF Types
    <3> QED  BY <1>0, <3>1 DEF OneOnItsWay
  <2>2. \A u \in PackThreads : pc'[u] # "idle" => asked'[at'[u]] = asked[at[u]]
    BY <1>0, <1>1, <1>2 DEF OneOnItsWay, Where
  <2>3. \A u \in PackThreads : pc'[u] # "idle" => (pc'[u] = "LOGIN" <=> pc[u] = "LOGIN")
    OBVIOUS
  <2> QED  BY <1>0, <1>2, <2>1, <2>2, <2>3 DEF AskedMatches
<1>14. OneOnItsWay'
  BY <1>0, <1>1, <1>2 DEF OneOnItsWay
<1>15. KnownWhileOpen'
  <2> SUFFICES ASSUME NEW c \in open, asked'[c] \in {"in", "LINK", "linked"}
               PROVE  c \in players
    BY DEF KnownWhileOpen
  <2>1. c \in Conns
    BY <1>0 DEF Types
  <2>2. asked[c] \in {"in", "LINK", "linked"}
    BY <1>0, <2>1 DEF AskedMatches
  <2> QED  BY <1>0, <2>2 DEF KnownWhileOpen
<1>16. ListedOnce'
  BY <1>0, <1>1, <1>2 DEF ListedOnce, Listed
<1>17. CutRight'
  BY <1>0, <1>1, <1>2 DEF CutRight, Pending
<1>18. InRoom'
  BY <1>0, <1>1, <1>2 DEF InRoom, Listed
<1>19. Gone'
  BY <1>0, <1>1, <1>2 DEF Gone, Listed
<1> QED  BY <1>11, <1>12, <1>13, <1>14, <1>15, <1>16, <1>17, <1>18, <1>19 DEF IInv

\* The steps of a PackThread that PackMoves describes.
LEMMA PackSteps ==
  ASSUME IInv, NEW t \in PackThreads,
         GetPlayer(t) \/ Iterate(t, "iterate", "write") \/ broadcast(t) \/ Linked(t)
  PROVE  IInv'
<1>0. Types /\ Where
  BY DEF IInv
<1>1. /\ DOMAIN pc = Threads /\ DOMAIN at = Threads /\ cursor \in [Threads -> Cursors]
      /\ modCount \in Nat /\ asked \in [Conns -> {"nothing", "LOGIN", "in", "LINK", "linked"}]
  BY <1>0 DEF Types
<1> DEFINE Quiet == UNCHANGED <<open, QuePacket, players, inRoom, allPlayers, modCount, lock, cut>>
           Moves(l) == pc' = [pc EXCEPT ![t] = l] /\ at' = at
           Ends == pc' = [pc EXCEPT ![t] = "idle"] /\ at' = [at EXCEPT ![t] = Nobody]
<1>2. CASE GetPlayer(t)
  <2>1. /\ pc[t] = "LINK" /\ asked' = asked /\ Quiet
        /\ (Moves("setRoom") /\ cursor' = cursor)
             \/ (Ends /\ cursor' = [cursor EXCEPT ![t] = NoCursor])
    BY <1>2 DEF GetPlayer, Goto, Return, client, server
  <2>2. cursor' \in [Threads -> Cursors]
    BY <1>1, <2>1 DEF NoCursor, Cursors
  <2> QED  BY <1>1, <2>1, <2>2, PackMoves
<1>3. CASE Iterate(t, "iterate", "write")
  <2>1. /\ pc[t] = "iterate" /\ asked' = asked /\ Quiet
        /\ Moves("write") /\ cursor' = [cursor EXCEPT ![t] = [next |-> 0, modCount |-> modCount]]
    BY <1>3 DEF Iterate, Goto, client, server
  <2>2. cursor' \in [Threads -> Cursors]
    BY <1>1, <2>1 DEF Cursors
  <2> QED  BY <1>1, <2>1, <2>2, PackMoves
<1>4. CASE broadcast(t)
  <2>1. /\ pc[t] = "write" /\ asked' = asked /\ Quiet
        /\ \/ pc' = pc /\ at' = at /\ cursor' = [cursor EXCEPT ![t].next = @ + 1]
           \/ Moves("answer") /\ cursor' = cursor
           \/ Ends /\ cursor' = [cursor EXCEPT ![t] = NoCursor]
    BY <1>4 DEF broadcast, Goto, Return, Advance, client, server
  <2>2. cursor' \in [Threads -> Cursors]
    BY <1>1, <2>1 DEF NoCursor, Cursors
  <2> QED  BY <1>1, <2>1, <2>2, PackMoves
<1>5. CASE Linked(t)
  <2>1. /\ pc[t] = "answer" /\ Quiet /\ Ends
        /\ cursor' = [cursor EXCEPT ![t] = NoCursor]
        /\ asked' = [asked EXCEPT ![at[t]] = "linked"] \/ asked' = asked
    BY <1>5 DEF Linked, Answer, Return, Goto, server
  <2>2. cursor' \in [Threads -> Cursors]
    BY <1>1, <2>1 DEF NoCursor, Cursors
  <2> QED  BY <1>1, <2>1, <2>2, PackMoves
<1> QED  BY <1>2, <1>3, <1>4, <1>5

-----------------------------------------------------------------------------
(* The steps of a Logout. *)

\* A Logout goes on, and leaves the players and the list alone.
LEMMA LeavingMoves ==
  ASSUME IInv, NEW c \in Conns, Where',
         cursor' \in [Threads -> Cursors], DOMAIN pc' = Threads, DOMAIN at' = Threads,
         \A t \in Threads : t # c => /\ pc'[t] = pc[t] /\ at'[t] = at[t]
                                     /\ cursor'[t] = cursor[t],
         pc[c] # "idle",
         UNCHANGED <<open, asked, QuePacket, players, inRoom, allPlayers, modCount, cut>>,
         c \notin cut =>
           /\ pc'[c] = "find" => /\ cursor'[c].next <= Len(allPlayers)
                                 /\ cursor'[c].modCount = modCount
                                 /\ \A i \in 1 .. cursor'[c].next : allPlayers[i] # c
           /\ pc'[c] = "forget" => ~Listed(c)
           /\ pc'[c] = "idle" => c \notin players /\ ~Listed(c)
  PROVE  IInv'
<1>0. /\ Types /\ Where /\ AskedMatches /\ OneOnItsWay /\ KnownWhileOpen
      /\ ListedOnce /\ CutRight /\ InRoom /\ Gone
  BY DEF IInv
<1>1. \A t \in PackThreads : pc'[t] = pc[t] /\ at'[t] = at[t]
  OBVIOUS
<1>11. Types'
  BY <1>0, <1>1 DEF Types
<1>12. Where'
  OBVIOUS
<1>13. AskedMatches'
  BY <1>0, <1>1 DEF AskedMatches
<1>14. OneOnItsWay'
  BY <1>0, <1>1 DEF OneOnItsWay
<1>15. KnownWhileOpen'
  BY <1>0, <1>1 DEF KnownWhileOpen
<1>16. ListedOnce'
  BY <1>0, <1>1 DEF ListedOnce, Listed
<1>17. CutRight'
  BY <1>0, <1>1 DEF CutRight, Pending
<1>18. InRoom'
  BY <1>0, <1>1 DEF InRoom, Listed
<1>19. Gone'
  BY <1>0, <1>1 DEF Gone, Listed
<1> QED  BY <1>11, <1>12, <1>13, <1>14, <1>15, <1>16, <1>17, <1>18, <1>19 DEF IInv

\* The steps of a Logout that LeavingMoves describes.
LEMMA LeavingSteps ==
  ASSUME IInv, NEW c \in Conns,
         (Logout(c) /\ players' = players) \/ Iterate(c, "rmPlayer", "find") \/ findPlayer(c)
  PROVE  IInv'
<1>0. /\ Types /\ Where /\ CutRight /\ InRoom /\ Gone
  BY DEF IInv
<1>1. /\ DOMAIN pc = Threads /\ DOMAIN at = Threads /\ cursor \in [Threads -> Cursors]
      /\ modCount \in Nat /\ DOMAIN allPlayers = 1 .. Len(allPlayers) /\ Len(allPlayers) \in Nat
  BY <1>0, LenProperties DEF Types
<1> DEFINE Quiet == UNCHANGED <<open, asked, QuePacket, players, inRoom, allPlayers, modCount, cut>>
           Moves(l) == pc' = [pc EXCEPT ![c] = l] /\ at' = at
           Ends == pc' = [pc EXCEPT ![c] = "idle"] /\ at' = [at EXCEPT ![c] = Nobody]
                   /\ cursor' = [cursor EXCEPT ![c] = NoCursor]
<1>2. CASE Logout(c) /\ players' = players
  <2>1. /\ pc[c] = "logout" /\ lock = Nobody /\ Quiet
        /\ \/ c \notin players /\ Ends /\ lock' = lock
           \/ Moves("rmPlayer") /\ lock' = c /\ cursor' = cursor
    BY <1>2 DEF Logout, Goto, Return, client
  <2>2. cursor' \in [Threads -> Cursors] /\ Where'
    BY <1>0, <1>1, <2>1 DEF NoCursor, Cursors, Where, Leaving, Handling
  <2>3. c \notin cut /\ c \notin players => ~Listed(c)
    BY <1>0 DEF InRoom
  <2> QED  BY <1>1, <2>1, <2>2, <2>3, LeavingMoves
<1>3. CASE Iterate(c, "rmPlayer", "find")
  <2>1. /\ pc[c] = "rmPlayer" /\ Quiet /\ lock' = lock /\ Moves("find")
        /\ cursor' = [cursor EXCEPT ![c] = [next |-> 0, modCount |-> modCount]]
    BY <1>3 DEF Iterate, Goto, client, server
  <2>2. cursor' \in [Threads -> Cursors] /\ Where'
    BY <1>0, <1>1, <2>1 DEF Cursors, Where, Leaving, Handling
  <2>3. cursor'[c].next = 0 /\ cursor'[c].modCount = modCount
    BY <1>1, <2>1
  <2> QED  BY <1>1, <2>1, <2>2, <2>3, LeavingMoves
<1>4. CASE findPlayer(c)
  <2>1. /\ pc[c] = "find" /\ Quiet /\ c \notin open /\ at[c] = c /\ lock = c
    BY <1>0, <1>4 DEF findPlayer, client, Where
  <2>2. cursor[c].next \in Nat
    BY <1>1 DEF Cursors
  <2>3. CASE AtEnd(c) /\ Goto(c, "forget") /\ UNCHANGED <<at, cursor, lock>>
    <3>1. Where'
      BY <1>0, <1>1, <2>1, <2>3 DEF Goto, Where, Leaving, Handling
    <3>2. c \notin cut => ~Listed(c)
      BY <1>0, <1>1, <2>1, <2>3 DEF Gone, Listed, AtEnd
    <3> QED  BY <1>1, <2>1, <2>3, <3>1, <3>2, LeavingMoves DEF Goto
  <2>4. CASE Goto(c, "remove") /\ UNCHANGED <<at, cursor, lock>>
    <3>1. Where'
      BY <1>0, <1>1, <2>1, <2>4 DEF Goto, Where, Leaving, Handling
    <3> QED  BY <1>1, <2>1, <2>4, <3>1, LeavingMoves DEF Goto
  <2>5. CASE HasNext(c) /\ allPlayers[cursor[c].next + 1] # c /\ Advance(c)
               /\ UNCHANGED lock
    <3>1. Where'
      BY <1>0, <2>1, <2>5 DEF Advance, Where
    <3>2. /\ cursor' \in [Threads -> Cursors] /\ cursor'[c].next = cursor[c].next + 1
          /\ cursor'[c].modCount = cursor[c].modCount
      BY <1>1, <2>5 DEF Advance, Cursors
    <3>3. c \notin cut => /\ cursor'[c].next <= Len(allPlayers)
                          /\ cursor'[c].modCount = modCount
                          /\ \A i \in 1 .. cursor'[c].next : allPlayers[i] # c
      BY <1>0, <1>1, <2>1, <2>2, <2>5, <3>2 DEF Gone, HasNext, AtEnd
    <3> QED  BY <1>1, <2>1, <2>5, <3>1, <3>2, <3>3, LeavingMoves DEF Advance
  <2>6. CASE Throws(c) /\ Return(c) /\ lock' = Nobody
    <3>1. cursor' \in [Threads -> Cursors] /\ Where'
      BY <1>0, <1>1, <2>1, <2>6 DEF Return, Goto, NoCursor, Cursors, Where, Leaving, Handling
    <3>2. c \in cut
      BY <1>0, <2>1, <2>6 DEF Gone, Throws
    <3> QED  BY <1>1, <2>1, <2>6, <3>1, <3>2, LeavingMoves DEF Return, Goto
  <2> QED  BY <1>4, <2>3, <2>4, <2>5, <2>6 DEF findPlayer
<1> QED  BY <1>2, <1>3, <1>4

-----------------------------------------------------------------------------
(* The steps that change the players, the list or the packets. *)

\* LoginProtocol's step.
LEMMA LoginStep ==
  ASSUME IInv, NEW t \in Threads, Login(t)
  PROVE  IInv'
<1>0. /\ Types /\ Where /\ AskedMatches /\ OneOnItsWay /\ KnownWhileOpen
      /\ ListedOnce /\ CutRight /\ InRoom /\ Gone
  BY DEF IInv
<1>1. t \in PackThreads /\ pc[t] = "LOGIN" /\ at[t] \in Conns /\ at[t] \in open \cup cut
  BY <1>0 DEF Login, Where, Leaving, CutRight, Pending
<1>2. /\ \A u \in Threads : u # t => pc'[u] = pc[u] /\ at'[u] = at[u] /\ cursor'[u] = cursor[u]
      /\ pc'[t] = "idle" /\ DOMAIN pc' = Threads /\ DOMAIN at' = Threads
      /\ cursor' \in [Threads -> Cursors]
  BY <1>0 DEF Login, Return, Goto, Types, NoCursor, Cursors
<1>3. /\ asked' \in [Conns -> {"nothing", "LOGIN", "in", "LINK", "linked"}]
      /\ asked[at[t]] = "LOGIN" /\ \A c \in Conns : c # at[t] => asked'[c] = asked[c]
      /\ asked'[at[t]] \in {"in", "LOGIN"}
  BY <1>0, <1>1 DEF Login, Answer, Types, AskedMatches
<1>4. /\ players' = players \cup {at[t]}
      /\ UNCHANGED <<open, QuePacket, inRoom, allPlayers, modCount, lock, cut, thrown>>
  BY DEF Login
<1>11. Types'
  BY <1>0, <1>1, <1>2, <1>3, <1>4 DEF Types, NoCursor, Cursors
<1>12. Where'
  BY <1>0, <1>1, <1>2, <1>4 DEF Where, Handling
<1>13. AskedMatches'
  <2>1. \A i \in DOMAIN QuePacket : /\ QuePacket[i][2] \in Conns
                                    /\ asked'[QuePacket[i][2]] = asked[QuePacket[i][2]]
    <3> TAKE i \in DOMAIN QuePacket
    <3>1. QuePacket[i] \in {"LOGIN", "LINK"} \X Conns
      BY <1>0, ElementOfSeq, LenProperties DEF Types
    <3> QED  BY <1>0, <1>1, <1>3, <3>1 DEF OneOnItsWay
  <2>2. \A u \in PackThreads : pc'[u] # "idle" => asked'[at'[u]] = asked[at[u]]
    BY <1>0, <1>1, <1>2, <1>3 DEF OneOnItsWay, Where
  <2>3. \A u \in PackThreads : pc'[u] # "idle" => (pc'[u] = "LOGIN" <=> pc[u] = "LOGIN")
    BY <1>1, <1>2
  <2> QED  BY <1>0, <1>2, <1>1, <1>3, <1>4, <2>1, <2>2, <2>3 DEF AskedMatches
<1>14. OneOnItsWay'
  BY <1>0, <1>1, <1>2, <1>3, <1>4 DEF OneOnItsWay
<1>15. KnownWhileOpen'
  BY <1>0, <1>1, <1>3, <1>4 DEF KnownWhileOpen, Types
<1>16. ListedOnce'
  BY <1>0, <1>1, <1>2, <1>3, <1>4 DEF ListedOnce, Listed
<1>17. CutRight'
  BY <1>0, <1>1, <1>2, <1>3, <1>4 DEF CutRight, Pending
<1>18. InRoom'
  BY <1>0, <1>1, <1>2, <1>3, <1>4 DEF InRoom, Listed
<1>19. Gone'
  BY <1>0, <1>1, <1>2, <1>3, <1>4 DEF Gone, Listed
<1> QED  BY <1>11, <1>12, <1>13, <1>14, <1>15, <1>16, <1>17, <1>18, <1>19 DEF IInv

\* PackThread.run takes a packet.
LEMMA TakeStep ==
  ASSUME IInv, NEW t \in Threads, Take(t)
  PROVE  IInv'
<1>0. /\ Types /\ Where /\ AskedMatches /\ OneOnItsWay /\ KnownWhileOpen
      /\ ListedOnce /\ CutRight /\ InRoom /\ Gone
  BY DEF IInv
<1>1. /\ t \in PackThreads /\ pc[t] = "idle" /\ QuePacket # <<>>
      /\ QuePacket[1][1] \in {"LOGIN", "LINK"} /\ QuePacket[1][2] \in Conns
  <2>1. QuePacket[1] \in {"LOGIN", "LINK"} \X Conns
    BY <1>0, HeadTailProperties DEF Take, Types
  <2> QED  BY <2>1 DEF Take
<1>2. /\ \A u \in Threads : u # t => pc'[u] = pc[u] /\ at'[u] = at[u]
      /\ pc'[t] = QuePacket[1][1] /\ at'[t] = QuePacket[1][2]
      /\ DOMAIN pc' = Threads /\ DOMAIN at' = Threads
  BY <1>0, <1>1, HeadTailProperties DEF Take, Goto, Types
<1>3. /\ QuePacket' \in Seq({"LOGIN", "LINK"} \X Conns)
      /\ 1 \in DOMAIN QuePacket
      /\ \A i \in DOMAIN QuePacket' : /\ i + 1 \in DOMAIN QuePacket /\ i \in Nat /\ i + 1 # 1
                                      /\ QuePacket'[i] = QuePacket[i + 1]
  BY <1>0, <1>1, HeadTailProperties, LenProperties DEF Take, Types
<1>4. UNCHANGED <<open, asked, players, inRoom, allPlayers, modCount, lock, cursor, cut, thrown>>
  BY DEF Take, server
<1>11. Types'
  BY <1>0, <1>2, <1>3, <1>4 DEF Types
<1>12. Where'
  BY <1>0, <1>1, <1>2, <1>4 DEF Where, Handling
<1>13. AskedMatches'
  BY <1>0, <1>1, <1>2, <1>3, <1>4 DEF AskedMatches
<1>14. OneOnItsWay'
  <2>1. \A i, j \in DOMAIN QuePacket' : QuePacket'[i][2] = QuePacket'[j][2] => i = j
    BY <1>0, <1>3 DEF OneOnItsWay
  <2>2. \A u \in PackThreads : pc'[u] # "idle" => u = t \/ (pc[u] # "idle" /\ at'[u] = at[u])
    BY <1>1, <1>2
  <2>3. \A i \in DOMAIN QuePacket' : QuePacket'[i][2] # at'[t]
    BY <1>0, <1>2, <1>3 DEF OneOnItsWay
  <2>4. \A i \in DOMAIN QuePacket', u \in PackThreads : pc'[u] # "idle" => at'[u] # QuePacket'[i][2]
    BY <1>0, <1>3, <2>2, <2>3 DEF OneOnItsWay
  <2>5. \A u \in PackThreads : u # t /\ pc'[u] # "idle" => at'[u] # at'[t]
    BY <1>0, <1>2, <1>3, <2>2 DEF OneOnItsWay
  <2>6. \A u, v \in PackThreads :
          pc'[u] # "idle" /\ pc'[v] # "idle" /\ at'[u] = at'[v] => u = v
    BY <1>0, <2>2, <2>5 DEF OneOnItsWay
  <2> QED  BY <2>1, <2>4, <2>6 DEF OneOnItsWay
<1>15. KnownWhileOpen'
  BY <1>0, <1>1, <1>2, <1>3, <1>4 DEF KnownWhileOpen
<1>16. ListedOnce'
  BY <1>0, <1>1, <1>2, <1>3, <1>4 DEF ListedOnce, Listed
<1>17. CutRight'
  BY <1>0, <1>1, <1>2, <1>3, <1>4 DEF CutRight, Pending
<1>18. InRoom'
  <2>1. \A u \in PackThreads : pc'[u] = "add" <=> pc[u] = "add" /\ u # t
    BY <1>1, <1>2
  <2>2. \A u \in PackThreads : pc'[u] = "add" => at'[u] = at[u]
    BY <1>1, <1>2
  <2>3. \A c \in Conns : Listed(c)' <=> Listed(c)
    BY <1>4 DEF Listed
  <2>4. \A u \in PackThreads : pc'[u] = "add" /\ at'[u] \in open => at'[u] \in inRoom
    BY <1>0, <2>1, <2>2 DEF InRoom
  <2>5. \A c \in open \cap inRoom :
          Listed(c) \/ \E u \in PackThreads : pc'[u] = "add" /\ at'[u] = c
    BY <1>0, <1>1, <2>1, <2>2 DEF InRoom
  <2>6. open \subseteq Conns
    BY <1>0 DEF Types
  <2> QED  BY <1>0, <1>4, <2>3, <2>4, <2>5, <2>6 DEF InRoom
<1>19. Gone'
  <2>1. \A c \in Conns : pc'[c] = pc[c] /\ (Listed(c)' <=> Listed(c))
    BY <1>1, <1>2, <1>4 DEF Listed
  <2> QED  BY <1>0, <1>4, <2>1 DEF Gone
<1> QED  BY <1>11, <1>12, <1>13, <1>14, <1>15, <1>16, <1>17, <1>18, <1>19 DEF IInv

\* PlayerAdd: the Player learns its room.
LEMMA SetRoomStep ==
  ASSUME IInv, NEW t \in Threads, PlayerAdd(t), pc[t] = "setRoom"
  PROVE  IInv'
<1>0. /\ Types /\ Where /\ AskedMatches /\ OneOnItsWay /\ KnownWhileOpen
      /\ ListedOnce /\ CutRight /\ InRoom /\ Gone
  BY DEF IInv
<1>1. t \in PackThreads /\ at[t] \in Conns /\ at[t] \in open \cup cut /\ asked[at[t]] = "LINK"
      /\ at[t] \in cut \cup players
  BY <1>0 DEF Where, Leaving, CutRight, Pending, AskedMatches, KnownWhileOpen
<1>2. /\ \A u \in Threads : u # t => pc'[u] = pc[u]
      /\ pc'[t] = "add" /\ DOMAIN pc' = Threads
  BY <1>0 DEF PlayerAdd, Goto, Types
<1>4. /\ inRoom' = inRoom \cup {at[t]}
      /\ UNCHANGED <<open, asked, QuePacket, players, allPlayers, modCount, lock, at, cursor,
                     cut, thrown>>
  BY DEF PlayerAdd, client
<1>11. Types'
  BY <1>0, <1>1, <1>2, <1>4 DEF Types
<1>12. Where'
  BY <1>0, <1>1, <1>2, <1>4 DEF Where, Handling
<1>13. AskedMatches'
  BY <1>0, <1>1, <1>2, <1>4 DEF AskedMatches
<1>14. OneOnItsWay'
  BY <1>0, <1>1, <1>2, <1>4 DEF OneOnItsWay
<1>15. KnownWhileOpen'
  BY <1>0, <1>1, <1>2, <1>4 DEF KnownWhileOpen
<1>16. ListedOnce'
  BY <1>0, <1>1, <1>2, <1>4 DEF ListedOnce, Listed
<1>17. CutRight'
  BY <1>0, <1>1, <1>2, <1>4 DEF CutRight, Pending
<1>18. InRoom'
  BY <1>0, <1>1, <1>2, <1>4 DEF InRoom, Listed
<1>19. Gone'
  BY <1>0, <1>1, <1>2, <1>4 DEF Gone, Listed
<1> QED  BY <1>11, <1>12, <1>13, <1>14, <1>15, <1>16, <1>17, <1>18, <1>19 DEF IInv

\* PlayerAdd: the list gets the Player.
LEMMA AddStep ==
  ASSUME IInv, NEW t \in Threads, PlayerAdd(t), pc[t] = "add"
  PROVE  IInv'
<1>0. /\ Types /\ Where /\ AskedMatches /\ OneOnItsWay /\ KnownWhileOpen
      /\ ListedOnce /\ CutRight /\ InRoom /\ Gone
  BY DEF IInv
<1>1. /\ t \in PackThreads /\ at[t] \in Conns /\ at[t] \in open \cup cut /\ asked[at[t]] = "LINK"
      /\ ~Listed(at[t]) /\ \A i \in DOMAIN QuePacket : QuePacket[i][2] # at[t]
      /\ at[t] \in open => at[t] \in inRoom
  BY <1>0 DEF Where, Leaving, CutRight, Pending, AskedMatches, ListedOnce, OneOnItsWay, InRoom
<1>2. /\ \A u \in Threads : u # t => pc'[u] = pc[u]
      /\ pc'[t] = "iterate" /\ DOMAIN pc' = Threads
  BY <1>0 DEF PlayerAdd, Goto, Types
<1>3. /\ allPlayers' \in Seq(Conns) /\ modCount' \in Nat
      /\ Len(allPlayers) \in Nat /\ Len(allPlayers') = Len(allPlayers) + 1
      /\ \A i \in DOMAIN allPlayers : i \in DOMAIN allPlayers' /\ allPlayers'[i] = allPlayers[i]
      /\ \A i \in DOMAIN allPlayers' :
           i \in DOMAIN allPlayers \/ (i = Len(allPlayers) + 1 /\ allPlayers'[i] = at[t])
      /\ \A c \in Conns : Listed(c)' <=> Listed(c) \/ c = at[t]
  <2>1. allPlayers' = Append(allPlayers, at[t]) /\ modCount' = modCount + 1
    BY DEF PlayerAdd
  <2>2. /\ Len(allPlayers) \in Nat /\ Len(allPlayers') = Len(allPlayers) + 1
        /\ DOMAIN allPlayers = 1 .. Len(allPlayers) /\ DOMAIN allPlayers' = 1 .. Len(allPlayers')
        /\ allPlayers' \in Seq(Conns) /\ modCount' \in Nat
        /\ \A i \in 1 .. Len(allPlayers) : allPlayers'[i] = allPlayers[i]
        /\ allPlayers'[Len(allPlayers) + 1] = at[t]
    BY <1>0, <1>1, <2>1, AppendProperties, LenProperties DEF Types
  <2>3. \A i \in DOMAIN allPlayers : i \in DOMAIN allPlayers' /\ allPlayers'[i] = allPlayers[i]
    BY <2>2
  <2>4. \A i \in DOMAIN allPlayers' :
          i \in DOMAIN allPlayers \/ (i = Len(allPlayers) + 1 /\ allPlayers'[i] = at[t])
    <3> TAKE i \in DOMAIN allPlayers'
    <3>1. i \in 1 .. Len(allPlayers) + 1 /\ Len(allPlayers) \in Nat
      BY <2>2
    <3>2. i \in 1 .. Len(allPlayers) \/ i = Len(allPlayers) + 1
      BY <3>1
    <3>3. allPlayers'[Len(allPlayers) + 1] = at[t] /\ DOMAIN allPlayers = 1 .. Len(allPlayers)
      BY <2>2
    <3> QED  BY <3>2, <3>3
  <2>5. Len(allPlayers) + 1 \in DOMAIN allPlayers'
    BY <2>2
  <2>6. \A c \in Conns : Listed(c)' <=> Listed(c) \/ c = at[t]
    BY <2>2, <2>3, <2>4, <2>5 DEF Listed
  <2> QED  BY <2>2, <2>3, <2>4, <2>6
<1>4. UNCHANGED <<open, asked, QuePacket, players, inRoom, lock, at, cursor>>
  BY DEF PlayerAdd, client
<1>5. /\ \A c \in Conns : c \in cut' <=> c \in cut \/ pc[c] = "find"
      /\ \A c \in cut' : c \in cut \/ (c \in Conns /\ pc[c] = "find")
      /\ cut \subseteq cut'
  BY DEF PlayerAdd, Looking
<1>11. Types'
  BY <1>0, <1>2, <1>3, <1>4 DEF Types
<1>12. Where'
  BY <1>0, <1>1, <1>2, <1>4 DEF Where, Handling
<1>13. AskedMatches'
  BY <1>0, <1>1, <1>2, <1>3, <1>4 DEF AskedMatches
<1>14. OneOnItsWay'
  BY <1>0, <1>1, <1>2, <1>3, <1>4 DEF OneOnItsWay
<1>15. KnownWhileOpen'
  BY <1>0, <1>1, <1>2, <1>3, <1>4 DEF KnownWhileOpen
<1>16. ListedOnce'
  <2>1. \A i, j \in DOMAIN allPlayers' : allPlayers'[i] = allPlayers'[j] => i = j
    BY <1>0, <1>1, <1>3 DEF ListedOnce, Listed
  <2>2. \A i \in DOMAIN QuePacket : ~Listed(QuePacket[i][2])'
    <3> TAKE i \in DOMAIN QuePacket
    <3>1. QuePacket[i] \in {"LOGIN", "LINK"} \X Conns
      BY <1>0, ElementOfSeq, LenProperties DEF Types
    <3> QED  BY <1>0, <1>1, <1>3, <1>4, <3>1 DEF ListedOnce
  <2>3. \A u \in PackThreads : pc'[u] \in {"LINK", "setRoom", "add"} => ~Listed(at[u])'
    <3> TAKE u \in PackThreads
    <3> HAVE pc'[u] \in {"LINK", "setRoom", "add"}
    <3>1. u # t /\ pc'[u] = pc[u] /\ at[u] \in Conns /\ at[u] # at[t]
      BY <1>0, <1>1, <1>2 DEF OneOnItsWay, Where
    <3> QED  BY <1>0, <1>3, <1>4, <3>1 DEF ListedOnce
  <2>4. \A c \in Conns : asked[c] \in {"nothing", "LOGIN", "in"} => ~Listed(c)'
    BY <1>0, <1>1, <1>3 DEF ListedOnce
  <2> QED  BY <1>4, <2>1, <2>2, <2>3, <2>4 DEF ListedOnce, Listed
<1>17. CutRight'
  <2>1. cut' \cap open = {}
    BY <1>0, <1>5 DEF CutRight, Where
  <2>2. \A c \in Conns : Pending(c)' => Pending(c)
    BY <1>1, <1>2, <1>4 DEF Pending
  <2> QED  BY <1>0, <1>4, <1>5, <2>1, <2>2 DEF CutRight
<1>18. InRoom'
  <2>1. \A u \in PackThreads : pc'[u] = "add" => pc[u] = "add"
    BY <1>1, <1>2
  <2>2. \A u \in PackThreads : pc'[u] = "add" /\ at[u] \in open => at[u] \in inRoom
    BY <1>0, <2>1 DEF InRoom
  <2>3. at[t] \in cut \cup inRoom
    BY <1>1
  <2>4. \A c \in Conns \ cut : Listed(c)' => c \in inRoom
    BY <1>0, <1>3, <2>3 DEF InRoom
  <2>5. open \subseteq Conns
    BY <1>0 DEF Types
  <2>6. \A u \in PackThreads : pc[u] = "add" => pc'[u] = "add" \/ u = t
    BY <1>1, <1>2
  <2>7. ASSUME NEW c \in open \cap inRoom
        PROVE  Listed(c)' \/ \E u \in PackThreads : pc'[u] = "add" /\ at[u] = c
    <3>1. CASE Listed(c)
      BY <1>3, <2>5, <3>1
    <3>2. CASE \E u \in PackThreads : pc[u] = "add" /\ at[u] = c
      BY <1>3, <2>5, <2>6, <3>2
    <3> QED  BY <1>0, <3>1, <3>2 DEF InRoom
  <2>8. \A c \in Conns \ cut' : (Listed(c)' => c \in inRoom) /\ (c \in inRoom => c \in players)
    BY <1>0, <1>5, <2>4 DEF InRoom
  <2> QED  BY <1>4, <2>2, <2>5, <2>7, <2>8 DEF InRoom
<1>19. Gone'
  <2> SUFFICES ASSUME NEW c \in Conns, c \notin cut'
               PROVE  /\ pc[c] # "find"
                      /\ pc[c] = "forget" => ~Listed(c)'
                      /\ c \notin open /\ pc[c] = "idle" => c \notin players /\ ~Listed(c)'
    BY <1>1, <1>2, <1>4 DEF Gone
  <2>1. c \notin cut /\ pc[c] # "find"
    BY <1>5
  <2>2. c \notin open => c # at[t]
    BY <1>1, <2>1
  <2>3. pc[c] = "forget" => c \notin open
    BY <1>0 DEF Where
  <2> QED  BY <1>0, <1>3, <2>1, <2>2, <2>3 DEF Gone
<1> QED  BY <1>11, <1>12, <1>13, <1>14, <1>15, <1>16, <1>17, <1>18, <1>19 DEF IInv

\* A connection is forgotten, with the room it may have.
LEMMA ForgetMoves ==
  ASSUME IInv, NEW c \in Conns,
         \/ pc[c] = "logout" /\ c \notin inRoom /\ lock = Nobody
         \/ pc[c] = "forget",
         Return(c), players' = players \ {c}, inRoom' = inRoom \ {c}, lock' = Nobody,
         UNCHANGED <<open, asked, QuePacket, allPlayers, modCount, cut, thrown>>
  PROVE  IInv'
<1>0. /\ Types /\ Where /\ AskedMatches /\ OneOnItsWay /\ KnownWhileOpen
      /\ ListedOnce /\ CutRight /\ InRoom /\ Gone
  BY DEF IInv
<1>1. /\ c \notin open /\ at[c] = c /\ (c \notin cut => ~Listed(c))
      /\ \A d \in Conns : d # c => pc[d] \notin {"rmPlayer", "find", "remove", "forget"}
  BY <1>0 DEF Where, InRoom, Gone
<1>2. /\ \A u \in Threads : u # c => pc'[u] = pc[u] /\ at'[u] = at[u] /\ cursor'[u] = cursor[u]
      /\ pc'[c] = "idle" /\ DOMAIN pc' = Threads /\ DOMAIN at' = Threads
      /\ cursor' \in [Threads -> Cursors]
  BY <1>0 DEF Return, Goto, Types, NoCursor, Cursors
<1>4. /\ players' = players \ {c} /\ inRoom' = inRoom \ {c} /\ lock' = Nobody
      /\ UNCHANGED <<open, asked, QuePacket, allPlayers, modCount, cut, thrown>>
  OBVIOUS
<1>11. Types'
  BY <1>0, <1>1, <1>2, <1>4 DEF Types
<1>12. Where'
  BY <1>0, <1>1, <1>2, <1>4 DEF Where, Leaving
<1>13. AskedMatches'
  BY <1>0, <1>1, <1>2, <1>4 DEF AskedMatches
<1>14. OneOnItsWay'
  BY <1>0, <1>1, <1>2, <1>4 DEF OneOnItsWay
<1>15. KnownWhileOpen'
  BY <1>0, <1>1, <1>2, <1>4 DEF KnownWhileOpen
<1>16. ListedOnce'
  BY <1>0, <1>1, <1>2, <1>4 DEF ListedOnce, Listed
<1>17. CutRight'
  BY <1>0, <1>1, <1>2, <1>4 DEF CutRight, Pending
<1>18. InRoom'
  BY <1>0, <1>1, <1>2, <1>4 DEF InRoom, Listed
<1>19. Gone'
  BY <1>0, <1>1, <1>2, <1>4 DEF Gone, Listed
<1> QED  BY <1>11, <1>12, <1>13, <1>14, <1>15, <1>16, <1>17, <1>18, <1>19 DEF IInv

\* RmPlayer removes the entry.
LEMMA RemoveStep ==
  ASSUME IInv, NEW c \in Conns, RmPlayer(c), pc[c] = "remove"
  PROVE  IInv'
<1>0. /\ Types /\ Where /\ AskedMatches /\ OneOnItsWay /\ KnownWhileOpen
      /\ ListedOnce /\ CutRight /\ InRoom /\ Gone
  BY DEF IInv
<1>1. /\ c \notin open /\ at[c] = c /\ lock = c
      /\ \A d \in Conns : d # c => pc[d] \notin {"rmPlayer", "find", "remove", "forget"}
  BY <1>0 DEF Where
<1>2. /\ \A u \in Threads : u # c => pc'[u] = pc[u]
      /\ pc'[c] = "forget" /\ DOMAIN pc' = Threads
  BY <1>0 DEF RmPlayer, Goto, Types
<1>3. /\ allPlayers' \in Seq(Conns) /\ modCount' \in Nat
      /\ \A i, j \in DOMAIN allPlayers' : allPlayers'[i] = allPlayers'[j] => i = j
      /\ \A d \in Conns : Listed(d)' <=> Listed(d) /\ d # c
  <2>1. PICK k \in DOMAIN allPlayers : /\ allPlayers[k] = c
                                       /\ allPlayers' = RemoveAt(allPlayers, k)
    BY DEF RmPlayer
  <2>2. /\ Len(allPlayers) \in Nat /\ DOMAIN allPlayers = 1 .. Len(allPlayers)
    BY <1>0, LenProperties DEF Types
  <2>3. /\ allPlayers' \in Seq(Conns) /\ Len(allPlayers') = Len(allPlayers) - 1
        /\ \A i \in 1 .. Len(allPlayers) - 1 :
             allPlayers'[i] = allPlayers[IF i < k THEN i ELSE i + 1]
    <3>1. allPlayers \in Seq(Conns) /\ k \in 1 .. Len(allPlayers)
      BY <1>0, <2>1, <2>2 DEF Types
    <3>2. /\ RemoveAt(allPlayers, k) \in Seq(Conns)
          /\ Len(RemoveAt(allPlayers, k)) = Len(allPlayers) - 1
          /\ \A i \in 1 .. Len(allPlayers) - 1 :
               RemoveAt(allPlayers, k)[i] = allPlayers[IF i < k THEN i ELSE i + 1]
      BY <3>1, RemoveAtProperties
    <3> QED  BY <2>1, <3>2
  <2>4. DOMAIN allPlayers' = 1 .. Len(allPlayers) - 1
    BY <2>3, LenProperties
  <2> DEFINE From(i) == IF i < k THEN i ELSE i + 1
  <2>5. \A i \in DOMAIN allPlayers' : /\ allPlayers'[i] = allPlayers[From(i)]
                                      /\ From(i) \in DOMAIN allPlayers /\ From(i) # k
    BY <2>1, <2>2, <2>3, <2>4
  <2>6. \A i, j \in DOMAIN allPlayers' : From(i) = From(j) => i = j
    BY <2>1, <2>2, <2>4
  <2>7. \A i \in DOMAIN allPlayers : i # k =>
          \E j \in DOMAIN allPlayers' : allPlayers'[j] = allPlayers[i]
    BY <1>0, <2>1, RemoveAtEntries DEF Types
  <2> HIDE DEF From
  <2>8. \A i, j \in DOMAIN allPlayers' : allPlayers'[i] = allPlayers'[j] => i = j
    BY <1>0, <2>5, <2>6 DEF ListedOnce
  <2>9. \A d \in Conns : Listed(d)' <=> Listed(d) /\ d # c
    BY <1>0, <2>1, <2>5, <2>7 DEF Listed, ListedOnce
  <2>10. modCount' \in Nat
    BY <1>0 DEF RmPlayer, Types
  <2> QED  BY <2>3, <2>8, <2>9, <2>10
<1>4. UNCHANGED <<open, asked, QuePacket, players, inRoom, lock, at, cursor, cut, thrown>>
  BY DEF RmPlayer, client
<1>11. Types'
  BY <1>0, <1>2, <1>3, <1>4 DEF Types
<1>12. Where'
  BY <1>0, <1>1, <1>2, <1>4 DEF Where, Leaving
<1>13. AskedMatches'
  BY <1>0, <1>1, <1>2, <1>3, <1>4 DEF AskedMatches
<1>14. OneOnItsWay'
  BY <1>0, <1>1, <1>2, <1>3, <1>4 DEF OneOnItsWay
<1>15. KnownWhileOpen'
  BY <1>0, <1>1, <1>2, <1>3, <1>4 DEF KnownWhileOpen
<1>16. ListedOnce'
  BY <1>0, <1>1, <1>2, <1>3, <1>4 DEF ListedOnce, Listed
<1>17. CutRight'
  BY <1>0, <1>1, <1>2, <1>3, <1>4 DEF CutRight, Pending
<1>18. InRoom'
  <2>1. \A u \in PackThreads : pc'[u] = pc[u] /\ at'[u] = at[u]
    BY <1>2, <1>4
  <2>2. open \subseteq Conns
    BY <1>0 DEF Types
  <2>3. \A d \in open \cap inRoom : Listed(d)' \/ \E u \in PackThreads : pc[u] = "add" /\ at[u] = d
    BY <1>0, <1>1, <1>3, <2>2 DEF InRoom
  <2> QED  BY <1>0, <1>3, <1>4, <2>1, <2>2, <2>3 DEF InRoom
<1>19. Gone'
  BY <1>0, <1>1, <1>2, <1>3, <1>4 DEF Gone, Listed
<1> QED  BY <1>11, <1>12, <1>13, <1>14, <1>15, <1>16, <1>17, <1>18, <1>19 DEF IInv

\* A connection closes.
LEMMA CloseStep ==
  ASSUME IInv, NEW c \in Conns, handlerRemoved(c)
  PROVE  IInv'
<1>0. /\ Types /\ Where /\ AskedMatches /\ OneOnItsWay /\ KnownWhileOpen
      /\ ListedOnce /\ CutRight /\ InRoom /\ Gone
  BY DEF IInv
<1>1. c \in open /\ pc[c] = "idle"
  BY <1>0 DEF handlerRemoved, Where
<1>2. /\ \A u \in Threads : u # c => pc'[u] = pc[u] /\ at'[u] = at[u]
      /\ pc'[c] = "logout" /\ at'[c] = c /\ DOMAIN pc' = Threads /\ DOMAIN at' = Threads
  BY <1>0 DEF handlerRemoved, Types
<1>4. /\ open' = open \ {c} /\ cut' = IF Pending(c) THEN cut \cup {c} ELSE cut
      /\ UNCHANGED <<asked, QuePacket, players, inRoom, allPlayers, modCount, lock, cursor,
                     thrown>>
  BY DEF handlerRemoved, server
<1>11. Types'
  BY <1>0, <1>2, <1>4 DEF Types
<1>12. Where'
  BY <1>0, <1>1, <1>2, <1>4 DEF Where, Leaving
<1>13. AskedMatches'
  BY <1>0, <1>1, <1>2, <1>4 DEF AskedMatches
<1>14. OneOnItsWay'
  BY <1>0, <1>1, <1>2, <1>4 DEF OneOnItsWay
<1>15. KnownWhileOpen'
  BY <1>0, <1>1, <1>2, <1>4 DEF KnownWhileOpen
<1>16. ListedOnce'
  BY <1>0, <1>1, <1>2, <1>4 DEF ListedOnce, Listed
<1>17. CutRight'
  BY <1>0, <1>1, <1>2, <1>4 DEF CutRight, Pending
<1>18. InRoom'
  BY <1>0, <1>1, <1>2, <1>4 DEF InRoom, Listed
<1>19. Gone'
  BY <1>0, <1>1, <1>2, <1>4 DEF Gone, Listed
<1> QED  BY <1>11, <1>12, <1>13, <1>14, <1>15, <1>16, <1>17, <1>18, <1>19 DEF IInv

\* A connection sends LOGIN, or LINK_ROOM.
LEMMA ReadStep ==
  ASSUME IInv, NEW c \in Conns, channelRead0(c)
  PROVE  IInv'
<1>0. /\ Types /\ Where /\ AskedMatches /\ OneOnItsWay /\ KnownWhileOpen
      /\ ListedOnce /\ CutRight /\ InRoom /\ Gone
  BY DEF IInv
<1>1. PICK m \in {"LOGIN", "LINK"} :
        /\ c \in open /\ asked' = [asked EXCEPT ![c] = m]
        /\ QuePacket' = Append(QuePacket, <<m, c>>)
        /\ asked[c] \in {"nothing", "in"} /\ (m = "LINK" => asked[c] = "in")
  BY DEF channelRead0
<1>2. /\ QuePacket' \in Seq({"LOGIN", "LINK"} \X Conns)
      /\ \A i \in DOMAIN QuePacket' :
           \/ i \in DOMAIN QuePacket /\ QuePacket'[i] = QuePacket[i]
           \/ i = Len(QuePacket) + 1 /\ QuePacket'[i] = <<m, c>>
      /\ asked' \in [Conns -> {"nothing", "LOGIN", "in", "LINK", "linked"}] /\ asked'[c] = m
      /\ \A d \in Conns : d # c => asked'[d] = asked[d]
  <2>1. /\ Len(QuePacket) \in Nat /\ DOMAIN QuePacket = 1 .. Len(QuePacket)
        /\ QuePacket' \in Seq({"LOGIN", "LINK"} \X Conns)
        /\ Len(QuePacket') = Len(QuePacket) + 1 /\ DOMAIN QuePacket' = 1 .. Len(QuePacket')
        /\ \A i \in 1 .. Len(QuePacket) : QuePacket'[i] = QuePacket[i]
        /\ QuePacket'[Len(QuePacket) + 1] = <<m, c>>
    BY <1>0, <1>1, AppendProperties, LenProperties DEF Types
  <2>2. ASSUME NEW i \in DOMAIN QuePacket'
        PROVE  \/ i \in DOMAIN QuePacket /\ QuePacket'[i] = QuePacket[i]
               \/ i = Len(QuePacket) + 1 /\ QuePacket'[i] = <<m, c>>
    <3>1. i \in 1 .. Len(QuePacket) + 1 /\ Len(QuePacket) \in Nat
      BY <2>1
    <3>2. i \in 1 .. Len(QuePacket) \/ i = Len(QuePacket) + 1
      BY <3>1
    <3> QED  BY <2>1, <3>2
  <2>3. /\ asked' \in [Conns -> {"nothing", "LOGIN", "in", "LINK", "linked"}] /\ asked'[c] = m
        /\ \A d \in Conns : d # c => asked'[d] = asked[d]
    BY <1>0, <1>1 DEF Types
  <2> QED  BY <2>1, <2>2, <2>3
<1>3. /\ \A i \in DOMAIN QuePacket : /\ QuePacket[i][1] \in {"LOGIN", "LINK"}
                                     /\ QuePacket[i][2] \in Conns /\ QuePacket[i][2] # c
      /\ \A t \in PackThreads : pc[t] # "idle" => at[t] # c /\ at[t] \in Conns
  <2>1. \A i \in DOMAIN QuePacket : QuePacket[i] \in {"LOGIN", "LINK"} \X Conns
    BY <1>0, ElementOfSeq, LenProperties DEF Types
  <2>2. \A i \in DOMAIN QuePacket : /\ QuePacket[i][1] \in {"LOGIN", "LINK"}
                                    /\ QuePacket[i][2] \in Conns
    BY <2>1
  <2>3. \A t \in PackThreads : pc[t] # "idle" => at[t] # c /\ at[t] \in Conns
    BY <1>0, <1>1 DEF AskedMatches, Where
  <2>4. \A i \in DOMAIN QuePacket : QuePacket[i][2] # c
    BY <1>0, <1>1, <2>2 DEF AskedMatches
  <2> QED  BY <2>2, <2>3, <2>4
<1>4. /\ c \in open
      /\ UNCHANGED <<open, players, inRoom, allPlayers, modCount, lock, pc, at, cursor, cut, thrown>>
  BY DEF channelRead0, server, thread
<1>11. Types'
  BY <1>0, <1>1, <1>2, <1>4 DEF Types
<1>12. Where'
  BY <1>0, <1>4 DEF Where
<1>13. AskedMatches'
  BY <1>0, <1>1, <1>2, <1>3, <1>4 DEF AskedMatches
<1>14. OneOnItsWay'
  BY <1>0, <1>1, <1>2, <1>3, <1>4 DEF OneOnItsWay
<1>15. KnownWhileOpen'
  BY <1>0, <1>1, <1>2, <1>3, <1>4 DEF KnownWhileOpen
<1>16. ListedOnce'
  BY <1>0, <1>1, <1>2, <1>3, <1>4 DEF ListedOnce, Listed
<1>17. CutRight'
  BY <1>0, <1>1, <1>2, <1>3, <1>4 DEF CutRight, Pending
<1>18. InRoom'
  BY <1>0, <1>1, <1>2, <1>3, <1>4 DEF InRoom, Listed
<1>19. Gone'
  BY <1>0, <1>1, <1>2, <1>3, <1>4 DEF Gone, Listed
<1> QED  BY <1>11, <1>12, <1>13, <1>14, <1>15, <1>16, <1>17, <1>18, <1>19 DEF IInv

-----------------------------------------------------------------------------
(* The invariant, and what it implies. *)

\* Nothing has been sent yet.
LEMMA Initial == Init => IInv
<1> SUFFICES ASSUME Init  PROVE  IInv
  OBVIOUS
<1>1. QuePacket = <<>> /\ allPlayers = <<>> /\ open = Conns /\ cut = {} /\ players = {} /\ inRoom = {}
  BY DEF Init
<1>2. DOMAIN QuePacket = {} /\ DOMAIN allPlayers = {} /\ modCount \in Nat
      /\ QuePacket \in Seq({"LOGIN", "LINK"} \X Conns) /\ allPlayers \in Seq(Conns)
  BY <1>1, EmptySeq DEF Init
<1>3. /\ \A t \in Threads : pc[t] = "idle" /\ DOMAIN pc = Threads /\ DOMAIN at = Threads
      /\ DOMAIN pc = Threads /\ DOMAIN at = Threads /\ cursor \in [Threads -> Cursors]
      /\ asked = [c \in Conns |-> "nothing"]
  BY DEF Init, NoCursor, Cursors
<1>4. Types
  BY <1>1, <1>2, <1>3 DEF Types
<1>5. Where /\ AskedMatches /\ OneOnItsWay /\ KnownWhileOpen
  BY <1>1, <1>2, <1>3 DEF Where, Handling, Leaving, AskedMatches, OneOnItsWay, KnownWhileOpen
<1>6. ListedOnce /\ CutRight /\ InRoom /\ Gone
  BY <1>1, <1>2, <1>3 DEF ListedOnce, CutRight, Pending, InRoom, Gone, Listed
<1> QED  BY <1>4, <1>5, <1>6 DEF IInv

\* A Logout that forgets a Player without a room, or with one it has left.
LEMMA ForgetSteps ==
  ASSUME IInv, NEW c \in Conns,
         (Logout(c) /\ players' # players) \/ (RmPlayer(c) /\ pc[c] = "forget")
  PROVE  IInv'
<1>1. CASE Logout(c) /\ players' # players
  <2>1. pc[c] = "logout" /\ c \notin inRoom /\ lock = Nobody /\ inRoom \ {c} = inRoom
    BY <1>1 DEF Logout
  <2> QED  BY <1>1, <2>1, ForgetMoves DEF Logout, client
<1>2. CASE RmPlayer(c) /\ pc[c] = "forget"
  BY <1>2, ForgetMoves DEF RmPlayer, client
<1> QED  BY <1>1, <1>2

\* Every step keeps the invariant: a PackThread runs the handlers, the event loop
\* of a connection its Logout.
LEMMA Inductive == IInv /\ [Next]_vars => IInv'
<1> SUFFICES ASSUME IInv, [Next]_vars  PROVE  IInv'
  OBVIOUS
<1>1. /\ \A t \in PackThreads : pc[t] \in Handling
      /\ \A c \in Conns : pc[c] \in Leaving
  BY DEF IInv, Where
<1>2. CASE UNCHANGED vars
  <2>1. UNCHANGED <<open, asked, QuePacket, players, inRoom, allPlayers, modCount, lock, pc, at,
                    cursor, cut, thrown>>
    BY <1>2 DEF vars, client, server, thread
  <2> QED  BY <2>1 DEF IInv, Types, Where, AskedMatches, OneOnItsWay, KnownWhileOpen, ListedOnce,
                       CutRight, Pending, InRoom, Gone, Listed
<1>3. ASSUME NEW c \in Conns, channelRead0(c) \/ handlerRemoved(c)
      PROVE  IInv'
  BY <1>3, ReadStep, CloseStep
<1>4. ASSUME NEW t \in PackThreads, Step(t)
      PROVE  IInv'
  <2>1. ~ (Logout(t) \/ Iterate(t, "rmPlayer", "find") \/ findPlayer(t) \/ RmPlayer(t))
    BY <1>1 DEF Logout, Iterate, findPlayer, RmPlayer, Handling
  <2>2. CASE PlayerAdd(t)
    BY <2>2, SetRoomStep, AddStep DEF PlayerAdd
  <2> QED  BY <1>4, <2>1, <2>2, TakeStep, LoginStep, PackSteps DEF Step
<1>5. ASSUME NEW c \in Conns, Step(c)
      PROVE  IInv'
  <2>1. ~ (Take(c) \/ Login(c) \/ GetPlayer(c) \/ PlayerAdd(c) \/ Iterate(c, "iterate", "write")
             \/ broadcast(c) \/ Linked(c))
    BY <1>1 DEF Take, Login, GetPlayer, PlayerAdd, Iterate, broadcast, Linked, Leaving
  <2>2. CASE RmPlayer(c)
    BY <2>2, RemoveStep, ForgetSteps DEF RmPlayer
  <2> QED  BY <1>5, <2>1, <2>2, LeavingSteps, ForgetSteps DEF Step
<1> QED  BY <1>2, <1>3, <1>4, <1>5 DEF Next

\* IInv holds in every state that is reached.
THEOREM Invariance == Spec => []IInv
<1> QED  BY Initial, Inductive, PTL DEF Spec

\* An open connection that was answered has its Player: its packets reach the
\* room for as long as it is open.
THEOREM AnsweredAreKnown == Spec => []KnownWhileOpen
<1>1. IInv => KnownWhileOpen
  BY DEF IInv
<1> QED  BY <1>1, Invariance, PTL

\* An open connection without a packet on its way is listed by the room just when
\* its Player knows the room, whatever the other connections do meanwhile.
THEOREM RoomAndListAgree == Spec => []RoomBothWays
<1>1. IInv => RoomBothWays
  <2> SUFFICES ASSUME IInv, NEW c \in open, ~Pending(c)  PROVE  c \in inRoom <=> Listed(c)
    BY DEF RoomBothWays
  <2>1. c \in Conns /\ c \notin cut
    BY DEF IInv, Types, CutRight
  <2>2. \A t \in PackThreads : ~ (pc[t] = "add" /\ at[t] = c)
    BY DEF Pending
  <2> QED  BY <2>1, <2>2 DEF IInv, InRoom
<1> QED  BY <1>1, Invariance, PTL

\* However many connections and threads there are: nothing is left of a connection
\* that was idle when it closed, unless an entry was added while its Logout looked
\* for its own.  Removals of others and broadcasts cannot make a Logout fail.
THEOREM LogoutLeavesNothing == Spec => []NothingLeft
<1>1. IInv => NothingLeft
  BY DEF IInv, Gone, NothingLeft
<1> QED  BY <1>1, Invariance, PTL

-----------------------------------------------------------------------------
(***************************************************************************)
(* The table of rooms: for every set of keys, every mixture of game types  *)
(* and any number of rooms.                                                *)
(*                                                                         *)
(* The argument for SweepComplete: during a sweep, a room that was due     *)
(* when it began and is still in the table is at the iterator's key or     *)
(* behind it (DueAhead).  A new room never is one of them, even under the  *)
(* key of one, and a visit takes away the one at the key.  Whether the     *)
(* iterator is stale does not matter: a stale one throws.                  *)
(***************************************************************************)
USE KeysAssumption, RoomsAssumption DEF Null

\* The rooms that the running sweep has still to remove lie ahead of it.
DueAhead ==
  /\ sweep \in {"waiting", "dead"} => due = {}
  /\ due \subseteq expired
  /\ \A k \in DOMAIN AllGame : AllGame[k] \in due => next # 0 /\ k >= next

TableInv == TypeOK /\ DueAhead

-----------------------------------------------------------------------------
(* The iterator. *)

\* A set of keys that is not empty has a least one.
LEMMA LeastKey ==
  ASSUME NEW T \in SUBSET Nat, T # {}
  PROVE  \E j \in T : \A i \in T : j <= i
<1> DEFINE R == {p \in Nat \X Nat : p[1] < p[2]}
<1>1. IsWellFoundedOn(R, Nat)
  BY NatLessThanWellFounded DEF OpToRel
<1>2. \E x \in T : \A y \in T : <<y, x>> \notin R
  <2> HIDE DEF R
  <2> QED  BY <1>1, WFMin
<1>3. PICK x \in T : \A y \in T : <<y, x>> \notin R
  BY <1>2
<1>4. ASSUME NEW y \in T  PROVE x <= y
  <2>1. <<y, x>> \notin R /\ y \in Nat /\ x \in Nat
    BY <1>3
  <2>2. ~(y < x)
    BY <2>1
  <2> QED  BY <2>1, <2>2
<1> QED  BY <1>4

\* The iterator moves to the least of the later keys, and stops only after the last.
LEMMA AfterNext ==
  ASSUME TypeOK, NEW k \in Nat
  PROVE  /\ After(k) \in {0} \cup DOMAIN AllGame
         /\ After(k) # 0 => After(k) > k
         /\ \A j \in DOMAIN AllGame : j > k => After(k) # 0 /\ After(k) <= j
<1> DEFINE later == {j \in DOMAIN AllGame : j > k}
<1>1. DOMAIN AllGame \subseteq Nat \ {0} /\ later \in SUBSET Nat
  BY DEF TypeOK
<1>2. CASE later = {}
  BY <1>1, <1>2 DEF After
<1>3. CASE later # {}
  <2>1. \E j \in later : \A i \in later : j <= i
    <3> HIDE DEF later
    <3> QED  BY <1>1, <1>3, LeastKey
  <2>2. After(k) = CHOOSE j \in later : \A i \in later : j <= i
    BY <1>3 DEF After
  <2>3. After(k) \in later /\ \A i \in later : After(k) <= i
    <3> HIDE DEF later
    <3> QED  BY <2>1, <2>2
  <2> QED  BY <1>1, <2>3
<1> QED  BY <1>2, <1>3

-----------------------------------------------------------------------------
(* The actions. *)

\* A new room is under its key, and is not one that the sweep looks for.
LEMMA CreateStep ==
  ASSUME TableInv, NEW key \in Keys, NEW gameType \in gameTypes,
         CreateNewGameRoom(key, gameType)
  PROVE  TableInv' /\ DOMAIN AllGame \subseteq DOMAIN AllGame'
<1> DEFINE new == IF gameType \in {1, 2} THEN rooms' ELSE Null
<1>1. /\ rooms' = rooms + 1 /\ rooms < MaxRooms
      /\ AllGame' = [k \in DOMAIN AllGame \cup {key} |-> IF k # key THEN AllGame[k] ELSE new]
      /\ stale' \in BOOLEAN /\ UNCHANGED <<expired, sweep, next, due>>
  BY DEF CreateNewGameRoom, TableInv, TypeOK
<1>2. /\ DOMAIN AllGame' = DOMAIN AllGame \cup {key}
      /\ AllGame'[key] = new
      /\ \A k \in DOMAIN AllGame : k # key => AllGame'[k] = AllGame[k]
  BY <1>1
<1>3. rooms \in Nat /\ new \in 0 .. rooms' /\ new \notin due
  BY <1>1 DEF TableInv, TypeOK
<1> HIDE DEF new
<1>4. ASSUME NEW k \in DOMAIN AllGame'
      PROVE  AllGame'[k] = new \/ (k \in DOMAIN AllGame /\ AllGame'[k] = AllGame[k])
  BY <1>2
<1>5. TypeOK'
  <2>1. rooms' \in 0 .. MaxRooms /\ 0 .. rooms \subseteq 0 .. rooms' /\ 1 .. rooms \subseteq 1 .. rooms'
    BY <1>1, <1>3
  <2>2. \A k \in DOMAIN AllGame' : AllGame'[k] \in 0 .. rooms'
    BY <1>3, <1>4, <2>1 DEF TableInv, TypeOK
  <2> QED  BY <1>1, <1>2, <2>1, <2>2 DEF TableInv, TypeOK
<1>6. DueAhead'
  <2>1. \A k \in DOMAIN AllGame' : AllGame'[k] \in due => next # 0 /\ k >= next
    BY <1>3, <1>4 DEF TableInv, DueAhead
  <2> QED  BY <1>1, <2>1 DEF TableInv, DueAhead
<1> QED  BY <1>2, <1>5, <1>6 DEF TableInv

\* A sweep that begins has all its rooms ahead of it.
LEMMA BeginStep == ASSUME TableInv, Begin  PROVE TableInv'
<1>1. /\ sweep' = "made" /\ next' = After(0) /\ stale' = FALSE
      /\ due' = InTable \cap expired /\ UNCHANGED <<AllGame, rooms, expired>>
  BY DEF Begin, table
<1>2. /\ After(0) \in {0} \cup DOMAIN AllGame
      /\ \A j \in DOMAIN AllGame : After(0) # 0 /\ j >= After(0)
  <2>1. \A j \in DOMAIN AllGame : j \in Nat /\ j > 0
    <3>1. DOMAIN AllGame \subseteq Nat \ {0}
      BY DEF TableInv, TypeOK
    <3> QED  BY <3>1
  <2> QED  BY <2>1, AfterNext DEF TableInv
<1> QED  BY <1>1, <1>2 DEF TableInv, TypeOK, DueAhead

\* A visit takes away the room at the key when it is due, and moves on.
LEMMA VisitStep ==
  ASSUME TableInv, Visit
  PROVE  /\ TableInv'
         /\ \A k \in DOMAIN AllGame : k \notin DOMAIN AllGame' => AllGame[k] \in expired
<1>1. /\ next # 0 /\ next' = After(next) /\ UNCHANGED <<rooms, expired, sweep, due>>
      /\ sweep = "locked" /\ next \in DOMAIN AllGame /\ next \in Nat
  BY DEF Visit, TableInv, TypeOK
<1> DEFINE old == isExpired(AllGame[next])
           gone == IF old THEN {next} ELSE {}
<1>2. AllGame' = [k \in DOMAIN AllGame \ gone |-> AllGame[k]] /\ stale' = old
  BY DEF Visit
<1>3. gone \subseteq {next} /\ (AllGame[next] \in expired => gone = {next})
      /\ (next \in gone => AllGame[next] \in expired) /\ old \in BOOLEAN
  BY DEF isExpired
<1> HIDE DEF gone, old
<1>4. /\ After(next) \in {0} \cup DOMAIN AllGame
      /\ After(next) # 0 => After(next) > next
      /\ \A j \in DOMAIN AllGame : j > next => After(next) # 0 /\ After(next) <= j
  BY <1>1, AfterNext DEF TableInv
<1>5. TypeOK'
  <2>1. After(next) # next
    BY <1>1, <1>4
  <2>2. next' \in {0} \cup DOMAIN AllGame'
    BY <1>1, <1>2, <1>3, <1>4, <2>1
  <2> QED  BY <1>1, <1>2, <1>3, <2>2 DEF TableInv, TypeOK
<1>6. ASSUME NEW k \in DOMAIN AllGame', AllGame'[k] \in due
      PROVE  next' # 0 /\ k >= next'
  <2>1. k \in DOMAIN AllGame /\ k \notin gone /\ AllGame[k] \in due
    BY <1>2, <1>6
  <2>2. k >= next /\ AllGame[k] \in expired
    BY <2>1 DEF TableInv, DueAhead
  <2>3. k # next
    BY <1>3, <2>1, <2>2
  <2>0. DOMAIN AllGame \subseteq Nat \ {0}
    BY DEF TableInv, TypeOK
  <2>4. k \in Nat /\ k > next
    BY <1>1, <2>0, <2>1, <2>2, <2>3
  <2>5. After(next) # 0 /\ After(next) <= k
    BY <1>4, <2>1, <2>4
  <2>6. After(next) \in Nat
    BY <1>4, <2>0
  <2> QED  BY <1>1, <2>4, <2>5, <2>6
<1>7. DueAhead'
  BY <1>1, <1>6 DEF TableInv, DueAhead
<1> QED  BY <1>2, <1>3, <1>5, <1>7 DEF TableInv

\* No other action touches the table.
LEMMA OtherSteps ==
  ASSUME TableInv, \/ \E room \in 1 .. MaxRooms : Expire(room)
                   \/ Lock \/ Throw \/ Finish \/ UNCHANGED tableVars
  PROVE  TableInv' /\ AllGame' = AllGame
<1>1. CASE \E room \in 1 .. MaxRooms : Expire(room)
  <2>1. PICK room \in 1 .. MaxRooms : Expire(room)
    BY <1>1
  <2>2. /\ expired' = expired \cup {room} /\ room \in 1 .. rooms
        /\ UNCHANGED <<AllGame, rooms, sweep, next, stale, due>>
    BY <2>1 DEF Expire, table
  <2> QED  BY <2>2 DEF TableInv, TypeOK, DueAhead
<1>2. CASE Lock
  BY <1>2 DEF Lock, table, TableInv, TypeOK, DueAhead
<1>3. CASE Throw
  BY <1>3 DEF Throw, table, TableInv, TypeOK, DueAhead
<1>4. CASE Finish
  BY <1>4 DEF Finish, table, TableInv, TypeOK, DueAhead
<1>5. CASE UNCHANGED tableVars
  BY <1>5 DEF tableVars, table, TableInv, TypeOK, DueAhead
<1> QED  BY <1>1, <1>2, <1>3, <1>4, <1>5

-----------------------------------------------------------------------------
(* The theorems. *)

\* The types of the table, and that the rooms a sweep has to remove lie ahead of it.
LEMMA TableInvariance == TableSpec => []TableInv
<1>1. TableInit => TableInv
  <2> SUFFICES ASSUME TableInit  PROVE TableInv
    OBVIOUS
  <2>1. DOMAIN AllGame = {}
    BY DEF TableInit
  <2>2. /\ rooms = 0 /\ expired = {} /\ sweep = "waiting" /\ next = 0
        /\ stale = FALSE /\ due = {}
    BY DEF TableInit
  <2>3. TypeOK
    <3>1. rooms \in 0 .. MaxRooms
      BY <2>2
    <3>2. /\ DOMAIN AllGame \subseteq Keys
          /\ \A k \in DOMAIN AllGame : AllGame[k] \in 0 .. rooms
      BY <2>1, Zenon
    <3>3. expired \subseteq 1 .. rooms /\ due \subseteq 1 .. rooms
      BY <2>2
    <3> QED  BY <2>2, <3>1, <3>2, <3>3 DEF TypeOK
  <2>4. DueAhead
    BY <2>1, <2>2 DEF DueAhead
  <2> QED  BY <2>3, <2>4 DEF TableInv
<1>2. TableInv /\ [TableNext]_tableVars => TableInv'
  BY CreateStep, BeginStep, VisitStep, OtherSteps DEF TableNext, checkRoom
<1> QED  BY <1>1, <1>2, PTL DEF TableSpec

\* The iterator never is at a key that left the table under it.
THEOREM TableTypeCorrect == TableSpec => []TypeOK
BY TableInvariance, PTL DEF TableInv

\* Whatever is created while it runs, the sweep takes away no room before its time.
THEOREM OnlyTheExpiredLeave == TableSpec => OnlyExpiredLeave
<1> DEFINE Leaves == \A k \in DOMAIN AllGame : k \notin DOMAIN AllGame' => AllGame[k] \in expired
<1>1. TableInv /\ [TableNext]_tableVars => [Leaves]_tableVars
  <2> SUFFICES ASSUME TableInv, TableNext  PROVE Leaves
    OBVIOUS
  <2>1. CASE \E key \in Keys, gameType \in gameTypes : CreateNewGameRoom(key, gameType)
    BY <2>1, CreateStep
  <2>2. CASE Visit
    BY <2>2, VisitStep
  <2>3. CASE Begin
    BY <2>3 DEF Begin, table
  <2>4. CASE Lock \/ Throw \/ Finish \/ \E room \in 1 .. MaxRooms : Expire(room)
    BY <2>4, OtherSteps
  <2> QED  BY <2>1, <2>2, <2>3, <2>4 DEF TableNext, checkRoom
<1> QED  BY <1>1, TableInvariance, PTL DEF TableSpec, OnlyExpiredLeave

\* A sweep that comes to its end left none of the rooms it was to remove.
THEOREM SweepsAreComplete == TableSpec => SweepComplete
<1> DEFINE Complete == sweep = "locked" /\ sweep' = "waiting" => InTable' \cap due = {}
<1>1. TableInv /\ [TableNext]_tableVars => [Complete]_tableVars
  <2> SUFFICES ASSUME TableInv, TableNext, sweep = "locked", sweep' = "waiting"
               PROVE  InTable' \cap due = {}
    OBVIOUS
  <2>1. Finish
    BY DEF TableNext, CreateNewGameRoom, Expire, checkRoom,
           Begin, Lock, Visit, Throw
  <2>2. next = 0 /\ AllGame' = AllGame
    BY <2>1 DEF Finish, table
  <2>3. \A k \in DOMAIN AllGame : AllGame[k] \notin due
    BY <2>2 DEF TableInv, DueAhead
  <2> QED  BY <2>2, <2>3 DEF InTable
<1> QED  BY <1>1, TableInvariance, PTL DEF TableSpec, SweepComplete
=============================================================================
