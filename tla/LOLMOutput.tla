----------------------------- MODULE LOLMOutput -----------------------------
(***************************************************************************)
(* The page of the result (LOLM_BPSystem/.../UI/View/UI_Output.ts), which  *)
(* LOLMPage leaves for when the draft is over.  It is a page of its own    *)
(* with a connection of its own: it links itself to the room once more, as *)
(* one that looks on, and draws the text that every link brings.           *)
(***************************************************************************)
EXTENDS LOLMPage

VARIABLES
  outLinked,     \* this page in the room: "no" as long as the draft page is there,
                 \* "open", "listed", "answered" or "refused"
  outConnected,  \* _isConnent of its Network
  outSocket,     \* the packets on their way to it
  outInit,       \* isInit: the icons of the bans have been made
  outWaiters,    \* how many SYNC texts wait for it
  outIcon        \* outIcon[i]: the num of the BanPickIcon of slot i

output  == <<outLinked, outConnected, outSocket, outInit, outWaiters, outIcon>>
outVars == <<vars, output>>

OutInit == /\ Init
           /\ outLinked = "no" /\ outConnected = TRUE /\ outSocket = <<>>
           /\ outInit = FALSE /\ outWaiters = 0
           /\ outIcon = [i \in Slots |-> Empty]

\* The draft page has seen the end.
Ended == gone /\ linked = "answered"

\* The page of the result is opened in the place of the draft page, whose state
\* and connection are gone with it.
Open ==
  /\ Ended /\ outLinked = "no" /\ outLinked' = "open"
  /\ isInit' = FALSE /\ SyncData' = NoSync /\ NowChoose' = -1
  /\ icon' = [i \in Slots |-> Empty] /\ hidden' = {} /\ active' = Hero
  /\ pic' = Empty /\ loads' = <<>> /\ marked' = FALSE /\ waiters' = <<>>
  /\ connected' = FALSE /\ socket' = <<>> /\ sent' = {}
  /\ UNCHANGED <<draft, linked, watched, gone, passed, overtook>>
  /\ UNCHANGED <<outConnected, outSocket, outInit, outWaiters, outIcon>>

\* LINK_ROOM of team -1, sent at once: the text, then the answer; or the room
\* has left the table.
OutLink ==
  /\ outConnected
  /\ \/ outLinked = "open" /\ outLinked' = "listed" /\ outSocket' = <<"SYNC">>
     \/ outLinked = "open" /\ outLinked' = "refused" /\ outSocket' = <<"NO_ROOM">>
     \/ outLinked = "listed" /\ outLinked' = "answered" /\ outSocket' = Append(outSocket, "LINK_ROOM")
  /\ UNCHANGED <<vars, outConnected, outInit, outWaiters, outIcon>>

\* Somebody else is linked to the room of a draft that is over.
OutPlayerAdd ==
  /\ outConnected /\ outLinked \in {"listed", "answered"}
  /\ Len(outSocket) + outWaiters < MaxTexts
  /\ outSocket' = Append(outSocket, "SYNC")
  /\ UNCHANGED <<vars, outLinked, outConnected, outInit, outWaiters, outIcon>>

\* Mutant: the last slot is not drawn.
OutDrawShort(text) == [i \in Slots |-> IF i < Cardinality(Slots) - 1 THEN text[i] ELSE Empty]
\* All bans, and the picks that are there.
OutDraw(text) == [i \in Slots |-> IF text[i] # Empty THEN text[i] ELSE outIcon[i]]

\* isInit is set, with two icons for each ban; or the page leaves for page 0.
OutGetLink(resCode) == /\ outInit' = (outInit \/ resCode = 0)
                       /\ UNCHANGED <<outWaiters, outIcon>>

OutSync == IF outInit THEN outIcon' = OutDraw(slot) /\ UNCHANGED <<outInit, outWaiters>>
           ELSE outWaiters' = outWaiters + 1 /\ UNCHANGED <<outInit, outIcon>>

OutMessage ==
  /\ outSocket # <<>> /\ outSocket' = Tail(outSocket)
  /\ \/ Head(outSocket) = "LINK_ROOM" /\ OutGetLink(0)
     \/ Head(outSocket) = "NO_ROOM" /\ OutGetLink(1)
     \/ Head(outSocket) = "SYNC" /\ OutSync
  /\ UNCHANGED <<vars, outLinked, outConnected>>

\* The 100 ms of a text that waits are over.
OutWait == /\ outInit /\ outWaiters > 0 /\ outWaiters' = outWaiters - 1
           /\ outIcon' = OutDraw(slot)
           /\ UNCHANGED <<vars, outLinked, outConnected, outSocket, outInit>>

OutClose == /\ outLinked # "no" /\ outConnected /\ outConnected' = FALSE /\ outSocket' = <<>>
            /\ UNCHANGED <<vars, outLinked, outInit, outWaiters, outIcon>>

OutNext == \/ outLinked = "no" /\ Next /\ UNCHANGED output
           \/ Open \/ OutLink \/ OutPlayerAdd \/ OutMessage \/ OutWait \/ OutClose

\* As in LOLMPage: the server answers, the network delivers, a timeout expires;
\* and a page that was left makes place for the next one.
OutSpec == /\ OutInit /\ [][OutNext]_outVars
           /\ WF_vars(LinkRoom) /\ WF_vars(onmessage) /\ WF_vars(Wait)
           /\ WF_outVars(Open) /\ WF_outVars(OutLink) /\ WF_outVars(OutMessage) /\ WF_outVars(OutWait)

-----------------------------------------------------------------------------
\* A page that has seen the draft end goes on to show all of it, each slot with
\* its hero, unless the room has left the table or the connection is lost.
ResultShown == Ended ~> outIcon = slot \/ outLinked = "refused" \/ ~outConnected
=============================================================================
