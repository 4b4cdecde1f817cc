---------------------------- MODULE HPPageProofs ----------------------------
(***************************************************************************)
(* Theorems about HPPage, for any set of groups, places and cards, any     *)
(* threads and any number of packets.                                      *)
(*                                                                         *)
(* The argument for GroupsTrue: as long as the answers are written in the  *)
(* order in which the threads have run the packets (not overtaken), a      *)
(* place of a group is right on the page once everything on its way has    *)
(* been read (GroupsCome): the last answer that changes the place has the  *)
(* server's value, or none changes it and the page has that value, or a    *)
(* request for all the groups has yet to be run (Asked).  For              *)
(* BansAgainstTheOther: the groups stay as they are once the bans have     *)
(* begun, so every text of the bans has those groups (TextRight).          *)
(***************************************************************************)
EXTENDS HPPage, SequenceTheorems, TLAPS

Cards    == [Groups -> [Places -> Int]]
Texts    == [Status : {"WAIT", "COMPOSE", "BAN", "END"}, NowCtrl : Int,
             HideCompose : {<<>>} \cup [Teams -> Cards]]
Changes  == [pt : {"COMPOSE"}, choose : Card, group : Groups, no : Places]
Requests == Changes \cup [pt : {"GET_COMPOST"}]
Replies  == Changes \cup [pt : {"GET_COMPOST"}, pick : Cards]
Packets  == [pt : {"SYNC"}, data : Texts] \cup [pt : {"LINK_ROOM"}, data : {0}] \cup Replies
Jobs     == {Idle} \cup Requests \cup [pt : {"answer"}, data : Replies]

Types ==
  /\ status \in {"WAIT", "COMPOSE", "BAN", "END"} /\ nowCtrl \in Int
  /\ composeData \in [Teams -> Cards]
  /\ linked \in {"no", "listed", "answered"}
  /\ socket \in Seq(Packets) /\ sent \in Seq(Requests) /\ waiters \in Seq(Texts)
  /\ job \in [PackThreads -> Jobs]
  /\ isInit \in BOOLEAN /\ late \in BOOLEAN /\ overtaken \in BOOLEAN
  /\ SyncData \in [Status : {"NONE", "WAIT", "COMPOSE", "BAN"}, NowCtrl : Int]
  /\ ComposeGroup \in Cards /\ nowGroup \in Groups /\ NowChooseCard \in Places

\* The turn is whose, and in the bans only.
RoomRight == /\ status \in {"WAIT", "COMPOSE"} => nowCtrl = NoTurn
             /\ status = "BAN" => nowCtrl \in Teams

\* The answer to LINK_ROOM comes once, and nothing is drawn before it.
IsLink(k) == socket[k].pt = "LINK_ROOM"
LinkRight == /\ \A k \in DOMAIN socket : IsLink(k) => linked = "answered" /\ ~isInit
             /\ \A j, k \in DOMAIN socket : IsLink(j) /\ IsLink(k) => j = k
             /\ isInit => linked = "answered"
             /\ ~isInit => SyncData = NoSync

\* A text of the bans has the groups as they stay.
Settled == status \in {"BAN", "END"}
TextFits(d, settled, groups) ==
  d.Status = "BAN" => settled /\ d.NowCtrl \in Teams /\ d.HideCompose = groups
TextRight(d) == TextFits(d, Settled, HideCompose)
TextsRight == /\ \A k \in DOMAIN socket : socket[k].pt = "SYNC" => TextRight(socket[k].data)
              /\ \A k \in DOMAIN waiters : TextRight(waiters[k])

\* The page draws the bans only once they have begun.
BansRight == SyncData.Status = "BAN" => Settled /\ SyncData.NowCtrl \in Teams

\* The threads that have an answer to write.
RanRight ==
  ~overtaken => /\ ran \in Seq(PackThreads)
                /\ \A i \in DOMAIN ran : job[ran[i]].pt = "answer"
                /\ \A i, j \in DOMAIN ran : ran[i] = ran[j] => i = j

\* What they will write, in the order of the groups that it tells of.
Answers == [i \in DOMAIN ran |-> job[ran[i]].data]

\* A packet that changes place p of group g on the page, and to what.
Touches(q, g, p) == q.pt = "GET_COMPOST" \/ (q.pt = "COMPOSE" /\ q.group = g /\ q.no = p)
Value(q, g, p)   == IF q.pt = "GET_COMPOST" THEN q.pick[g][p] ELSE q.choose

\* The last packet of channel c to change the place sets it to v; there is none.
Sets(c, g, p, v) == \E k \in DOMAIN c : /\ Touches(c[k], g, p) /\ Value(c[k], g, p) = v
                                        /\ \A j \in DOMAIN c : Touches(c[j], g, p) => j <= k
Leaves(c, g, p)  == \A k \in DOMAIN c : ~Touches(c[k], g, p)

\* When all the answers are there the place has v.
Comes(g, p, v) ==
  \/ Sets(Answers, g, p, v)
  \/ Leaves(Answers, g, p) /\ Sets(socket, g, p, v)
  \/ Leaves(Answers, g, p) /\ Leaves(socket, g, p) /\ ComposeGroup[g][p] = v

\* The page has asked for all the groups, and they have not been read.
Asked == \/ \E k \in DOMAIN sent : sent[k].pt = "GET_COMPOST"
         \/ \E t \in PackThreads : job[t].pt = "GET_COMPOST"

\* While composing, every place will show the room's card, or will be asked for.
GroupsCome ==
  SyncData.Status = "COMPOSE" /\ ~overtaken =>
    Asked \/ \A g \in Groups, p \in Places : Comes(g, p, composeData[myTeam][g][p])

IInv == /\ Types /\ RoomRight /\ LinkRight /\ TextsRight /\ BansRight
        /\ BansAgainstTheOther /\ RanRight /\ GroupsCome

USE CountAssumption, PlacesAssumption, CardAssumption, TeamAssumption, OtherAssumption
    DEF Teams, NoTurn

-----------------------------------------------------------------------------
(* Channels. *)

\* Channel d is c with packet x at its end; c is d with x before it.
Longer(c, x, d)  == \E n \in Nat : /\ DOMAIN c = 1 .. n /\ DOMAIN d = 1 .. n + 1
                                   /\ d[n + 1] = x /\ \A i \in 1 .. n : d[i] = c[i]
Shorter(c, x, d) == \E n \in Nat : /\ DOMAIN c = 1 .. n + 1 /\ DOMAIN d = 1 .. n
                                   /\ c[1] = x /\ \A i \in 1 .. n : d[i] = c[i + 1]

\* What Append and Tail do.
LEMMA AppendIsLonger ==
  ASSUME NEW S, NEW c \in Seq(S), NEW x \in S
  PROVE  /\ Append(c, x) \in Seq(S) /\ Longer(c, x, Append(c, x))
         /\ \A i \in DOMAIN Append(c, x) : Append(c, x)[i] = x \/ \E j \in DOMAIN c : Append(c, x)[i] = c[j]
<1>1. Len(c) \in Nat /\ DOMAIN c = 1 .. Len(c)
  BY LenProperties
<1>2. /\ Append(c, x) \in Seq(S) /\ Len(Append(c, x)) = Len(c) + 1
      /\ \A i \in 1 .. Len(c) : Append(c, x)[i] = c[i]
      /\ Append(c, x)[Len(c) + 1] = x
  BY AppendProperties
<1>3. DOMAIN Append(c, x) = 1 .. Len(c) + 1
  BY <1>2, LenProperties
<1>4. Longer(c, x, Append(c, x))
  BY <1>1, <1>2, <1>3 DEF Longer
<1>5. \A i \in DOMAIN Append(c, x) : Append(c, x)[i] = x \/ \E j \in DOMAIN c : Append(c, x)[i] = c[j]
  BY <1>1, <1>2, <1>3
<1> QED  BY <1>2, <1>4, <1>5

\* What Tail leaves, and Head takes.
LEMMA TailIsShorter ==
  ASSUME NEW S, NEW c \in Seq(S), c # <<>>
  PROVE  /\ Tail(c) \in Seq(S) /\ Shorter(c, Head(c), Tail(c))
         /\ 1 \in DOMAIN c /\ Head(c) = c[1] /\ Head(c) \in S
         /\ \A i \in DOMAIN Tail(c) : i + 1 \in DOMAIN c /\ Tail(c)[i] = c[i + 1] /\ i + 1 # 1
<1>1. Len(c) \in Nat \ {0} /\ DOMAIN c = 1 .. Len(c) /\ Head(c) = c[1]
  BY LenProperties, EmptySeq
<1>2. /\ Tail(c) \in Seq(S) /\ Len(Tail(c)) = Len(c) - 1
      /\ \A i \in 1 .. Len(c) - 1 : Tail(c)[i] = c[i + 1]
  BY <1>1, HeadTailProperties
<1>3. DOMAIN Tail(c) = 1 .. Len(c) - 1
  BY <1>2, LenProperties
<1>4. Shorter(c, Head(c), Tail(c))
  <2>1. Len(c) - 1 \in Nat /\ (Len(c) - 1) + 1 = Len(c)
    BY <1>1
  <2> QED  BY <1>1, <1>2, <1>3, <2>1 DEF Shorter
<1>5. Head(c) \in S /\ 1 \in DOMAIN c
  BY <1>1, ElementOfSeq
<1>6. \A i \in DOMAIN Tail(c) : i + 1 \in DOMAIN c /\ Tail(c)[i] = c[i + 1] /\ i + 1 # 1
  BY <1>1, <1>2, <1>3
<1> QED  BY <1>1, <1>2, <1>4, <1>5, <1>6

\* Without entry k: the entries before it stay, those after it move down by one.
LEMMA RemoveAtProperties ==
  ASSUME NEW S, NEW s \in Seq(S), NEW k \in 1 .. Len(s)
  PROVE  /\ RemoveAt(s, k) \in Seq(S)
         /\ Len(RemoveAt(s, k)) = Len(s) - 1
         /\ \A i \in 1 .. Len(s) - 1 : RemoveAt(s, k)[i] = s[IF i < k THEN i ELSE i + 1]
<1> DEFINE a == SubSeq(s, 1, k - 1)
           b == SubSeq(s, k + 1, Len(s))
<1>1. Len(s) \in Nat /\ k \in 1 .. Len(s) /\ \A i \in 1 .. Len(s) : s[i] \in S
  BY ElementOfSeq, LenProperties
<1>2. a \in Seq(S) /\ Len(a) = k - 1 /\ \A i \in 1 .. k - 1 : a[i] = s[i]
  BY <1>1
<1>3. b \in Seq(S) /\ Len(b) = Len(s) - k /\ \A i \in 1 .. Len(s) - k : b[i] = s[k + i]
  BY <1>1
<1>4. RemoveAt(s, k) = a \o b
  BY DEF RemoveAt
<1> HIDE DEF a, b
<1>5. /\ a \o b \in Seq(S) /\ Len(a \o b) = Len(a) + Len(b)
      /\ \A i \in 1 .. Len(a) + Len(b) :
           (a \o b)[i] = IF i <= Len(a) THEN a[i] ELSE b[i - Len(a)]
  BY ONLY <1>2, <1>3, ConcatProperties
<1>6. \A i \in 1 .. Len(s) - 1 : (a \o b)[i] = IF i < k THEN a[i] ELSE b[i - (k - 1)]
  BY ONLY <1>1, <1>2, <1>3, <1>5
<1>7. ASSUME NEW i \in 1 .. Len(s) - 1
      PROVE  (a \o b)[i] = s[IF i < k THEN i ELSE i + 1]
  <2>1. CASE i < k
    BY ONLY <1>1, <1>2, <1>6, <2>1
  <2>2. CASE ~(i < k)
    <3>1. i - (k - 1) \in 1 .. Len(s) - k /\ k + (i - (k - 1)) = i + 1
      BY ONLY <1>1, <2>2
    <3> QED  BY ONLY <1>3, <1>6, <2>2, <3>1
  <2> QED  BY <2>1, <2>2
<1> QED  BY <1>1, <1>2, <1>3, <1>4, <1>5, <1>7

\* A packet at the end that changes the place has the last word about it.
LEMMA LongerSets ==
  ASSUME NEW c, NEW x, NEW d, Longer(c, x, d), NEW g, NEW p
  PROVE  /\ Touches(x, g, p) => Sets(d, g, p, Value(x, g, p))
         /\ ~Touches(x, g, p) => /\ \A v : Sets(c, g, p, v) => Sets(d, g, p, v)
                                 /\ Leaves(c, g, p) => Leaves(d, g, p)
<1>1. PICK n \in Nat : /\ DOMAIN c = 1 .. n /\ DOMAIN d = 1 .. n + 1
                       /\ d[n + 1] = x /\ \A i \in 1 .. n : d[i] = c[i]
  BY DEF Longer
<1>2. Touches(x, g, p) => Sets(d, g, p, Value(x, g, p))
  BY <1>1 DEF Sets
<1>3. ASSUME ~Touches(x, g, p), NEW v, Sets(c, g, p, v)  PROVE Sets(d, g, p, v)
  <2>1. PICK k \in DOMAIN c : /\ Touches(c[k], g, p) /\ Value(c[k], g, p) = v
                              /\ \A j \in DOMAIN c : Touches(c[j], g, p) => j <= k
    BY <1>3 DEF Sets
  <2>2. k \in DOMAIN d /\ d[k] = c[k]
    BY <1>1, <2>1
  <2>3. ASSUME NEW j \in DOMAIN d, Touches(d[j], g, p)  PROVE j <= k
    <3>1. j # n + 1
      BY <1>1, <1>3, <2>3
    <3>2. j \in DOMAIN c /\ d[j] = c[j]
      BY <1>1, <2>3, <3>1
    <3> QED  BY <2>1, <2>3, <3>2
  <2> QED  BY <2>1, <2>2, <2>3 DEF Sets
<1>4. ASSUME ~Touches(x, g, p), Leaves(c, g, p), NEW j \in DOMAIN d  PROVE ~Touches(d[j], g, p)
  <2>1. CASE j = n + 1
    BY <1>1, <1>4, <2>1
  <2>2. CASE j # n + 1
    <3>1. j \in DOMAIN c /\ d[j] = c[j]
      BY <1>1, <1>4, <2>2
    <3> QED  BY <1>4, <3>1 DEF Leaves
  <2> QED  BY <2>1, <2>2
<1> QED  BY <1>2, <1>3, <1>4 DEF Leaves

\* Without the first packet: what it says counts only if none after it says more.
LEMMA ShorterSets ==
  ASSUME NEW c, NEW x, NEW d, Shorter(c, x, d), NEW g, NEW p
  PROVE  /\ \A v : Sets(c, g, p, v) =>
              \/ Sets(d, g, p, v)
              \/ Leaves(d, g, p) /\ Touches(x, g, p) /\ Value(x, g, p) = v
         /\ Leaves(c, g, p) => Leaves(d, g, p) /\ ~Touches(x, g, p)
<1>1. PICK n \in Nat : /\ DOMAIN c = 1 .. n + 1 /\ DOMAIN d = 1 .. n
                       /\ c[1] = x /\ \A i \in 1 .. n : d[i] = c[i + 1]
  BY DEF Shorter
<1>2. \A i \in DOMAIN d : i + 1 \in DOMAIN c /\ d[i] = c[i + 1]
  BY <1>1
<1>3. ASSUME NEW v, Sets(c, g, p, v)
      PROVE  Sets(d, g, p, v) \/ (Leaves(d, g, p) /\ Touches(x, g, p) /\ Value(x, g, p) = v)
  <2>1. PICK k \in DOMAIN c : /\ Touches(c[k], g, p) /\ Value(c[k], g, p) = v
                              /\ \A j \in DOMAIN c : Touches(c[j], g, p) => j <= k
    BY <1>3 DEF Sets
  <2>2. CASE k = 1
    <3>1. ASSUME NEW j \in DOMAIN d  PROVE ~Touches(d[j], g, p)
      <4>1. j + 1 \in DOMAIN c /\ d[j] = c[j + 1] /\ ~(j + 1 <= k)
        BY <1>1, <2>2, <3>1
      <4> QED  BY <2>1, <4>1
    <3> QED  BY <1>1, <2>1, <2>2, <3>1 DEF Leaves
  <2>3. CASE k # 1
    <3>1. k - 1 \in DOMAIN d /\ (k - 1) + 1 = k
      BY <1>1, <2>1, <2>3
    <3>2. d[k - 1] = c[k]
      BY <1>1, <3>1
    <3>3. ASSUME NEW j \in DOMAIN d, Touches(d[j], g, p)  PROVE j <= k - 1
      <4>1. j + 1 <= k
        BY <1>2, <2>1, <3>3
      <4> QED  BY <1>1, <2>1, <3>3, <4>1
    <3> QED  BY <2>1, <3>1, <3>2, <3>3 DEF Sets
  <2> QED  BY <2>2, <2>3
<1>4. Leaves(c, g, p) => Leaves(d, g, p) /\ ~Touches(x, g, p)
  <2>1. 1 \in DOMAIN c
    BY <1>1
  <2> QED  BY <1>1, <1>2, <2>1 DEF Leaves
<1> QED  BY <1>3, <1>4

-----------------------------------------------------------------------------
(* What will be on the page. *)

\* The page takes a packet: what it says of the place is done.
LEMMA TakenComes ==
  ASSUME NEW x, Shorter(socket, x, socket'), Answers' = Answers, NEW g, NEW p,
         ComposeGroup'[g][p] = IF Touches(x, g, p) THEN Value(x, g, p) ELSE ComposeGroup[g][p],
         NEW v, Comes(g, p, v)
  PROVE  Comes(g, p, v)'
<1>1. /\ Sets(socket, g, p, v) => \/ Sets(socket', g, p, v)
                                  \/ Leaves(socket', g, p) /\ Touches(x, g, p) /\ Value(x, g, p) = v
      /\ Leaves(socket, g, p) => Leaves(socket', g, p) /\ ~Touches(x, g, p)
  BY ShorterSets
<1> QED  BY <1>1 DEF Comes

\* The page is sent a packet that says nothing of the groups.
LEMMA SentComes ==
  ASSUME NEW x, Longer(socket, x, socket'), Answers' = Answers, UNCHANGED ComposeGroup,
         NEW g, NEW p, ~Touches(x, g, p), NEW v, Comes(g, p, v)
  PROVE  Comes(g, p, v)'
<1>1. /\ Sets(socket, g, p, v) => Sets(socket', g, p, v)
      /\ Leaves(socket, g, p) => Leaves(socket', g, p)
  BY LongerSets
<1> QED  BY <1>1 DEF Comes

\* A thread has run a request: its answer is the youngest.
LEMMA RanComes ==
  ASSUME NEW x, Longer(Answers, x, Answers'), UNCHANGED <<socket, ComposeGroup>>,
         NEW g, NEW p
  PROVE  /\ \A v : Touches(x, g, p) /\ Value(x, g, p) = v => Comes(g, p, v)'
         /\ ~Touches(x, g, p) => \A v : Comes(g, p, v) => Comes(g, p, v)'
<1>1. /\ Touches(x, g, p) => Sets(Answers', g, p, Value(x, g, p))
      /\ ~Touches(x, g, p) => /\ \A v : Sets(Answers, g, p, v) => Sets(Answers', g, p, v)
                              /\ Leaves(Answers, g, p) => Leaves(Answers', g, p)
  BY LongerSets
<1> QED  BY <1>1 DEF Comes

\* The oldest answer is written: it is the youngest in the socket.
LEMMA WrittenComes ==
  ASSUME NEW x, Shorter(Answers, x, Answers'), Longer(socket, x, socket'), UNCHANGED ComposeGroup,
         NEW g, NEW p, NEW v, Comes(g, p, v)
  PROVE  Comes(g, p, v)'
<1>1. /\ Sets(Answers, g, p, v) => \/ Sets(Answers', g, p, v)
                                   \/ Leaves(Answers', g, p) /\ Touches(x, g, p) /\ Value(x, g, p) = v
      /\ Leaves(Answers, g, p) => Leaves(Answers', g, p) /\ ~Touches(x, g, p)
  BY ShorterSets
<1>2. /\ Touches(x, g, p) => Sets(socket', g, p, Value(x, g, p))
      /\ ~Touches(x, g, p) => /\ \A w : Sets(socket, g, p, w) => Sets(socket', g, p, w)
                              /\ Leaves(socket, g, p) => Leaves(socket', g, p)
  BY LongerSets
<1> QED  BY <1>1, <1>2 DEF Comes

-----------------------------------------------------------------------------
(* The room. *)

\* Two functions with the same values.
LEMMA SameFunction ==
  ASSUME NEW S, NEW T, NEW f \in [S -> T], NEW h \in [S -> T], \A x \in S : f[x] = h[x]
  PROVE  f = h
OBVIOUS

\* A card in a place of a team leaves groups; and no other place changes.
LEMMA CardType ==
  ASSUME NEW data \in [Teams -> Cards], NEW t \in Teams, NEW g \in Groups, NEW p \in Places, NEW c \in Int
  PROVE  [data EXCEPT ![t][g][p] = c] \in [Teams -> Cards]
<1> DEFINE row == [data[t][g] EXCEPT ![p] = c]
           new == [data[t] EXCEPT ![g] = row]
<1>1. data[t] \in Cards /\ data[t][g] \in [Places -> Int]
  BY DEF Cards
<1>2. row \in [Places -> Int]
  BY <1>1
<1>3. new \in Cards
  <2> HIDE DEF row
  <2> QED  BY <1>1, <1>2 DEF Cards
<1>4. [data EXCEPT ![t] = new] \in [Teams -> Cards]
  <2> HIDE DEF new
  <2> QED  BY <1>3
<1> QED  BY <1>4

\* What is masked is groups.
LEMMA MaskType == ASSUME NEW groups \in Cards  PROVE Mask(groups) \in Cards
BY DEF Mask, Cards, Masked

\* The room's text, before a step and after it.
LEMMA TextType ==
  ASSUME status \in {"WAIT", "COMPOSE", "BAN", "END"}, nowCtrl \in Int,
         composeData \in [Teams -> Cards], RoomRight
  PROVE  Text \in Texts /\ TextRight(Text)
<1>1. HideCompose \in [Teams -> Cards]
  <2>1. \A i \in Teams : Mask(composeData[1 - i]) \in Cards
    BY MaskType
  <2> QED  BY <2>1 DEF HideCompose
<1>2. /\ Text.Status = status /\ Text.NowCtrl = nowCtrl
      /\ Text.HideCompose = IF nowCtrl = NoTurn THEN <<>> ELSE HideCompose
  BY DEF Text
<1>3. Text \in Texts
  <2>1. (IF nowCtrl = NoTurn THEN <<>> ELSE HideCompose) \in {<<>>} \cup [Teams -> Cards]
    BY <1>1
  <2> QED  BY <2>1 DEF Text, Texts
<1>4. TextRight(Text)
  BY <1>2 DEF TextRight, TextFits, RoomRight, Settled
<1> QED  BY <1>3, <1>4

\* The same after a step.
LEMMA NextTextType ==
  ASSUME status' \in {"WAIT", "COMPOSE", "BAN", "END"}, nowCtrl' \in Int,
         composeData' \in [Teams -> Cards], RoomRight'
  PROVE  Text' \in Texts /\ TextFits(Text', Settled', HideCompose')
<1>1. HideCompose' \in [Teams -> Cards]
  <2>1. \A i \in Teams : Mask(composeData'[1 - i]) \in Cards
    BY MaskType
  <2> QED  BY <2>1 DEF HideCompose, Mask
<1>2. /\ Text'.Status = status' /\ Text'.NowCtrl = nowCtrl'
      /\ Text'.HideCompose = IF nowCtrl' = NoTurn THEN <<>> ELSE HideCompose'
  BY DEF Text
<1>3. Text' \in Texts
  <2>1. (IF nowCtrl' = NoTurn THEN <<>> ELSE HideCompose') \in {<<>>} \cup [Teams -> Cards]
    BY <1>1
  <2> QED  BY <2>1 DEF Text, Texts
<1>4. TextFits(Text', Settled', HideCompose')
  BY <1>2 DEF TextFits, RoomRight, Settled
<1> QED  BY <1>3, <1>4

\* The groups that are in the bans stay.
GroupsStay == Settled => Settled' /\ composeData' = composeData

\* Then the texts that were made stay right, and so does what was drawn.
LEMMA TextsStay ==
  ASSUME GroupsStay
  PROVE  /\ \A d : TextRight(d) => TextFits(d, Settled', HideCompose')
         /\ BansRight /\ UNCHANGED SyncData => BansRight'
         /\ BansRight /\ BansAgainstTheOther /\ UNCHANGED <<SyncData, ComposeGroup, late>>
              => BansAgainstTheOther'
<1>1. Settled => Settled' /\ HideCompose' = HideCompose
  BY DEF GroupsStay, HideCompose, Mask
<1>2. \A d : TextRight(d) => TextFits(d, Settled', HideCompose')
  BY <1>1 DEF TextRight, TextFits
<1>3. BansRight /\ UNCHANGED SyncData => BansRight'
  BY <1>1 DEF BansRight
<1>4. BansRight /\ BansAgainstTheOther /\ UNCHANGED <<SyncData, ComposeGroup, late>>
              => BansAgainstTheOther'
  <2> SUFFICES ASSUME BansRight, BansAgainstTheOther, UNCHANGED <<SyncData, ComposeGroup, late>>,
                      SyncData.Status = "BAN", ~late
               PROVE  ComposeGroup = Mask(composeData'[1 - SyncData.NowCtrl])
    BY DEF BansAgainstTheOther, Mask
  <2>1. composeData' = composeData
    BY DEF GroupsStay, BansRight
  <2> QED  BY <2>1 DEF BansAgainstTheOther
<1> QED  BY <1>2, <1>3, <1>4

\* Packets of the channel that were right stay right, and the new one is.
LEMMA SocketStays ==
  ASSUME IInv, GroupsStay, UNCHANGED waiters, NEW x \in Packets,
         x.pt = "SYNC" => TextFits(x.data, Settled', HideCompose'),
         socket' = Append(socket, x) \/ socket' = socket
  PROVE  TextsRight'
<1>1. /\ socket \in Seq(Packets)
      /\ \A k \in DOMAIN socket : socket[k].pt = "SYNC" => TextRight(socket[k].data)
      /\ \A k \in DOMAIN waiters : TextRight(waiters[k])
  BY DEF IInv, Types, TextsRight
<1>2. \A k \in DOMAIN socket' : socket'[k] = x \/ \E j \in DOMAIN socket : socket'[k] = socket[j]
  BY <1>1, AppendIsLonger
<1>3. \A d : TextRight(d) => TextFits(d, Settled', HideCompose')
  BY TextsStay
<1>4. ASSUME NEW k \in DOMAIN socket', socket'[k].pt = "SYNC"
      PROVE  TextFits(socket'[k].data, Settled', HideCompose')
  <2>1. CASE socket'[k] = x
    BY <1>4, <2>1
  <2>2. CASE socket'[k] # x
    <3>1. PICK j \in DOMAIN socket : socket'[k] = socket[j]
      BY <1>2, <2>2
    <3> QED  BY <1>1, <1>3, <1>4, <3>1
  <2> QED  BY <2>1, <2>2
<1>5. \A k \in DOMAIN waiters : TextFits(waiters[k], Settled', HideCompose')
  BY <1>1, <1>3
<1> QED  BY <1>4, <1>5 DEF TextsRight, TextRight

\* The packets on their way grow by one that is not the answer to LINK_ROOM.
LEMMA LinkStays ==
  ASSUME IInv, NEW x \in Packets, x.pt # "LINK_ROOM",
         socket' = Append(socket, x) \/ socket' = socket,
         linked = "answered" => linked' = "answered", UNCHANGED <<isInit, SyncData>>
  PROVE  LinkRight'
<1>1. socket \in Seq(Packets)
  BY DEF IInv, Types
<1>2. CASE socket' = socket
  BY <1>2 DEF IInv, LinkRight, IsLink
<1>3. CASE socket' = Append(socket, x)
  <2>1. Longer(socket, x, socket')
    BY <1>1, <1>3, AppendIsLonger
  <2>2. \A k \in DOMAIN socket' : IsLink(k)' => k \in DOMAIN socket /\ IsLink(k)
    BY <2>1 DEF Longer, IsLink
  <2> QED  BY <2>2 DEF IInv, LinkRight, IsLink
<1> QED  BY <1>2, <1>3

\* A step of the room: the page is sent a text, or is not.
LEMMA RoomStep ==
  ASSUME IInv, GroupsStay, RoomRight', status' \in {"WAIT", "COMPOSE", "BAN", "END"}, nowCtrl' \in Int,
         composeData' \in [Teams -> Cards],
         composeData'[myTeam] = composeData[myTeam] \/ linked = "no",
         linked' \in {"no", "listed", "answered"}, linked = "answered" => linked' = "answered",
         socket' = Append(socket, [pt |-> "SYNC", data |-> Text']) \/ socket' = socket,
         UNCHANGED <<sent, server, page>>
  PROVE  IInv'
<1> DEFINE x == [pt |-> "SYNC", data |-> Text']
<1>1. /\ Types /\ RoomRight /\ LinkRight /\ TextsRight /\ BansRight
      /\ BansAgainstTheOther /\ RanRight /\ GroupsCome /\ socket \in Seq(Packets)
  BY DEF IInv, Types
<1>2. /\ UNCHANGED <<sent, job, ran, overtaken, isInit, SyncData, ComposeGroup, nowGroup>>
      /\ UNCHANGED <<NowChooseCard, waiters, late>>
  BY DEF server, page, shown, choice
<1>3. x \in Packets /\ x.pt = "SYNC" /\ TextFits(x.data, Settled', HideCompose')
  <2>1. Text' \in Texts /\ TextFits(Text', Settled', HideCompose')
    BY NextTextType
  <2>2. x \in [pt : {"SYNC"}, data : Texts]
    BY <2>1
  <2>3. x.pt = "SYNC" /\ x.data = Text'
    BY <2>1
  <2> QED  BY <2>1, <2>2, <2>3 DEF Packets
<1> HIDE DEF x
<1>4. socket' = Append(socket, x) \/ socket' = socket
  BY DEF x
<1>5. Types'
  <2>1. Append(socket, x) \in Seq(Packets)
    BY ONLY <1>1, <1>3, AppendIsLonger
  <2>2. socket' \in Seq(Packets)
    BY ONLY <1>1, <1>4, <2>1
  <2> QED  BY <1>1, <1>2, <2>2 DEF Types
<1>6. TextsRight'
  BY <1>2, <1>3, <1>4, SocketStays
<1>7. LinkRight'
  BY <1>2, <1>3, <1>4, LinkStays
<1>8. BansRight' /\ BansAgainstTheOther'
  BY <1>1, <1>2, TextsStay
<1>9. RanRight'
  BY <1>1, <1>2 DEF RanRight
<1>10. GroupsCome'
  <2> SUFFICES ASSUME SyncData.Status = "COMPOSE", ~overtaken, ~Asked,
                      NEW g \in Groups, NEW p \in Places, NEW v, v = composeData'[myTeam][g][p]
               PROVE  Comes(g, p, v)'
    BY <1>2 DEF GroupsCome, Asked
  <2>1. composeData'[myTeam] = composeData[myTeam]
    BY <1>1 DEF LinkRight, NoSync
  <2>2. Answers' = Answers
    BY <1>2 DEF Answers
  <2>3. Comes(g, p, v)
    BY <1>1, <2>1 DEF GroupsCome
  <2>4. CASE socket' = Append(socket, x)
    <3>1. Longer(socket, x, socket')
      BY <1>1, <1>3, <2>4, AppendIsLonger
    <3>2. ~Touches(x, g, p)
      BY <1>3 DEF Touches
    <3> QED  BY <1>2, <2>2, <2>3, <3>1, <3>2, SentComes
  <2>5. CASE socket' = socket
    BY <1>2, <2>2, <2>3, <2>5 DEF Comes
  <2> QED  BY <1>4, <2>4, <2>5
<1> QED  BY <1>5, <1>6, <1>7, <1>8, <1>9, <1>10 DEF IInv

\* The clock, somebody else who is linked, and the other captain's cards.
LEMMA RoomSteps ==
  ASSUME IInv, SetStatus \/ PlayerAdd \/ OtherCompose \/ (linked = "no" /\ LinkRoom)
  PROVE  IInv'
<1>1. Types /\ RoomRight
  BY DEF IInv
<1>2. CASE SetStatus
  <2>1. /\ UNCHANGED <<composeData, linked, sent, server, page>>
        /\ status' \in {"WAIT", "COMPOSE", "BAN", "END"} /\ nowCtrl' \in Int /\ RoomRight'
        /\ Settled => Settled'
    BY <1>1, <1>2 DEF SetStatus, RoomRight, Types, Settled
  <2>2. socket' = Append(socket, [pt |-> "SYNC", data |-> Text']) \/ socket' = socket
    BY <1>2 DEF SetStatus, broadcast, Send
  <2> QED  BY <1>1, <2>1, <2>2, RoomStep DEF GroupsStay, Types
<1>3. CASE PlayerAdd \/ (linked = "no" /\ LinkRoom)
  <2>1. /\ UNCHANGED <<room, sent, server, page>> /\ Send(Text)
        /\ linked' \in {"no", "listed", "answered"} /\ (linked = "answered" => linked' = "answered")
    BY <1>1, <1>3 DEF PlayerAdd, LinkRoom, Types
  <2>2. Text' = Text /\ RoomRight' /\ GroupsStay /\ UNCHANGED <<status, nowCtrl, composeData>>
    BY <1>1, <2>1 DEF room, Text, HideCompose, Mask, RoomRight, GroupsStay, Settled
  <2>3. socket' = Append(socket, [pt |-> "SYNC", data |-> Text'])
    BY <2>1, <2>2 DEF Send
  <2> QED  BY <1>1, <2>1, <2>2, <2>3, RoomStep DEF Types
<1>4. CASE OtherCompose
  <2>1. PICK o \in OtherPlaces, c \in Card :
          /\ o[1] # myTeam \/ linked = "no"
          /\ composeData' = [composeData EXCEPT ![o[1]][o[2]][o[3]] = c]
    BY <1>4 DEF OtherCompose
  <2>2. o[1] \in Teams /\ o[2] \in Groups /\ o[3] \in Places /\ c \in Int
    OBVIOUS
  <2>3. /\ composeData' \in [Teams -> Cards]
        /\ composeData'[myTeam] = composeData[myTeam] \/ linked = "no"
    <3>1. composeData \in [Teams -> Cards]
      BY <1>1 DEF Types
    <3>2. composeData' \in [Teams -> Cards]
      BY <2>1, <2>2, <3>1, CardType
    <3>3. o[1] # myTeam => composeData'[myTeam] = composeData[myTeam]
      BY <2>1, <2>2, <3>1
    <3> QED  BY <2>1, <3>2, <3>3
  <2>4. /\ UNCHANGED <<status, nowCtrl, linked, socket, sent, server, page>> /\ status = "COMPOSE"
    BY <1>4 DEF OtherCompose
  <2>5. GroupsStay /\ RoomRight'
    BY <1>1, <2>4 DEF GroupsStay, Settled, RoomRight
  <2> QED  BY <1>1, <2>3, <2>4, <2>5, RoomStep DEF Types
<1> QED  BY <1>2, <1>3, <1>4

\* A room that does not change.
LEMMA RoomStays ==
  ASSUME UNCHANGED room
  PROVE  GroupsStay /\ (RoomRight => RoomRight') /\ UNCHANGED <<status, nowCtrl, composeData>>
BY DEF room, GroupsStay, RoomRight, Settled

\* The page is told that it is linked.
LEMMA AnswerLinkStep ==
  ASSUME IInv, linked = "listed", LinkRoom
  PROVE  IInv'
<1> DEFINE x == [pt |-> "LINK_ROOM", data |-> 0]
<1>1. /\ Types /\ RoomRight /\ LinkRight /\ TextsRight /\ BansRight
      /\ BansAgainstTheOther /\ RanRight /\ GroupsCome /\ socket \in Seq(Packets)
  BY DEF IInv, Types
<1>2. /\ linked' = "answered" /\ socket' = Append(socket, x)
      /\ UNCHANGED <<room, sent, job, ran, overtaken, isInit, SyncData, ComposeGroup, nowGroup>>
      /\ UNCHANGED <<NowChooseCard, waiters, late>>
  BY DEF LinkRoom, server, page, shown, choice
<1>3. x \in Packets /\ x.pt = "LINK_ROOM"
  BY DEF Packets
<1> HIDE DEF x
<1>4. GroupsStay /\ RoomRight' /\ UNCHANGED <<status, nowCtrl, composeData>>
  BY <1>1, <1>2, RoomStays
<1>5. ~isInit /\ SyncData = NoSync /\ \A k \in DOMAIN socket : ~IsLink(k)
  BY <1>1 DEF LinkRight
<1>6. Types'
  <2>1. socket' \in Seq(Packets)
    BY <1>1, <1>2, <1>3, AppendIsLonger
  <2> QED  BY <1>1, <1>2, <1>4, <2>1 DEF Types
<1>7. LinkRight'
  <2>1. Longer(socket, x, socket')
    BY <1>1, <1>2, <1>3, AppendIsLonger
  <2>2. \A j, k \in DOMAIN socket' : IsLink(j)' /\ IsLink(k)' => j = k
    BY <1>5, <2>1 DEF Longer, IsLink
  <2> QED  BY <1>2, <1>5, <2>2 DEF LinkRight
<1>8. TextsRight'
  BY <1>2, <1>3, <1>4, SocketStays
<1>9. BansRight' /\ BansAgainstTheOther'
  BY <1>1, <1>2, <1>4, TextsStay
<1>10. RanRight'
  BY <1>1, <1>2 DEF RanRight
<1>11. GroupsCome'
  BY <1>2, <1>5 DEF GroupsCome, NoSync
<1> QED  BY <1>4, <1>6, <1>7, <1>8, <1>9, <1>10, <1>11 DEF IInv

-----------------------------------------------------------------------------
(* The threads. *)

\* What a thread does changes nothing of the page, and none of the texts.
LEMMA ThreadStep ==
  ASSUME IInv, GroupsStay, RoomRight', UNCHANGED <<status, nowCtrl, linked, page>>,
         composeData' \in [Teams -> Cards], sent' \in Seq(Requests), job' \in [PackThreads -> Jobs],
         overtaken' \in BOOLEAN, NEW x \in Replies,
         socket' = Append(socket, x) \/ socket' = socket, RanRight', GroupsCome'
  PROVE  IInv'
<1>1. /\ Types /\ RoomRight /\ LinkRight /\ TextsRight /\ BansRight
      /\ BansAgainstTheOther /\ socket \in Seq(Packets)
  BY DEF IInv, Types
<1>2. UNCHANGED <<isInit, SyncData, ComposeGroup, nowGroup, NowChooseCard, waiters, late>>
  BY DEF page, shown, choice
<1>3. x \in Packets /\ x.pt # "LINK_ROOM" /\ x.pt # "SYNC"
  BY DEF Packets, Replies, Changes
<1>4. socket' \in Seq(Packets)
  <2>1. Append(socket, x) \in Seq(Packets)
    BY ONLY <1>1, <1>3, AppendIsLonger
  <2> QED  BY <1>1, <2>1
<1>5. Types'
  BY <1>1, <1>2, <1>4 DEF Types
<1>6. TextsRight'
  BY <1>2, <1>3, SocketStays
<1>7. LinkRight'
  BY <1>2, <1>3, LinkStays
<1>8. BansRight' /\ BansAgainstTheOther'
  BY <1>1, <1>2, TextsStay
<1> QED  BY <1>5, <1>6, <1>7, <1>8 DEF IInv

\* A thread takes the oldest request.
LEMMA TakeStep ==
  ASSUME IInv, NEW t \in PackThreads, Take(t)
  PROVE  IInv'
<1>1. /\ Types /\ RoomRight /\ RanRight /\ GroupsCome
      /\ sent \in Seq(Requests) /\ job \in [PackThreads -> Jobs]
  BY DEF IInv, Types
<1>2. /\ job[t] = Idle /\ sent # <<>> /\ job' = [job EXCEPT ![t] = Head(sent)] /\ sent' = Tail(sent)
      /\ UNCHANGED <<room, linked, socket, ran, overtaken, page>>
  BY DEF Take
<1>3. /\ sent' \in Seq(Requests) /\ Shorter(sent, Head(sent), sent') /\ Head(sent) \in Requests
  BY <1>1, <1>2, TailIsShorter
<1>4. job' \in [PackThreads -> Jobs]
  BY <1>1, <1>2, <1>3 DEF Jobs
<1>5. GroupsStay /\ RoomRight' /\ UNCHANGED <<status, nowCtrl, composeData>>
  BY <1>1, <1>2, RoomStays
<1>6. ~overtaken => \A i \in DOMAIN ran : ran[i] \in PackThreads /\ ran[i] # t
  <2>1. job[t].pt # "answer"
    BY <1>2 DEF Idle
  <2> QED  BY <1>1, <2>1, ElementOfSeq, LenProperties DEF RanRight
<1>7. RanRight'
  BY <1>1, <1>2, <1>6 DEF RanRight
<1>8. GroupsCome'
  <2> SUFFICES ASSUME SyncData.Status = "COMPOSE", ~overtaken, ~Asked',
                      NEW g \in Groups, NEW p \in Places, NEW v, v = composeData'[myTeam][g][p]
               PROVE  Comes(g, p, v)'
    BY <1>2 DEF GroupsCome, page
  <2>1. ~Asked
    <3>1. \A u \in PackThreads : job[u].pt # "GET_COMPOST"
      BY <1>1, <1>2 DEF Asked, Idle
    <3>2. Head(sent).pt # "GET_COMPOST"
      BY <1>1, <1>2 DEF Asked
    <3>3. \A k \in DOMAIN sent : sent[k].pt # "GET_COMPOST"
      <4>1. PICK n \in Nat : /\ DOMAIN sent = 1 .. n + 1 /\ DOMAIN sent' = 1 .. n
                             /\ sent[1] = Head(sent) /\ \A i \in 1 .. n : sent'[i] = sent[i + 1]
        BY <1>3 DEF Shorter
      <4> SUFFICES ASSUME NEW k \in DOMAIN sent  PROVE sent[k].pt # "GET_COMPOST"
        OBVIOUS
      <4>2. CASE k = 1
        BY <3>2, <4>1, <4>2
      <4>3. CASE k # 1
        <5>1. k - 1 \in DOMAIN sent' /\ sent'[k - 1] = sent[k]
          BY <4>1, <4>3
        <5> QED  BY <5>1 DEF Asked
      <4> QED  BY <4>2, <4>3
    <3> QED  BY <3>1, <3>3 DEF Asked
  <2>2. Answers' = Answers
    BY <1>1, <1>2, <1>6 DEF Answers
  <2>3. Comes(g, p, v)
    BY <1>1, <1>2, <1>5, <2>1 DEF GroupsCome, page
  <2> QED  BY <1>2, <2>2, <2>3 DEF Comes, page, shown
<1>9. [pt |-> "GET_COMPOST", pick |-> composeData[myTeam]] \in Replies
  BY <1>1 DEF Types, Replies
<1> QED  BY <1>1, <1>2, <1>3, <1>4, <1>5, <1>7, <1>8, <1>9, ThreadStep DEF Types

\* The answer of the thread that has run a request is the youngest.
LEMMA AnswersGrow ==
  ASSUME Types, RanRight, ~overtaken, UNCHANGED overtaken, NEW t \in PackThreads, NEW x \in Replies,
         job[t].pt # "answer", job' = [job EXCEPT ![t] = [pt |-> "answer", data |-> x]],
         ran' = Append(ran, t)
  PROVE  RanRight' /\ Longer(Answers, x, Answers')
<1>1. /\ ran \in Seq(PackThreads) /\ \A i \in DOMAIN ran : job[ran[i]].pt = "answer"
      /\ \A i, j \in DOMAIN ran : ran[i] = ran[j] => i = j
      /\ job \in [PackThreads -> Jobs]
  BY DEF RanRight, Types
<1>2. /\ ran' \in Seq(PackThreads) /\ Longer(ran, t, ran')
  BY <1>1, AppendIsLonger
<1>3. PICK n \in Nat : /\ DOMAIN ran = 1 .. n /\ DOMAIN ran' = 1 .. n + 1
                       /\ ran'[n + 1] = t /\ \A i \in 1 .. n : ran'[i] = ran[i]
  BY <1>2 DEF Longer
<1>4. job'[t].pt = "answer" /\ job'[t].data = x /\ \A u \in PackThreads \ {t} : job'[u] = job[u]
  BY <1>1
<1>5. \A i \in 1 .. n : ran[i] \in PackThreads \ {t} /\ ran'[i] = ran[i] /\ job'[ran'[i]] = job[ran[i]]
  <2>1. \A i \in 1 .. n : ran[i] \in PackThreads
    BY <1>1, <1>3, ElementOfSeq, LenProperties
  <2>2. ASSUME NEW i \in 1 .. n  PROVE ran[i] # t /\ ran'[i] = ran[i]
    BY <1>1, <1>3, <2>2
  <2> QED  BY <1>4, <2>1, <2>2
<1>6. \A i \in DOMAIN ran' : i = n + 1 \/ i \in 1 .. n
  BY <1>3
<1>7. RanRight'
  <2>1. \A i \in DOMAIN ran' : job'[ran'[i]].pt = "answer"
    BY <1>1, <1>3, <1>4, <1>5, <1>6
  <2>2. \A i, j \in DOMAIN ran' : ran'[i] = ran'[j] => i = j
    BY <1>1, <1>3, <1>5, <1>6
  <2> QED  BY <1>2, <2>1, <2>2 DEF RanRight
<1>8. /\ DOMAIN Answers = 1 .. n /\ DOMAIN Answers' = 1 .. n + 1
      /\ Answers'[n + 1] = x /\ \A i \in 1 .. n : Answers'[i] = Answers[i]
  <2>1. /\ \A i \in 1 .. n : Answers[i] = job[ran[i]].data
        /\ \A i \in 1 .. n + 1 : Answers'[i] = job'[ran'[i]].data
        /\ DOMAIN Answers = DOMAIN ran /\ DOMAIN Answers' = DOMAIN ran'
    BY <1>3 DEF Answers
  <2> QED  BY <1>3, <1>4, <1>5, <2>1
<1>9. Longer(Answers, x, Answers')
  BY <1>8 DEF Longer
<1> QED  BY <1>7, <1>9

\* A card is put in its place, or was sent too late.
LEMMA ComposeStep ==
  ASSUME IInv, NEW t \in PackThreads, Compose(t),
         UNCHANGED <<status, nowCtrl, linked, socket, sent, overtaken, page>>
  PROVE  IInv'
<1>0. PICK x : x = job[t]
  OBVIOUS
<1>1. /\ Types /\ RoomRight /\ RanRight /\ GroupsCome
      /\ job \in [PackThreads -> Jobs] /\ composeData \in [Teams -> Cards] /\ sent \in Seq(Requests)
  BY DEF IInv, Types
<1>2. x.pt = "COMPOSE" /\ x \in Changes
  <2>1. x.pt = "COMPOSE" /\ x \in Jobs
    BY <1>0, <1>1 DEF Compose
  <2> QED  BY <2>1 DEF Jobs, Idle, Requests
<1>3. x \in Replies /\ x.group \in Groups /\ x.no \in Places /\ x.choose \in Int
  <2>1. /\ x.group \in Groups /\ x.no \in Places /\ x.choose \in Card
    BY <1>2 DEF Changes
  <2>2. x.choose \in Int
    <3>1. \A c \in Card : c \in Int
      OBVIOUS
    <3> QED  BY <2>1, <3>1
  <2>3. x \in Replies
    BY <1>2 DEF Replies
  <2> QED  BY <2>1, <2>2, <2>3
<1>4. RoomRight'
  BY <1>1 DEF RoomRight
<1>5. UNCHANGED <<SyncData, ComposeGroup>>
  BY DEF page, shown
<1>6. CASE /\ status = "COMPOSE"
           /\ composeData' = [composeData EXCEPT ![myTeam][x.group][x.no] = x.choose]
           /\ ToWrite(t, x)
  <2>1. job' = [job EXCEPT ![t] = [pt |-> "answer", data |-> x]] /\ ran' = Append(ran, t)
    BY <1>6 DEF ToWrite
  <2>2. GroupsStay
    BY <1>6 DEF GroupsStay, Settled
  <2>3. /\ composeData' \in [Teams -> Cards]
        /\ \A g \in Groups, p \in Places :
             composeData'[myTeam][g][p] = IF g = x.group /\ p = x.no THEN x.choose
                                                                     ELSE composeData[myTeam][g][p]
    BY <1>1, <1>3, <1>6 DEF Cards
  <2>4. job' \in [PackThreads -> Jobs]
    <3>1. [pt |-> "answer", data |-> x] \in Jobs
      BY <1>3 DEF Jobs
    <3> QED  BY <1>1, <2>1, <3>1
  <2>5. ~overtaken => RanRight' /\ Longer(Answers, x, Answers')
    <3>1. job[t].pt # "answer"
      BY <1>0, <1>2
    <3> QED  BY <1>1, <1>3, <2>1, <3>1, AnswersGrow
  <2>6. RanRight'
    BY <2>5 DEF RanRight
  <2>7. GroupsCome'
    <3> SUFFICES ASSUME SyncData.Status = "COMPOSE", ~overtaken, ~Asked',
                        NEW g \in Groups, NEW p \in Places, NEW v, v = composeData'[myTeam][g][p]
                 PROVE  Comes(g, p, v)'
      BY <1>5 DEF GroupsCome
    <3>1. ~Asked
      BY <1>0, <1>1, <1>2, <2>1 DEF Asked
    <3>2. /\ Touches(x, g, p) /\ Value(x, g, p) = v => Comes(g, p, v)'
          /\ ~Touches(x, g, p) => \A w : Comes(g, p, w) => Comes(g, p, w)'
      BY <1>5, <2>5, RanComes
    <3>3. CASE g = x.group /\ p = x.no
      <4>1. Touches(x, g, p) /\ Value(x, g, p) = v
        BY <1>2, <2>3, <3>3 DEF Touches, Value
      <4> QED  BY <3>2, <4>1
    <3>4. CASE ~(g = x.group /\ p = x.no)
      <4>1. ~Touches(x, g, p)
        BY <1>2, <3>4 DEF Touches
      <4>2. Comes(g, p, v)
        BY <1>1, <2>3, <3>1, <3>4 DEF GroupsCome
      <4> QED  BY <3>2, <4>1, <4>2
    <3> QED  BY <3>3, <3>4
  <2> QED  BY <1>1, <1>3, <1>4, <2>2, <2>3, <2>4, <2>6, <2>7, ThreadStep DEF Types
<1>7. CASE /\ status # "COMPOSE" /\ job' = [job EXCEPT ![t] = Idle]
           /\ UNCHANGED <<composeData, ran>>
  <2>1. GroupsStay
    BY <1>7 DEF GroupsStay, Settled
  <2>2. job' \in [PackThreads -> Jobs] /\ \A u \in PackThreads \ {t} : job'[u] = job[u]
    BY <1>1, <1>7 DEF Jobs
  <2>3. ~overtaken => \A i \in DOMAIN ran : ran[i] \in PackThreads \ {t}
    <3>1. ~overtaken => \A i \in DOMAIN ran : ran[i] \in PackThreads /\ job[ran[i]].pt = "answer"
      BY <1>1, ElementOfSeq, LenProperties DEF RanRight
    <3> QED  BY <1>0, <1>2, <3>1
  <2>4. RanRight'
    BY <1>1, <1>7, <2>2, <2>3 DEF RanRight
  <2>5. ~overtaken => Answers' = Answers
    BY <1>7, <2>2, <2>3 DEF Answers
  <2>6. Asked => Asked'
    BY <1>0, <1>2, <2>2 DEF Asked
  <2>7. GroupsCome'
    <3> SUFFICES ASSUME SyncData.Status = "COMPOSE", ~overtaken, ~Asked',
                        NEW g \in Groups, NEW p \in Places, NEW v, v = composeData'[myTeam][g][p]
                 PROVE  Comes(g, p, v)'
      BY <1>5 DEF GroupsCome
    <3>1. Comes(g, p, v)
      BY <1>1, <1>7, <2>6 DEF GroupsCome
    <3> QED  BY <1>5, <2>5, <3>1 DEF Comes
  <2> QED  BY <1>1, <1>3, <1>4, <1>7, <2>1, <2>2, <2>4, <2>7, ThreadStep DEF Types
<1> QED  BY <1>0, <1>6, <1>7 DEF Compose

\* The reply with all the groups is made.
LEMMA GetComposeStep ==
  ASSUME IInv, NEW t \in PackThreads, GetCompose(t),
         UNCHANGED <<status, nowCtrl, linked, socket, sent, overtaken, page>>
  PROVE  IInv'
<1> DEFINE x == [pt |-> "GET_COMPOST", pick |-> composeData[myTeam]]
<1>1. /\ Types /\ RoomRight /\ RanRight /\ GroupsCome
      /\ job \in [PackThreads -> Jobs] /\ composeData \in [Teams -> Cards] /\ sent \in Seq(Requests)
  BY DEF IInv, Types
<1>2. /\ job[t].pt = "GET_COMPOST" /\ UNCHANGED composeData
      /\ job' = [job EXCEPT ![t] = [pt |-> "answer", data |-> x]] /\ ran' = Append(ran, t)
  BY DEF GetCompose, ToWrite
<1>3. x \in Replies /\ x.pt = "GET_COMPOST" /\ x.pick = composeData[myTeam]
  BY <1>1 DEF Replies
<1> HIDE DEF x
<1>4. RoomRight' /\ GroupsStay
  BY <1>1, <1>2 DEF RoomRight, GroupsStay, Settled
<1>5. UNCHANGED <<SyncData, ComposeGroup>>
  BY DEF page, shown
<1>6. job' \in [PackThreads -> Jobs]
  <2>1. [pt |-> "answer", data |-> x] \in Jobs
    BY <1>3 DEF Jobs
  <2> QED  BY <1>1, <1>2, <2>1
<1>7. ~overtaken => RanRight' /\ Longer(Answers, x, Answers')
  BY <1>1, <1>2, <1>3, AnswersGrow
<1>8. RanRight'
  BY <1>7 DEF RanRight
<1>9. GroupsCome'
  <2> SUFFICES ASSUME SyncData.Status = "COMPOSE", ~overtaken,
                      NEW g \in Groups, NEW p \in Places, NEW v, v = composeData'[myTeam][g][p]
               PROVE  Comes(g, p, v)'
    BY <1>5 DEF GroupsCome
  <2>1. Touches(x, g, p) /\ Value(x, g, p) = v
    BY <1>2, <1>3 DEF Touches, Value
  <2>2. Sets(Answers', g, p, v)
    BY <1>7, <2>1, LongerSets
  <2> QED  BY <2>2 DEF Comes
<1> QED  BY <1>1, <1>2, <1>3, <1>4, <1>6, <1>8, <1>9, ThreadStep DEF Types

\* A thread writes its answer: the oldest, or from now on all is possible.
LEMMA WriteStep ==
  ASSUME IInv, NEW t \in PackThreads, Write(t)
  PROVE  IInv'
<1>0. PICK x : x = job[t].data
  OBVIOUS
<1>1. /\ Types /\ RoomRight /\ RanRight /\ GroupsCome /\ socket \in Seq(Packets)
      /\ job \in [PackThreads -> Jobs] /\ composeData \in [Teams -> Cards] /\ sent \in Seq(Requests)
      /\ overtaken \in BOOLEAN
  BY DEF IInv, Types
<1>2. /\ job[t].pt = "answer" /\ socket' = Append(socket, x)
      /\ job' = [job EXCEPT ![t] = Idle]
      /\ UNCHANGED <<room, linked, sent, page>>
  BY <1>0 DEF Write
<1>3. PICK k \in DOMAIN ran : /\ ran[k] = t /\ ran' = RemoveAt(ran, k)
                              /\ overtaken' = (overtaken \/ k # 1)
  BY DEF Write
<1>4. x \in Replies
  <2>1. job[t] \in Jobs
    BY <1>1
  <2>2. job[t] \in [pt : {"answer"}, data : Replies]
    BY <1>2, <2>1 DEF Jobs, Idle, Requests, Changes
  <2> QED  BY <1>0, <2>2
<1>5. RoomRight' /\ GroupsStay /\ UNCHANGED <<status, nowCtrl, composeData>>
  BY <1>1, <1>2, RoomStays
<1>6. UNCHANGED <<SyncData, ComposeGroup>>
  BY <1>2 DEF page, shown
<1>7. job' \in [PackThreads -> Jobs] /\ \A u \in PackThreads \ {t} : job'[u] = job[u]
  BY <1>1, <1>2 DEF Jobs
<1>8. overtaken' \in BOOLEAN
  BY <1>1, <1>3
<1>9. ASSUME ~overtaken'
      PROVE  /\ ~overtaken /\ RanRight' /\ Shorter(Answers, x, Answers')
  <2>1. ~overtaken /\ k = 1
    BY <1>3, <1>9
  <2>2. /\ ran \in Seq(PackThreads) /\ \A i \in DOMAIN ran : job[ran[i]].pt = "answer"
        /\ \A i, j \in DOMAIN ran : ran[i] = ran[j] => i = j
    BY <1>1, <2>1 DEF RanRight
  <2>3. /\ Len(ran) \in Nat /\ DOMAIN ran = 1 .. Len(ran) /\ 1 \in DOMAIN ran
        /\ \A i \in DOMAIN ran : ran[i] \in PackThreads
    BY <1>3, <2>1, <2>2, LenProperties, ElementOfSeq
  <2>4. ran # <<>>
    BY <2>2, <2>3, EmptySeq
  <2>5. ran' = Tail(ran)
    <3>1. SubSeq(ran, 1, 0) = <<>>
      BY <2>2
    <3>2. SubSeq(ran, 2, Len(ran)) = Tail(ran)
      BY <2>2, <2>4
    <3>3. RemoveAt(ran, 1) = SubSeq(ran, 1, 0) \o SubSeq(ran, 2, Len(ran))
      BY DEF RemoveAt
    <3>4. Tail(ran) \in Seq(PackThreads)
      BY <2>2, <2>4, HeadTailProperties
    <3> QED  BY <1>3, <2>1, <3>1, <3>2, <3>3, <3>4, ConcatEmptySeq
  <2>6. ran' \in Seq(PackThreads) /\ Shorter(ran, Head(ran), ran') /\ Head(ran) = t
    <3>1. ran \in Seq(PackThreads) /\ ran # <<>>
      BY <2>2, <2>4
    <3>2. /\ Tail(ran) \in Seq(PackThreads) /\ Shorter(ran, Head(ran), Tail(ran))
          /\ Head(ran) = ran[1]
      BY ONLY <3>1, TailIsShorter
    <3> QED  BY <1>3, <2>1, <2>5, <3>2
  <2>7. PICK n \in Nat : /\ DOMAIN ran = 1 .. n + 1 /\ DOMAIN ran' = 1 .. n
                         /\ ran[1] = t /\ \A i \in 1 .. n : ran'[i] = ran[i + 1]
    BY <2>6 DEF Shorter
  <2>8. \A i \in 1 .. n : ran[i + 1] \in PackThreads \ {t} /\ job'[ran'[i]] = job[ran[i + 1]]
    <3>1. \A i \in 1 .. n : i + 1 \in DOMAIN ran /\ i + 1 # 1 /\ 1 \in DOMAIN ran
      BY <2>7
    <3> QED  BY <1>7, <2>2, <2>3, <2>7, <3>1
  <2>9. RanRight'
    <3>1. \A i \in DOMAIN ran' : i + 1 \in DOMAIN ran
      BY <2>7
    <3>2. \A i \in DOMAIN ran' : job'[ran'[i]].pt = "answer"
      BY <2>2, <2>7, <2>8, <3>1
    <3>3. ASSUME NEW i \in DOMAIN ran', NEW j \in DOMAIN ran', ran'[i] = ran'[j]  PROVE i = j
      <4>1. i + 1 = j + 1
        BY <2>2, <2>7, <3>1, <3>3
      <4> QED  BY <2>7, <4>1
    <3> QED  BY <2>6, <3>2, <3>3 DEF RanRight
  <2>10. /\ DOMAIN Answers = 1 .. n + 1 /\ DOMAIN Answers' = 1 .. n
         /\ Answers[1] = x /\ \A i \in 1 .. n : Answers'[i] = Answers[i + 1]
    <3>1. /\ \A i \in 1 .. n + 1 : Answers[i] = job[ran[i]].data
          /\ \A i \in 1 .. n : Answers'[i] = job'[ran'[i]].data
          /\ DOMAIN Answers = DOMAIN ran /\ DOMAIN Answers' = DOMAIN ran'
      BY <2>7 DEF Answers
    <3>2. \A i \in 1 .. n : i + 1 \in 1 .. n + 1
      BY <2>7
    <3> QED  BY <1>0, <2>3, <2>7, <2>8, <3>1, <3>2
  <2>11. Shorter(Answers, x, Answers')
    BY <2>10 DEF Shorter
  <2> QED  BY <2>1, <2>9, <2>11
<1>10. RanRight'
  BY <1>9 DEF RanRight
<1>11. Longer(socket, x, socket')
  <2>1. x \in Packets
    BY <1>4 DEF Packets
  <2> QED  BY <1>1, <1>2, <2>1, AppendIsLonger
<1>12. GroupsCome'
  <2> SUFFICES ASSUME SyncData.Status = "COMPOSE", ~overtaken', ~Asked',
                      NEW g \in Groups, NEW p \in Places, NEW v, v = composeData'[myTeam][g][p]
               PROVE  Comes(g, p, v)'
    BY <1>6 DEF GroupsCome
  <2>1. ~Asked
    BY <1>2, <1>7 DEF Asked
  <2>2. Comes(g, p, v)
    BY <1>1, <1>5, <1>9, <2>1 DEF GroupsCome
  <2> QED  BY <1>6, <1>9, <1>11, <2>2, WrittenComes
<1> QED  BY <1>1, <1>2, <1>4, <1>5, <1>7, <1>8, <1>10, <1>12, ThreadStep DEF Types

-----------------------------------------------------------------------------
(* The callbacks and the clicks. *)

\* What a step of the page leaves alone.
PageSteps == UNCHANGED <<room, linked, server>>

\* The page draws a text.
LEMMA DrawStep ==
  ASSUME IInv, PageSteps, UNCHANGED late, NEW d \in Texts, TextRight(d), isInit, Draw(d)
  PROVE  /\ sent' \in Seq(Requests) /\ ComposeGroup' \in Cards /\ UNCHANGED NowChooseCard
         /\ SyncData' \in [Status : {"NONE", "WAIT", "COMPOSE", "BAN"}, NowCtrl : Int]
         /\ BansRight' /\ BansAgainstTheOther'
         /\ SyncData'.Status = "COMPOSE" => Asked' \/ UNCHANGED <<SyncData, ComposeGroup, sent>>
<1>1. /\ Types /\ BansRight /\ BansAgainstTheOther /\ sent \in Seq(Requests) /\ ComposeGroup \in Cards
      /\ composeData \in [Teams -> Cards]
      /\ SyncData \in [Status : {"NONE", "WAIT", "COMPOSE", "BAN"}, NowCtrl : Int]
  BY DEF IInv, Types
<1>2. GroupsStay /\ UNCHANGED <<status, nowCtrl, composeData, job>>
  BY RoomStays DEF PageSteps, server
<1>3. d.Status \in {"WAIT", "COMPOSE", "BAN", "END"} /\ d.NowCtrl \in Int
  BY DEF Texts
<1>4. CASE d.Status = "WAIT"
  <2>1. /\ SyncData' = [Status |-> "WAIT", NowCtrl |-> NoTurn]
        /\ UNCHANGED <<sent, ComposeGroup, NowChooseCard>>
    BY <1>4 DEF Draw, DrawCompose, DrawBan, shown, choice
  <2>2. SyncData'.Status = "WAIT"
    BY <2>1
  <2> QED  BY <1>1, <2>1, <2>2 DEF BansRight, BansAgainstTheOther
<1>5. CASE d.Status = "COMPOSE"
  <2>1. /\ SyncData' = [Status |-> "COMPOSE", NowCtrl |-> NoTurn]
        /\ sent' = Append(sent, [pt |-> "GET_COMPOST"])
        /\ UNCHANGED <<ComposeGroup, NowChooseCard>>
    BY <1>5 DEF Draw, DrawCompose, DrawBan, shown, choice
  <2>2. SyncData'.Status = "COMPOSE"
    BY <2>1
  <2>3. [pt |-> "GET_COMPOST"] \in Requests
    BY DEF Requests
  <2>4. sent' \in Seq(Requests) /\ Longer(sent, [pt |-> "GET_COMPOST"], sent')
    BY <1>1, <2>1, <2>3, AppendIsLonger
  <2>5. \E k \in DOMAIN sent' : sent'[k] = [pt |-> "GET_COMPOST"]
    BY <2>4 DEF Longer
  <2>6. Asked'
    BY <2>5 DEF Asked
  <2> QED  BY <1>1, <2>1, <2>2, <2>4, <2>6 DEF BansRight, BansAgainstTheOther
<1>6. CASE d.Status = "BAN"
  <2>1. /\ SyncData' = [Status |-> "BAN", NowCtrl |-> d.NowCtrl]
        /\ ComposeGroup' = d.HideCompose[d.NowCtrl]
        /\ UNCHANGED <<sent, NowChooseCard>>
    BY <1>6 DEF Draw, DrawCompose, DrawBan, Shows
  <2>2. Settled /\ d.NowCtrl \in Teams /\ d.HideCompose = HideCompose
    BY <1>6 DEF TextRight, TextFits
  <2>3. ComposeGroup' = Mask(composeData[1 - d.NowCtrl])
    BY <2>1, <2>2 DEF HideCompose
  <2>4. SyncData'.Status = "BAN" /\ SyncData'.NowCtrl = d.NowCtrl
    BY <2>1
  <2>5. ComposeGroup' \in Cards
    BY <1>1, <2>2, <2>3, MaskType
  <2>6. BansRight'
    BY <1>2, <2>2, <2>4 DEF BansRight, GroupsStay
  <2>7. BansAgainstTheOther'
    BY <1>2, <2>3, <2>4 DEF BansAgainstTheOther, Mask
  <2> QED  BY <1>1, <1>3, <2>1, <2>4, <2>5, <2>6, <2>7
<1>7. CASE d.Status = "END"
  <2>1. UNCHANGED <<sent, SyncData, ComposeGroup, NowChooseCard>>
    BY <1>7 DEF Draw, DrawCompose, DrawBan, shown, choice
  <2>2. BansRight' /\ BansAgainstTheOther'
    BY <1>1, <1>2, <2>1, TextsStay
  <2> QED  BY <1>1, <2>1, <2>2
<1> QED  BY <1>3, <1>4, <1>5, <1>6, <1>7

\* Fewer texts wait, and fewer packets are on their way, than were right.
LEMMA TextsLeft ==
  ASSUME IInv, PageSteps, socket' \in Seq(Packets), waiters' \in Seq(Texts),
         \A k \in DOMAIN socket' : \E j \in DOMAIN socket : socket'[k] = socket[j],
         \A k \in DOMAIN waiters' : TextRight(waiters'[k])
  PROVE  TextsRight'
<1>1. \A d : TextRight(d) => TextFits(d, Settled', HideCompose')
  BY RoomStays, TextsStay DEF PageSteps
<1>2. \A k \in DOMAIN socket : socket[k].pt = "SYNC" => TextRight(socket[k].data)
  BY DEF IInv, TextsRight
<1>3. ASSUME NEW k \in DOMAIN socket', socket'[k].pt = "SYNC"
      PROVE  TextFits(socket'[k].data, Settled', HideCompose')
  BY <1>1, <1>2, <1>3
<1> QED  BY <1>1, <1>3 DEF TextsRight, TextRight

\* What the threads have to write is not the page's.
LEMMA AnswersStay ==
  ASSUME PageSteps
  PROVE  /\ Answers' = Answers /\ (RanRight => RanRight')
         /\ UNCHANGED <<status, nowCtrl, composeData, linked, job, ran, overtaken>>
BY DEF PageSteps, server, room, Answers, RanRight

\* A step of the page keeps the invariant if what it shows, and asks for, is right.
LEMMA PageStep ==
  ASSUME IInv, PageSteps, socket' \in Seq(Packets), sent' \in Seq(Requests), waiters' \in Seq(Texts),
         isInit' \in BOOLEAN, late' \in BOOLEAN,
         SyncData' \in [Status : {"NONE", "WAIT", "COMPOSE", "BAN"}, NowCtrl : Int],
         ComposeGroup' \in Cards, nowGroup' \in Groups, NowChooseCard' \in Places,
         LinkRight', TextsRight', BansRight', BansAgainstTheOther', GroupsCome'
  PROVE  IInv'
<1>1. /\ UNCHANGED <<status, nowCtrl, composeData, linked, job, ran, overtaken>>
      /\ RanRight => RanRight'
  BY AnswersStay
<1>2. RoomRight => RoomRight'
  BY RoomStays DEF PageSteps
<1>3. Types'
  BY <1>1 DEF IInv, Types
<1> QED  BY <1>1, <1>2, <1>3 DEF IInv

\* The first packet of the socket is the answer to LINK_ROOM.
LEMMA LinkCallBackStep ==
  ASSUME IInv, PageSteps, UNCHANGED nowGroup, socket # <<>>, socket' = Tail(socket),
         Head(socket).pt = "LINK_ROOM", GetLinkCallBack
  PROVE  IInv'
<1>1. /\ Types /\ LinkRight /\ TextsRight /\ socket \in Seq(Packets)
  BY DEF IInv, Types
<1>2. /\ isInit' = TRUE /\ ComposeGroup' = AllGroups(NoCard)
      /\ UNCHANGED <<sent, SyncData, NowChooseCard, waiters, late>>
  BY DEF GetLinkCallBack, choice
<1>3. /\ socket' \in Seq(Packets) /\ 1 \in DOMAIN socket /\ Head(socket) = socket[1]
      /\ \A i \in DOMAIN socket' : i + 1 \in DOMAIN socket /\ socket'[i] = socket[i + 1] /\ i + 1 # 1
  BY <1>1, TailIsShorter
<1>4. linked = "answered" /\ ~isInit /\ SyncData = NoSync
      /\ \A i \in DOMAIN socket' : ~IsLink(i)'
  BY <1>1, <1>3 DEF LinkRight, IsLink
<1>5. linked' = linked
  BY AnswersStay
<1>6. LinkRight'
  BY <1>2, <1>4, <1>5 DEF LinkRight
<1>7. TextsRight'
  BY <1>1, <1>2, <1>3, TextsLeft DEF Types, TextsRight
<1>8. BansRight' /\ BansAgainstTheOther' /\ GroupsCome'
  BY <1>2, <1>4 DEF BansRight, BansAgainstTheOther, GroupsCome, NoSync
<1>9. ComposeGroup' \in Cards
  BY <1>2 DEF AllGroups, NoCard, Cards
<1> QED  BY <1>1, <1>2, <1>3, <1>6, <1>7, <1>8, <1>9, PageStep DEF Types

\* The rest of the socket has no answer to LINK_ROOM that was not there.
LEMMA LinkLeft ==
  ASSUME IInv, PageSteps, socket # <<>>, socket' = Tail(socket), UNCHANGED isInit,
         isInit \/ UNCHANGED SyncData
  PROVE  LinkRight'
<1>1. /\ LinkRight /\ socket \in Seq(Packets)
  BY DEF IInv, Types
<1>2. /\ socket' \in Seq(Packets)
      /\ \A i \in DOMAIN socket' : i + 1 \in DOMAIN socket /\ socket'[i] = socket[i + 1]
      /\ Shorter(socket, Head(socket), socket')
  BY <1>1, TailIsShorter
<1>3. \A i \in DOMAIN socket' : i \in Nat
  BY <1>2 DEF Shorter
<1>4. linked' = linked
  BY AnswersStay
<1>5. \A j, k \in DOMAIN socket' : IsLink(j)' /\ IsLink(k)' => j = k
  <2> SUFFICES ASSUME NEW j \in DOMAIN socket', NEW k \in DOMAIN socket', IsLink(j)', IsLink(k)'
               PROVE  j = k
    OBVIOUS
  <2>1. j + 1 = k + 1
    BY <1>1, <1>2 DEF LinkRight, IsLink
  <2> QED  BY <1>3, <2>1
<1> QED  BY <1>1, <1>2, <1>4, <1>5 DEF LinkRight, IsLink

\* The first packet is a text, which is drawn, or has to wait.
LEMMA SyncCallBackStep ==
  ASSUME IInv, PageSteps, UNCHANGED nowGroup, socket # <<>>, socket' = Tail(socket),
         NEW d, d = Head(socket).data, Head(socket).pt = "SYNC", SyncCallBack(d)
  PROVE  IInv'
<1>1. /\ Types /\ LinkRight /\ TextsRight /\ BansRight /\ BansAgainstTheOther /\ GroupsCome
      /\ socket \in Seq(Packets) /\ waiters \in Seq(Texts)
  BY DEF IInv, Types
<1>2. /\ socket' \in Seq(Packets) /\ 1 \in DOMAIN socket /\ Head(socket) = socket[1]
      /\ Head(socket) \in Packets /\ Shorter(socket, Head(socket), socket')
      /\ \A i \in DOMAIN socket' : i + 1 \in DOMAIN socket /\ socket'[i] = socket[i + 1]
  BY <1>1, TailIsShorter
<1>3. d \in Texts /\ TextRight(d)
  <2>1. Head(socket) \in [pt : {"SYNC"}, data : Texts]
    BY <1>2 DEF Packets, Replies, Changes
  <2> QED  BY <1>1, <1>2, <2>1 DEF TextsRight
<1>4. CASE isInit /\ Draw(d) /\ UNCHANGED <<isInit, waiters, late>>
  <2>1. /\ sent' \in Seq(Requests) /\ ComposeGroup' \in Cards /\ UNCHANGED NowChooseCard
        /\ SyncData' \in [Status : {"NONE", "WAIT", "COMPOSE", "BAN"}, NowCtrl : Int]
        /\ BansRight' /\ BansAgainstTheOther'
        /\ SyncData'.Status = "COMPOSE" => Asked' \/ UNCHANGED <<SyncData, ComposeGroup, sent>>
    BY <1>3, <1>4, DrawStep
  <2>2. LinkRight'
    BY <1>4, LinkLeft
  <2>3. TextsRight'
    BY <1>1, <1>2, <1>4, TextsLeft DEF TextsRight
  <2>4. GroupsCome'
    <3> SUFFICES ASSUME SyncData'.Status = "COMPOSE", ~overtaken', ~Asked',
                        NEW g \in Groups, NEW p \in Places, NEW v, v = composeData'[myTeam][g][p]
                 PROVE  Comes(g, p, v)'
      BY DEF GroupsCome
    <3>1. UNCHANGED <<SyncData, ComposeGroup, sent, composeData, job, overtaken>>
      BY <2>1, AnswersStay
    <3>2. Comes(g, p, v)
      BY <1>1, <3>1 DEF GroupsCome, Asked
    <3>3. PICK x : x = Head(socket)
      OBVIOUS
    <3>4. ~Touches(x, g, p) /\ Shorter(socket, x, socket') /\ Answers' = Answers
      BY <1>2, <3>3, AnswersStay DEF Touches
    <3> QED  BY <3>1, <3>2, <3>4, TakenComes
  <2> QED  BY <1>1, <1>2, <1>4, <2>1, <2>2, <2>3, <2>4, PageStep DEF Types
<1>5. CASE /\ ~isInit /\ waiters' = Append(waiters, d)
           /\ UNCHANGED <<isInit, sent, SyncData, shown, choice, gone, late>>
  <2>1. UNCHANGED <<ComposeGroup, NowChooseCard>>
    BY <1>5 DEF shown, choice
  <2>2. LinkRight'
    BY <1>5, LinkLeft
  <2>3. waiters' \in Seq(Texts) /\ \A k \in DOMAIN waiters' : TextRight(waiters'[k])
    <3>1. /\ waiters' \in Seq(Texts)
          /\ \A k \in DOMAIN waiters' : waiters'[k] = d \/ \E j \in DOMAIN waiters : waiters'[k] = waiters[j]
      BY <1>1, <1>3, <1>5, AppendIsLonger
    <3> QED  BY <1>1, <1>3, <3>1 DEF TextsRight
  <2>4. TextsRight'
    BY <1>2, <2>3, TextsLeft
  <2>5. SyncData' = NoSync
    BY <1>1, <1>5 DEF LinkRight
  <2>6. BansRight' /\ BansAgainstTheOther' /\ GroupsCome'
    BY <2>5 DEF BansRight, BansAgainstTheOther, GroupsCome, NoSync
  <2> QED  BY <1>1, <1>2, <1>5, <2>1, <2>2, <2>3, <2>4, <2>6, PageStep DEF Types
<1> QED  BY <1>4, <1>5 DEF SyncCallBack

\* The first packet is an answer of a thread.
LEMMA AnsweredStep ==
  ASSUME IInv, PageSteps, UNCHANGED nowGroup, socket # <<>>, socket' = Tail(socket),
         NEW x, x = Head(socket),
         (x.pt = "COMPOSE" /\ rCompose(x)) \/ (x.pt = "GET_COMPOST" /\ rGetCompose(x))
  PROVE  IInv'
<1>1. /\ Types /\ LinkRight /\ TextsRight /\ BansRight /\ BansAgainstTheOther /\ GroupsCome
      /\ socket \in Seq(Packets) /\ ComposeGroup \in Cards /\ late \in BOOLEAN
  BY DEF IInv, Types
<1>2. /\ socket' \in Seq(Packets) /\ x \in Packets /\ Shorter(socket, x, socket')
      /\ \A i \in DOMAIN socket' : i + 1 \in DOMAIN socket /\ socket'[i] = socket[i + 1]
  BY <1>1, TailIsShorter
<1>3. x \in Replies
  BY <1>2 DEF Packets
<1>4. /\ UNCHANGED <<isInit, sent, SyncData, NowChooseCard, waiters>>
      /\ late' = (late \/ SyncData.Status = "BAN")
  BY DEF rCompose, rGetCompose, Answered, choice
<1>5. /\ ComposeGroup' \in Cards
      /\ \A g \in Groups, p \in Places :
           ComposeGroup'[g][p] = IF Touches(x, g, p) THEN Value(x, g, p) ELSE ComposeGroup[g][p]
  <2>1. CASE x.pt = "COMPOSE" /\ rCompose(x)
    <3>1. ComposeGroup' = [ComposeGroup EXCEPT ![x.group][x.no] = x.choose]
      BY <2>1 DEF rCompose, Answered, Shows
    <3>2. x \in Changes
      BY <1>3, <2>1 DEF Replies
    <3>3. x.group \in Groups /\ x.no \in Places /\ x.choose \in Card
      BY <3>2 DEF Changes
    <3>4. x.choose \in Int
      <4>1. \A c \in Card : c \in Int
        OBVIOUS
      <4> QED  BY <3>3, <4>1
    <3>5. /\ ComposeGroup' \in Cards
          /\ \A g \in Groups, p \in Places :
               ComposeGroup'[g][p] = IF g = x.group /\ p = x.no THEN x.choose ELSE ComposeGroup[g][p]
      BY <1>1, <3>1, <3>3, <3>4 DEF Cards
    <3>6. \A g, p : /\ Touches(x, g, p) <=> g = x.group /\ p = x.no
                    /\ Value(x, g, p) = x.choose
      BY <2>1 DEF Touches, Value
    <3> QED  BY <3>5, <3>6
  <2>2. CASE x.pt = "GET_COMPOST" /\ rGetCompose(x)
    <3>1. ComposeGroup' = x.pick
      BY <2>2 DEF rGetCompose, Answered, Shows
    <3>2. x.pick \in Cards
      BY <1>3, <2>2 DEF Replies, Changes
    <3> QED  BY <2>2, <3>1, <3>2 DEF Touches, Value
  <2> QED  BY <2>1, <2>2
<1>6. LinkRight'
  BY <1>4, LinkLeft
<1>7. TextsRight'
  BY <1>1, <1>2, <1>4, TextsLeft DEF TextsRight, Types
<1>8. BansRight' /\ BansAgainstTheOther'
  <2>1. GroupsStay
    BY RoomStays DEF PageSteps
  <2> QED  BY <1>1, <1>4, <2>1 DEF BansRight, BansAgainstTheOther, GroupsStay
<1>9. GroupsCome'
  <2> SUFFICES ASSUME SyncData.Status = "COMPOSE", ~overtaken, ~Asked,
                      NEW g \in Groups, NEW p \in Places, NEW v, v = composeData[myTeam][g][p]
               PROVE  Comes(g, p, v)'
    BY <1>4, AnswersStay DEF GroupsCome, Asked
  <2>1. Comes(g, p, v) /\ Answers' = Answers
    BY <1>1, AnswersStay DEF GroupsCome
  <2> QED  BY <1>2, <1>5, <2>1, TakenComes
<1> QED  BY <1>1, <1>2, <1>4, <1>5, <1>6, <1>7, <1>8, <1>9, PageStep DEF Types

\* The packet at the front of the socket arrives.
LEMMA OnMessageStep == ASSUME IInv, onmessage  PROVE IInv'
<1>0. PICK x, d : x = Head(socket) /\ d = Head(socket).data
  OBVIOUS
<1>1. PageSteps /\ UNCHANGED nowGroup /\ socket # <<>> /\ socket' = Tail(socket)
  BY DEF onmessage, PageSteps
<1>2. \/ x.pt = "LINK_ROOM" /\ GetLinkCallBack
      \/ x.pt = "SYNC" /\ SyncCallBack(d)
      \/ x.pt = "COMPOSE" /\ rCompose(x)
      \/ x.pt = "GET_COMPOST" /\ rGetCompose(x)
  BY <1>0 DEF onmessage
<1>3. CASE x.pt = "LINK_ROOM" /\ GetLinkCallBack
  BY <1>0, <1>1, <1>3, LinkCallBackStep
<1>4. CASE x.pt = "SYNC" /\ SyncCallBack(d)
  BY <1>0, <1>1, <1>4, SyncCallBackStep
<1>5. CASE (x.pt = "COMPOSE" /\ rCompose(x)) \/ (x.pt = "GET_COMPOST" /\ rGetCompose(x))
  BY <1>0, <1>1, <1>5, AnsweredStep
<1> QED  BY <1>2, <1>3, <1>4, <1>5

\* What the page does without a packet leaves the channel to it as it is.
LEMMA ChannelStays ==
  ASSUME IInv, PageSteps, UNCHANGED <<socket, isInit>>, isInit \/ UNCHANGED SyncData
  PROVE  /\ LinkRight'
         /\ UNCHANGED <<SyncData, ComposeGroup>> /\ (Asked => Asked') => GroupsCome'
<1>1. /\ UNCHANGED <<composeData, linked, job, overtaken>> /\ Answers' = Answers
      /\ LinkRight /\ GroupsCome
  BY AnswersStay DEF IInv
<1>2. LinkRight'
  BY <1>1 DEF LinkRight, IsLink
<1>3. ASSUME UNCHANGED <<SyncData, ComposeGroup>>, Asked => Asked'
      PROVE  GroupsCome'
  BY <1>1, <1>3 DEF GroupsCome, Comes
<1> QED  BY <1>2, <1>3

\* A text that waited is drawn.
LEMMA WaitStep == ASSUME IInv, Wait  PROVE IInv'
<1>1. /\ Types /\ TextsRight /\ waiters \in Seq(Texts) /\ PageSteps
      /\ isInit /\ UNCHANGED <<socket, isInit, nowGroup, late>>
  BY DEF IInv, Types, Wait, PageSteps
<1>2. PICK k \in DOMAIN waiters : Draw(waiters[k]) /\ waiters' = RemoveAt(waiters, k)
  BY DEF Wait
<1>3. PICK d : d = waiters[k]
  OBVIOUS
<1>4. DOMAIN waiters = 1 .. Len(waiters) /\ Len(waiters) \in Nat /\ d \in Texts /\ TextRight(d)
  BY <1>1, <1>3, LenProperties, ElementOfSeq DEF TextsRight
<1>5. /\ sent' \in Seq(Requests) /\ ComposeGroup' \in Cards /\ UNCHANGED NowChooseCard
      /\ SyncData' \in [Status : {"NONE", "WAIT", "COMPOSE", "BAN"}, NowCtrl : Int]
      /\ BansRight' /\ BansAgainstTheOther'
      /\ SyncData'.Status = "COMPOSE" => Asked' \/ UNCHANGED <<SyncData, ComposeGroup, sent>>
  BY <1>1, <1>2, <1>3, <1>4, DrawStep
<1>6. waiters' \in Seq(Texts) /\ \A i \in DOMAIN waiters' : TextRight(waiters'[i])
  <2>1. /\ RemoveAt(waiters, k) \in Seq(Texts) /\ Len(RemoveAt(waiters, k)) = Len(waiters) - 1
        /\ \A i \in 1 .. Len(waiters) - 1 :
             RemoveAt(waiters, k)[i] = waiters[IF i < k THEN i ELSE i + 1]
    BY <1>1, <1>2, <1>4, RemoveAtProperties
  <2>2. waiters' \in Seq(Texts) /\ DOMAIN waiters' = 1 .. Len(waiters) - 1
    BY <1>2, <2>1, LenProperties
  <2>3. \A i \in DOMAIN waiters' : (IF i < k THEN i ELSE i + 1) \in DOMAIN waiters
    BY <1>4, <2>2
  <2> QED  BY <1>1, <1>2, <2>1, <2>2, <2>3 DEF TextsRight
<1>7. LinkRight'
  BY <1>1, ChannelStays
<1>8. TextsRight'
  BY <1>1, <1>6, TextsLeft DEF Types
<1>9. GroupsCome'
  <2>1. CASE UNCHANGED <<SyncData, ComposeGroup, sent>>
    <3>1. Asked => Asked'
      BY <1>1, <2>1, AnswersStay DEF Asked
    <3> QED  BY <1>1, <2>1, <3>1, ChannelStays
  <2>2. CASE SyncData'.Status = "COMPOSE" => Asked'
    BY <2>2 DEF GroupsCome
  <2> QED  BY <1>5, <2>1, <2>2
<1> QED  BY <1>1, <1>5, <1>6, <1>7, <1>8, <1>9, PageStep DEF Types

\* A click changes none of what is shown of the room; it may send a card.
LEMMA ClickStep ==
  ASSUME IInv, \/ \E p \in Places : ShowChooseBox(p)
               \/ \E c \in Card : SetChooseCardData(c)
               \/ \E next \in {-1, 1} : SwitchGroup(next)
  PROVE  IInv'
<1>1. /\ Types /\ sent \in Seq(Requests) /\ TextsRight /\ BansRight /\ BansAgainstTheOther
      /\ nowGroup \in Groups /\ NowChooseCard \in Places /\ socket \in Seq(Packets)
  BY DEF IInv, Types
<1>2. /\ PageSteps /\ UNCHANGED <<socket, isInit, SyncData, ComposeGroup, waiters, late>>
  BY DEF ShowChooseBox, SetChooseCardData, SwitchGroup, PageSteps, shown
<1>3. sent' \in Seq(Requests) /\ (Asked => Asked')
  <2>1. CASE UNCHANGED sent
    BY <1>1, <1>2, <2>1, AnswersStay DEF Asked
  <2>2. CASE \E c \in Card : SetChooseCardData(c)
    <3>1. PICK c \in Card :
            sent' = Append(sent, [pt |-> "COMPOSE", choose |-> c, group |-> nowGroup, no |-> NowChooseCard])
      BY <2>2 DEF SetChooseCardData
    <3>2. PICK x : x = [pt |-> "COMPOSE", choose |-> c, group |-> nowGroup, no |-> NowChooseCard]
      OBVIOUS
    <3>3. x \in Requests
      BY <1>1, <3>2 DEF Requests, Changes
    <3>4. sent' \in Seq(Requests) /\ Longer(sent, x, sent')
      BY <1>1, <3>1, <3>2, <3>3, AppendIsLonger
    <3>5. \A k \in DOMAIN sent : k \in DOMAIN sent' /\ sent'[k] = sent[k]
      BY <3>4 DEF Longer
    <3>6. job' = job
      BY <1>2, AnswersStay
    <3> QED  BY <3>4, <3>5, <3>6 DEF Asked
  <2> QED  BY <2>1, <2>2 DEF ShowChooseBox, SwitchGroup
<1>4. nowGroup' \in Groups /\ NowChooseCard' \in Places
  <2>1. CASE \E p \in Places : ShowChooseBox(p)
    BY <1>1, <2>1 DEF ShowChooseBox
  <2>2. CASE \E c \in Card : SetChooseCardData(c)
    BY <1>1, <2>2 DEF SetChooseCardData
  <2>3. CASE \E next \in {-1, 1} : SwitchGroup(next)
    <3>1. PICK next \in {-1, 1} : nowGroup' = (nowGroup + next) % composeCount /\ UNCHANGED choice
      BY <2>3 DEF SwitchGroup
    <3>2. nowGroup + next \in Int /\ composeCount \in Nat \ {0}
      BY <1>1 DEF Groups
    <3>3. (nowGroup + next) % composeCount \in 0 .. composeCount - 1
      BY <3>2
    <3> QED  BY <1>1, <3>1, <3>3 DEF Groups, choice
  <2> QED  BY <2>1, <2>2, <2>3
<1>5. LinkRight' /\ GroupsCome'
  BY <1>2, <1>3, ChannelStays
<1>6. TextsRight'
  BY <1>1, <1>2, TextsLeft DEF TextsRight, Types
<1>7. BansRight' /\ BansAgainstTheOther'
  <2>1. GroupsStay
    BY <1>2, RoomStays DEF PageSteps
  <2> QED  BY <1>1, <1>2, <2>1, TextsStay
<1> QED  BY <1>1, <1>2, <1>3, <1>4, <1>5, <1>6, <1>7, PageStep DEF Types

-----------------------------------------------------------------------------
(* The theorems. *)

\* At the beginning nothing is on its way, and nothing is shown.
LEMMA InitRight == Init => IInv
<1> SUFFICES ASSUME Init  PROVE IInv
  OBVIOUS
<1>1. /\ status = "WAIT" /\ nowCtrl = NoTurn /\ linked = "no"
      /\ socket = <<>> /\ sent = <<>> /\ waiters = <<>> /\ ran = <<>>
      /\ job = [t \in PackThreads |-> Idle] /\ isInit = FALSE /\ late = FALSE /\ overtaken = FALSE
      /\ SyncData = NoSync /\ nowGroup = 0 /\ NowChooseCard = 0
      /\ composeData = [t \in Teams |-> AllGroups(NoCard)] /\ ComposeGroup = AllGroups(NoCard)
  BY DEF Init
<1>2. AllGroups(NoCard) \in Cards
  BY DEF AllGroups, NoCard, Cards
<1>3. /\ socket \in Seq(Packets) /\ sent \in Seq(Requests) /\ waiters \in Seq(Texts)
      /\ DOMAIN socket = {} /\ DOMAIN waiters = {}
  BY <1>1, EmptySeq
<1>4. SyncData \in [Status : {"NONE", "WAIT", "COMPOSE", "BAN"}, NowCtrl : Int] /\ SyncData.Status = "NONE"
  BY <1>1 DEF NoSync
<1>5. Types
  <2>1. nowGroup \in Groups /\ NowChooseCard \in Places
    BY <1>1 DEF Groups
  <2>2. job \in [PackThreads -> Jobs]
    BY <1>1 DEF Jobs
  <2>3. composeData \in [Teams -> Cards] /\ ComposeGroup \in Cards
    BY <1>1, <1>2
  <2>4. /\ status \in {"WAIT", "COMPOSE", "BAN", "END"} /\ nowCtrl \in Int
        /\ linked \in {"no", "listed", "answered"}
        /\ isInit \in BOOLEAN /\ late \in BOOLEAN /\ overtaken \in BOOLEAN
    <3>1. status \in {"WAIT", "COMPOSE", "BAN", "END"} /\ linked \in {"no", "listed", "answered"}
      BY <1>1
    <3>2. nowCtrl \in Int
      BY <1>1
    <3>3. isInit \in BOOLEAN /\ late \in BOOLEAN /\ overtaken \in BOOLEAN
      BY <1>1, Zenon
    <3> QED  BY <3>1, <3>2, <3>3
  <2> QED  BY <1>3, <1>4, <2>1, <2>2, <2>3, <2>4 DEF Types
<1>6. RanRight
  <2>1. ran \in Seq(PackThreads) /\ DOMAIN ran = {}
    BY <1>1, EmptySeq
  <2> QED  BY <2>1 DEF RanRight
<1> QED  BY <1>1, <1>3, <1>4, <1>5, <1>6
         DEF IInv, RoomRight, LinkRight, TextsRight, BansRight, BansAgainstTheOther, GroupsCome

\* Whatever the two threads and the sockets do: each text of the bans has the groups
\* as they stay, and each place of the composing captain is as the server has it, or
\* the answer that will make it so is on its way.
THEOREM Invariance == Spec => []IInv
<1>1. IInv /\ [Next]_vars => IInv'
  <2> SUFFICES ASSUME IInv, [Next]_vars  PROVE IInv'
    OBVIOUS
  <2>1. CASE SetStatus \/ PlayerAdd \/ OtherCompose \/ LinkRoom
    <3>1. CASE linked = "listed" /\ LinkRoom
      BY <3>1, AnswerLinkStep
    <3>2. CASE SetStatus \/ PlayerAdd \/ OtherCompose \/ (linked = "no" /\ LinkRoom)
      BY <3>2, RoomSteps
    <3> QED  BY <2>1, <3>1, <3>2 DEF LinkRoom
  <2>2. CASE \E t \in PackThreads : Take(t) \/ Run(t) \/ Write(t)
    BY <2>2, TakeStep, ComposeStep, GetComposeStep, WriteStep DEF Run
  <2>3. CASE onmessage
    BY <2>3, OnMessageStep
  <2>4. CASE Wait
    BY <2>4, WaitStep
  <2>5. CASE \/ \E p \in Places : ShowChooseBox(p)
             \/ \E c \in Card : SetChooseCardData(c)
             \/ \E next \in {-1, 1} : SwitchGroup(next)
    BY <2>5, ClickStep
  <2>6. CASE UNCHANGED vars
    <3>1. PageSteps /\ UNCHANGED <<socket, sent, isInit, SyncData, ComposeGroup, nowGroup>>
          /\ UNCHANGED <<NowChooseCard, waiters, late>>
      BY <2>6 DEF vars, PageSteps, page, shown, choice
    <3>2. LinkRight' /\ GroupsCome'
      BY <3>1, AnswersStay, ChannelStays DEF Asked
    <3>3. TextsRight'
      BY <3>1, TextsLeft DEF IInv, Types, TextsRight
    <3>4. BansRight' /\ BansAgainstTheOther'
      BY <3>1, RoomStays, TextsStay DEF PageSteps, IInv
    <3> QED  BY <3>1, <3>2, <3>3, <3>4, PageStep DEF IInv, Types
  <2> QED  BY <2>1, <2>2, <2>3, <2>4, <2>5, <2>6 DEF Next
<1> QED  BY <1>1, InitRight, PTL DEF Spec

\* With every request answered, and no two answers exchanged, the composing captain
\* sees the groups that the server has.
THEOREM GroupsAreTrue == Spec => []GroupsTrue
<1>1. IInv => GroupsTrue
  <2> SUFFICES ASSUME IInv, SyncData.Status = "COMPOSE", ~Outstanding, ~overtaken
               PROVE  ComposeGroup = composeData[myTeam]
    BY DEF GroupsTrue
  <2>1. /\ Types /\ RanRight /\ GroupsCome /\ composeData \in [Teams -> Cards] /\ ComposeGroup \in Cards
        /\ job \in [PackThreads -> Jobs]
    BY DEF IInv, Types
  <2>2. /\ sent = <<>> /\ \A t \in PackThreads : job[t] = Idle
        /\ \A k \in DOMAIN socket : socket[k].pt \notin {"COMPOSE", "GET_COMPOST"}
    BY DEF Outstanding, Busy
  <2>3. DOMAIN sent = {} /\ \A t \in PackThreads : job[t].pt = "none"
    BY <2>2 DEF Idle
  <2>4. DOMAIN ran = {}
    BY <2>1, <2>3, ElementOfSeq, LenProperties DEF RanRight
  <2>5. \A g, p : Leaves(socket, g, p) /\ Leaves(Answers, g, p)
    BY <2>2, <2>4 DEF Leaves, Touches, Answers
  <2>6. ~Asked
    BY <2>3 DEF Asked
  <2>7. \A g \in Groups, p \in Places : Comes(g, p, composeData[myTeam][g][p])
    BY <2>1, <2>6 DEF GroupsCome
  <2>8. \A g \in Groups, p \in Places : ComposeGroup[g][p] = composeData[myTeam][g][p]
    BY <2>5, <2>7 DEF Comes, Sets, Leaves
  <2>9. composeData[myTeam] \in Cards
    BY <2>1
  <2>10. ASSUME NEW g \in Groups  PROVE ComposeGroup[g] = composeData[myTeam][g]
    <3>1. ComposeGroup[g] \in [Places -> Int] /\ composeData[myTeam][g] \in [Places -> Int]
      BY <2>1, <2>9 DEF Cards
    <3>2. \A p \in Places : ComposeGroup[g][p] = composeData[myTeam][g][p]
      BY <2>8
    <3> QED  BY ONLY <3>1, <3>2, SameFunction
  <2>11. /\ ComposeGroup \in [Groups -> [Places -> Int]]
         /\ composeData[myTeam] \in [Groups -> [Places -> Int]]
    BY <2>1, <2>9 DEF Cards
  <2> QED  BY ONLY <2>10, <2>11, SameFunction
<1> QED  BY <1>1, Invariance, PTL

\* In the bans the page shows the masked groups of the team that is banned from, in
\* whatever order texts and answers are drawn, unless an answer came late.
THEOREM BansAreAgainstTheOther == Spec => []BansAgainstTheOther
<1>1. IInv => BansAgainstTheOther
  BY DEF IInv
<1> QED  BY <1>1, Invariance, PTL
=============================================================================
