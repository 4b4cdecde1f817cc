---------------------------- MODULE ClientProofs ----------------------------
(***************************************************************************)
(* Theorems about a browser on its way from the form to the result, for    *)
(* any names, any number of groups and any bound on what is on its way.    *)
(*                                                                         *)
(* The argument: every packet but a READY, a CHOOSE or a text is the       *)
(* question or the answer of one conversation, which a page begins once,   *)
(* so that there is one of them on its way at most (OneTalk) and it is of  *)
(* the page that is open (AsksRight, AnswersRight); so the one room that   *)
(* was made is the one that every later address and request is about       *)
(* (AddressRight), and a captain who is linked leaves the page for the     *)
(* result only.                                                            *)
(***************************************************************************)
EXTENDS Client, SequenceTheorems, FiniteSetTheorems, TLAPS

Texts == [Status : {"WAIT", "COMPOSE", "BAN", "END"}, NowCtrl : Teams \cup {Missing},
          BanList : [Teams -> Groups \cup {NoBan}], Ready : SUBSET Teams]

\* The packets to the server, and those to the page.
UpPackets ==
  [pt : {"LOGIN", "GET_DATA", "LINKED"}] \cup [pt : {"GET_DATA"}, gameType : {2}]
    \cup [pt : {"CREATE_ROOM"}, names : [Teams -> STRING]]
    \cup [pt : {"LINK_ROOM"}, key : Nat, team : Teams \cup {Nobody},
          pass : (Nat \X Teams) \cup {NoPass}]
    \cup [pt : {"READY"}, team : Teams]
    \cup [pt : {"CHOOSE"}, choose : Groups, shown : Teams \X Groups]
DownPackets ==
  [pt : {"LOGIN", "GET_DATA"}] \cup [pt : {"GET_DATA"}, gameType : {2}]
    \cup [pt : {"LINK_ROOM"}, resCode : {0, 1}]
    \cup [pt : {"CREATE_ROOM"}, key : Nat, names : [Teams -> STRING], pass : [Teams -> Nat \X Teams]]
    \cup [pt : {"SYNC"}, data : Texts]

\* The conversation that a page begins when it is opened, or the form.
Talk == {"LOGIN", "GET_DATA", "CREATE_ROOM", "LINK_ROOM", "LINKED"}
Talks(channel, k) == channel[k].pt \in Talk

\* There is one packet of it on its way at most.
Single(u, d) == /\ \A j, k \in DOMAIN u : Talks(u, j) /\ Talks(u, k) => j = k
                /\ \A j, k \in DOMAIN d : Talks(d, j) /\ Talks(d, k) => j = k
                /\ \A j \in DOMAIN u, k \in DOMAIN d : ~(Talks(u, j) /\ Talks(d, k))

\* The room, as the clock and the captains leave it.
RoomRight ==
  /\ status \in {"WAIT", "COMPOSE", "BAN", "END"} /\ nowCtrl \in Teams \cup {Missing}
  /\ banData \in [Teams -> Groups \cup {NoBan}] /\ ready \subseteq Teams
  /\ status = "BAN" => nowCtrl \in Teams /\ (nowCtrl = 1 => banData[0] # NoBan)
  /\ status = "END" => \A t \in Teams : banData[t] # NoBan

\* A text of the end has the bans as they stay.
TextRight(d) == d \in Texts /\ (d.Status = "END" => status = "END" /\ d.BanList = banData)

PageRight ==
  /\ start \in {"load", "poll", "login", "open"} /\ conn \in {"none", "connecting", "open", "closed"}
  /\ start = "load" => conn = "none"
  /\ waiters \in Seq(Texts) /\ \A k \in DOMAIN waiters : TextRight(waiters[k])
  /\ SyncData = NoSync \/ SyncData \in Texts
  /\ nowGroup \in Groups
  /\ isClick \in BOOLEAN /\ (isClick => start = "open" /\ href.page = 0)
  /\ conn = "closed" => up = <<>> /\ down = <<>> /\ member = Missing

\* There is one room at most; what was made is what the address is about.
Pass == [t \in Teams |-> <<made, t>>]
Address(url, text) ==
  /\ url.page \in {Missing, 0, 1, 2, 3}
  /\ made = 0 => url.page \in {Missing, 0}
  /\ url.page = 1 => url.key = made /\ url.names = names /\ url.pass = Pass
  /\ url.page \in {2, 3} =>
       /\ url.key = made /\ url.team \in Teams \cup {Nobody}
       /\ url.pass = IF url.team \in Teams THEN <<made, url.team>> ELSE NoPass
  /\ url.page = 2 /\ url.team \in Teams => text = names[url.team]
  /\ url.page = 3 => url.team = Nobody
AddressRight ==
  /\ made \in {0, 1} /\ (made = 0 => ~told /\ ~inTable)
  /\ Address(href, label)
  /\ href.page \in {Missing, 0} /\ ~told /\ ~isClick => made = 0

\* Who is linked is on the page of the link.
MemberRight ==
  member # Missing => start = "open" /\ href.page \in {2, 3} /\ member = href.team

\* A refusal is told only after the room has left the table.
RefusalRight == told => ~inTable /\ start = "load" /\ href.page = 0

\* The captain's last ban stands, and nobody else can change it.
ChoiceRight ==
  meant # NoGroup =>
    /\ href.page \in {2, 3} \/ told
    /\ \E t \in Teams :
         /\ meant = <<1 - t, banData[t]>> /\ banData[t] # NoBan
         /\ status = "END" \/ conn = "closed" \/ (member = t /\ href.page = 2)

RowsRight == rows # NoRows => /\ status = "END" /\ href.page = 3
                              /\ rows = [t \in Teams |-> {group \in Groups : group # banData[1 - t]}]

\* A packet from the page is of the page that is open, and of its address.
AsksRight(q) ==
  /\ q.pt = "LOGIN" => start = "login"
  /\ q.pt = "CREATE_ROOM" => start = "open" /\ href.page = 0 /\ isClick /\ made = 0
  /\ q.pt \in {"GET_DATA", "LINK_ROOM", "LINKED"} => start = "open" /\ href.page \in {2, 3}
  /\ q.pt = "LINK_ROOM" => q.key = href.key /\ q.team = href.team /\ q.pass = href.pass
  /\ q.pt = "CHOOSE" => href.page = 2 /\ href.team \in Teams /\ q.shown = <<1 - href.team, q.choose>>
  /\ member # Missing => q.pt \notin {"LOGIN", "GET_DATA", "CREATE_ROOM", "LINK_ROOM"}

\* A packet to the page is too; and it tells of the room what is true.
AnswersRight(q) ==
  /\ q.pt = "LOGIN" => start = "login"
  /\ q.pt = "CREATE_ROOM" => /\ start = "open" /\ href.page = 0 /\ isClick
                             /\ made = 1 /\ q.key = made /\ q.names = names /\ q.pass = Pass
  /\ q.pt \in {"GET_DATA", "LINK_ROOM", "LINKED"} => start = "open" /\ href.page \in {2, 3}
  /\ q.pt = "LINK_ROOM" /\ q.resCode = 1 => ~inTable /\ member = Missing
  /\ q.pt = "SYNC" => TextRight(q.data)
  /\ member # Missing => q.pt \notin {"LOGIN", "GET_DATA", "CREATE_ROOM", "LINKED"}

OneTalk == /\ up \in Seq(UpPackets) /\ down \in Seq(DownPackets) /\ Single(up, down)
           /\ \A k \in DOMAIN up : AsksRight(up[k])
           /\ \A k \in DOMAIN down : AnswersRight(down[k])

PageInv == /\ RoomRight /\ PageRight /\ AddressRight /\ MemberRight
           /\ RefusalRight /\ ChoiceRight /\ RowsRight
IInv    == PageInv /\ OneTalk

USE ClientsAssumption, TypedAssumption, CountAssumption DEF Teams, Groups, Nobody, Missing, NoBan

-----------------------------------------------------------------------------
(* What taking one entry out of a list leaves; SequencesExt defines        *)
(* RemoveAt, which the library's theorems do not mention.                  *)

\* Without entry k: the entries before it stay, those after it move down by one.
LEMMA RemoveAtProperties ==
  ASSUME NEW S, NEW s \in Seq(S), NEW k \in 1 .. Len(s)
  PROVE  /\ RemoveAt(s, k) \in Seq(S)
         /\ Len(RemoveAt(s, k)) = Len(s) - 1
         /\ \A i \in 1 .. Len(s) - 1 : RemoveAt(s, k)[i] = s[IF i < k THEN i ELSE i + 1]
<1> DEFINE a == SubSeq(s, 1, k - 1)
           b == SubSeq(s, k + 1, Len(s))
<1>1. Len(s) \in Nat /\ k \in 1 .. Len(s) /\ \A i \in 1 .. Len(s) : s[i] \in S
  BY ElementOfSeq, LenProperties
<1>2. a \in Seq(S) /\ Len(a) = k - 1 /\ \A i \in 1 .. k - 1 : a[i] = s[i]
  BY <1>1
<1>3. b \in Seq(S) /\ Len(b) = Len(s) - k /\ \A i \in 1 .. Len(s) - k : b[i] = s[k + i]
  BY <1>1
<1>4. RemoveAt(s, k) = a \o b
  BY DEF RemoveAt
<1> HIDE DEF a, b
<1>5. /\ a \o b \in Seq(S) /\ Len(a \o b) = Len(a) + Len(b)
      /\ \A i \in 1 .. Len(a) + Len(b) :
           (a \o b)[i] = IF i <= Len(a) THEN a[i] ELSE b[i - Len(a)]
  BY ONLY <1>2, <1>3, ConcatProperties
<1>6. \A i \in 1 .. Len(s) - 1 : (a \o b)[i] = IF i < k THEN a[i] ELSE b[i - (k - 1)]
  BY ONLY <1>1, <1>2, <1>3, <1>5
<1>7. ASSUME NEW i \in 1 .. Len(s) - 1
      PROVE  (a \o b)[i] = s[IF i < k THEN i ELSE i + 1]
  <2>1. CASE i < k
    BY ONLY <1>1, <1>2, <1>6, <2>1
  <2>2. CASE ~(i < k)
    <3>1. i - (k - 1) \in 1 .. Len(s) - k /\ k + (i - (k - 1)) = i + 1
      BY ONLY <1>1, <2>2
    <3> QED  BY ONLY <1>3, <1>6, <2>2, <3>1
  <2> QED  BY <2>1, <2>2
<1> QED  BY <1>1, <1>2, <1>3, <1>4, <1>5, <1>7

-----------------------------------------------------------------------------
(* Channels. *)

\* Channel r is channel c without what was at the places D, and with a packet of P at
\* place n, perhaps; the packet at place k was at place f[k].
BecomesBy(f, n, c, D, P, r) ==
  /\ \A k \in DOMAIN r : IF k = n THEN r[k] \in P
                         ELSE f[k] \in DOMAIN c \ D /\ r[k] = c[f[k]]
  /\ \A j, k \in DOMAIN r \ {n} : f[j] = f[k] => j = k
Becomes(c, D, P, r) == \E f, n : BecomesBy(f, n, c, D, P, r)

\* Nothing is done to it.
LEMMA BecomesSame == ASSUME NEW S, NEW c \in Seq(S), NEW P  PROVE Becomes(c, {}, P, c)
<1> DEFINE f == [k \in DOMAIN c |-> k]
<1>1. 0 \notin DOMAIN c
  BY LenProperties
<1>2. \A k \in DOMAIN c : f[k] = k
  OBVIOUS
<1> HIDE DEF f
<1>3. BecomesBy(f, 0, c, {}, P, c)
  BY <1>1, <1>2 DEF BecomesBy
<1> QED  BY <1>3 DEF Becomes

\* It is empty.
LEMMA BecomesEmpty == ASSUME NEW c, NEW D, NEW P  PROVE Becomes(c, D, P, <<>>)
<1>1. \A f : BecomesBy(f, 0, c, D, P, <<>>)
  BY DEF BecomesBy
<1> QED  BY <1>1 DEF Becomes

\* A packet is put at its end.
LEMMA BecomesLonger ==
  ASSUME NEW S, NEW c \in Seq(S), NEW p \in S
  PROVE  Append(c, p) \in Seq(S) /\ Becomes(c, {}, {p}, Append(c, p))
<1> DEFINE r == Append(c, p)
           n == Len(c) + 1
           f == [k \in DOMAIN r |-> k]
<1>1. /\ r \in Seq(S) /\ Len(r) = n /\ r[n] = p
      /\ \A i \in 1 .. Len(c) : r[i] = c[i]
  BY AppendProperties
<1> HIDE DEF r
<1>2. DOMAIN c = 1 .. Len(c) /\ DOMAIN r = 1 .. n /\ n \in Nat /\ Len(c) \in Nat
  BY <1>1, LenProperties
<1>3. \A k \in DOMAIN r : f[k] = k /\ (k # n => k \in DOMAIN c /\ r[k] = c[k])
  BY <1>1, <1>2
<1> HIDE DEF f, n
<1>4. BecomesBy(f, n, c, {}, {p}, r)
  BY <1>1, <1>3 DEF BecomesBy
<1> QED  BY <1>1, <1>4 DEF r, Becomes

\* One is taken out.
LEMMA BecomesShorter ==
  ASSUME NEW S, NEW c \in Seq(S), NEW i \in DOMAIN c
  PROVE  RemoveAt(c, i) \in Seq(S) /\ Becomes(c, {i}, {}, RemoveAt(c, i))
<1>1. DOMAIN c = 1 .. Len(c) /\ Len(c) \in Nat /\ i \in 1 .. Len(c)
  BY LenProperties
<1>2. PICK r : r = RemoveAt(c, i)
  OBVIOUS
<1>3. /\ r \in Seq(S) /\ Len(r) = Len(c) - 1
      /\ \A k \in 1 .. Len(c) - 1 : r[k] = c[IF k < i THEN k ELSE k + 1]
  <2>1. i \in 1 .. Len(c)
    BY <1>1
  <2>2. /\ RemoveAt(c, i) \in Seq(S) /\ Len(RemoveAt(c, i)) = Len(c) - 1
        /\ \A k \in 1 .. Len(c) - 1 : RemoveAt(c, i)[k] = c[IF k < i THEN k ELSE k + 1]
    BY ONLY <2>1, RemoveAtProperties, c \in Seq(S)
  <2> QED  BY <1>2, <2>2
<1>4. DOMAIN r = 1 .. Len(c) - 1
  BY <1>3, LenProperties
<1> DEFINE f == [k \in DOMAIN r |-> IF k < i THEN k ELSE k + 1]
<1>5. \A k \in DOMAIN r : f[k] = IF k < i THEN k ELSE k + 1
  OBVIOUS
<1> HIDE DEF f
<1>6. \A k \in DOMAIN r : f[k] \in DOMAIN c \ {i} /\ r[k] = c[f[k]]
  BY <1>1, <1>3, <1>4, <1>5
<1>7. \A j, k \in DOMAIN r : f[j] = f[k] => j = k
  BY <1>1, <1>4, <1>5
<1>8. 0 \notin DOMAIN r
  BY <1>4
<1>9. BecomesBy(f, 0, c, {i}, {}, r)
  BY <1>6, <1>7, <1>8 DEF BecomesBy
<1> QED  BY <1>2, <1>3, <1>9 DEF Becomes

\* The first is taken out.
LEMMA BecomesTail ==
  ASSUME NEW S, NEW c \in Seq(S), c # <<>>
  PROVE  1 \in DOMAIN c /\ Head(c) = c[1] /\ Tail(c) \in Seq(S) /\ Becomes(c, {1}, {}, Tail(c))
<1>1. Len(c) \in Nat \ {0} /\ DOMAIN c = 1 .. Len(c)
  BY EmptySeq, LenProperties
<1>2. SubSeq(c, 1, 1 - 1) = <<>>
  BY SubSeqEmpty, 1 \in Int, 0 \in Int
<1>3. Tail(c) = SubSeq(c, 2, Len(c)) /\ Tail(c) \in Seq(S)
  BY TailIsSubSeq, HeadTailProperties
<1>4. <<>> \o SubSeq(c, 2, Len(c)) = Tail(c)
  BY <1>3, ConcatEmptySeq
<1>5. RemoveAt(c, 1) = <<>> \o SubSeq(c, 2, Len(c))
  BY <1>2 DEF RemoveAt
<1>6. Head(c) = c[1]
  OBVIOUS
<1>7. 1 \in DOMAIN c
  BY <1>1
<1>8. Becomes(c, {1}, {}, RemoveAt(c, 1))
  BY <1>7, BecomesShorter
<1> QED  BY <1>3, <1>4, <1>5, <1>6, <1>7, <1>8

\* One is exchanged for another.
LEMMA BecomesOther ==
  ASSUME NEW S, NEW c \in Seq(S), NEW i \in DOMAIN c, NEW p \in S
  PROVE  [c EXCEPT ![i] = p] \in Seq(S) /\ Becomes(c, {i}, {p}, [c EXCEPT ![i] = p])
<1> DEFINE r == [c EXCEPT ![i] = p]
           f == [k \in DOMAIN r |-> k]
<1>1. DOMAIN c = 1 .. Len(c) /\ i \in 1 .. Len(c)
  BY LenProperties
<1>2. r \in Seq(S)
  BY <1>1, ExceptSeq
<1>3. DOMAIN r = DOMAIN c /\ r[i] = p /\ \A k \in DOMAIN c \ {i} : r[k] = c[k]
  OBVIOUS
<1>4. \A k \in DOMAIN r : f[k] = k
  OBVIOUS
<1> HIDE DEF r, f
<1>5. BecomesBy(f, i, c, {i}, {p}, r)
  BY <1>3, <1>4 DEF BecomesBy
<1> QED  BY <1>2, <1>5 DEF r, Becomes

\* What is in a channel was in it before, or has been put there.
LEMMA Comes ==
  ASSUME NEW c, NEW D, NEW P, NEW r, Becomes(c, D, P, r), NEW k \in DOMAIN r
  PROVE  r[k] \in P \/ \E j \in DOMAIN c \ D : r[k] = c[j]
<1>1. PICK f, n : BecomesBy(f, n, c, D, P, r)
  BY DEF Becomes
<1> QED  BY <1>1 DEF BecomesBy

\* There still is one packet of the conversation at most, if one is only put there
\* when there is no other.
LEMMA SingleOn ==
  ASSUME NEW u, NEW d, Single(u, d), NEW v, NEW e,
         NEW D, NEW P, Becomes(u, D, P, v), NEW E, NEW Q, Becomes(d, E, Q, e),
         \A p \in P, q \in Q : ~(p.pt \in Talk /\ q.pt \in Talk),
         \/ \A p \in P \cup Q : p.pt \notin Talk
         \/ /\ \A k \in DOMAIN u \ D : ~Talks(u, k)
            /\ \A k \in DOMAIN d \ E : ~Talks(d, k)
  PROVE  Single(v, e)
<1>1. PICK f, m : BecomesBy(f, m, u, D, P, v)
  BY DEF Becomes
<1>2. PICK g, n : BecomesBy(g, n, d, E, Q, e)
  BY DEF Becomes
<1>3. CASE \A p \in P \cup Q : p.pt \notin Talk
  <2>1. \A k \in DOMAIN v : Talks(v, k) => k # m /\ f[k] \in DOMAIN u /\ Talks(u, f[k])
    BY <1>1, <1>3 DEF Talks, BecomesBy
  <2>2. \A k \in DOMAIN e : Talks(e, k) => k # n /\ g[k] \in DOMAIN d /\ Talks(d, g[k])
    BY <1>2, <1>3 DEF Talks, BecomesBy
  <2> QED  BY <1>1, <1>2, <2>1, <2>2 DEF Single, BecomesBy
<1>4. CASE /\ \A k \in DOMAIN u \ D : ~Talks(u, k)
           /\ \A k \in DOMAIN d \ E : ~Talks(d, k)
  <2>1. \A k \in DOMAIN v : Talks(v, k) => k = m /\ v[k] \in P /\ v[k].pt \in Talk
    BY <1>1, <1>4 DEF Talks, BecomesBy
  <2>2. \A k \in DOMAIN e : Talks(e, k) => k = n /\ e[k] \in Q /\ e[k].pt \in Talk
    BY <1>2, <1>4 DEF Talks, BecomesBy
  <2> QED  BY <2>1, <2>2 DEF Single
<1> QED  BY <1>3, <1>4

-----------------------------------------------------------------------------
(* What is on its way. *)

\* Nothing of the conversation is in a channel, but at the places D.
Quiet(c, D) == \A k \in DOMAIN c \ D : ~Talks(c, k)

\* A question is alone.
LEMMA AskAlone ==
  ASSUME OneTalk, NEW k \in DOMAIN up, up[k].pt \in Talk
  PROVE  Quiet(up, {k}) /\ Quiet(down, {})
BY DEF OneTalk, Single, Quiet, Talks

\* So is an answer.
LEMMA AnswerAlone ==
  ASSUME OneTalk, NEW k \in DOMAIN down, down[k].pt \in Talk
  PROVE  Quiet(up, {}) /\ Quiet(down, {k})
BY DEF OneTalk, Single, Quiet, Talks

\* A page has not begun before it has logged in, or before the button of the form.
LEMMA NotBegun ==
  ASSUME OneTalk, start \in {"load", "poll"} \/ (start = "open" /\ href.page = 0 /\ ~isClick)
  PROVE  Quiet(up, {}) /\ Quiet(down, {})
<1>1. ASSUME NEW k \in DOMAIN up  PROVE up[k].pt \notin Talk
  <2>1. AsksRight(up[k])  BY DEF OneTalk
  <2> QED  BY <2>1 DEF AsksRight, Talk
<1>2. ASSUME NEW k \in DOMAIN down  PROVE down[k].pt \notin Talk
  <2>1. AnswersRight(down[k])  BY DEF OneTalk
  <2> QED  BY <2>1 DEF AnswersRight, Talk
<1> QED  BY <1>1, <1>2 DEF Quiet, Talks

\* The bans stay after the end.
Frozen == status = "END" => UNCHANGED <<status, banData>>

\* What the packets say stays right, while the page is the same and the bans stay, if
\* the conversation goes on or nothing is changed that it is about.
LEMMA PacketsOn ==
  ASSUME OneTalk, UNCHANGED href, Frozen,
         NEW D, NEW P, up' \in Seq(UpPackets), Becomes(up, D, P, up'),
         NEW E, NEW Q, down' \in Seq(DownPackets), Becomes(down, E, Q, down'),
         \A p \in P : AsksRight(p)', \A q \in Q : AnswersRight(q)',
         \A p \in P, q \in Q : ~(p.pt \in Talk /\ q.pt \in Talk),
         \/ Quiet(up, D) /\ Quiet(down, E)
         \/ /\ \A p \in P \cup Q : p.pt \notin Talk
            /\ UNCHANGED <<start, isClick, made, names, member>> /\ (inTable' => inTable)
  PROVE  OneTalk'
<1>1. Single(up', down')
  BY SingleOn DEF OneTalk, Quiet
<1>2. ASSUME NEW q, AsksRight(q),
             q.pt \notin Talk \/ UNCHANGED <<start, isClick, made, member>>
      PROVE  AsksRight(q)'
  <2>1. CASE q.pt \notin Talk  BY <1>2, <2>1 DEF AsksRight, Talk
  <2>2. CASE UNCHANGED <<start, isClick, made, member>>  BY <1>2, <2>2 DEF AsksRight
  <2> QED  BY <1>2, <2>1, <2>2
<1>3. ASSUME NEW q, AnswersRight(q),
             q.pt \notin Talk \/ (UNCHANGED <<start, isClick, made, names, member>> /\ (inTable' => inTable))
      PROVE  AnswersRight(q)'
  <2>1. TextRight(q.data) => TextRight(q.data)'
    BY DEF TextRight, Frozen, Texts
  <2>2. CASE q.pt \notin Talk  BY <1>3, <2>1, <2>2 DEF AnswersRight, Talk
  <2>3. CASE UNCHANGED <<start, isClick, made, names, member>> /\ (inTable' => inTable)
    BY <1>3, <2>1, <2>3 DEF AnswersRight, Pass
  <2> QED  BY <1>3, <2>2, <2>3
<1>4. ASSUME NEW k \in DOMAIN up'  PROVE AsksRight(up[k])'
  <2>0. PICK q : q = up'[k]
    OBVIOUS
  <2>1. q \in P \/ \E j \in DOMAIN up \ D : q = up[j]
    BY <2>0, Comes
  <2>2. ASSUME NEW j \in DOMAIN up \ D
        PROVE  /\ AsksRight(up[j])
               /\ up[j].pt \notin Talk \/ UNCHANGED <<start, isClick, made, member>>
    BY <2>2 DEF OneTalk, Quiet, Talks
  <2>3. AsksRight(q)'
    BY <1>2, <2>1, <2>2
  <2> QED  BY <2>0, <2>3 DEF AsksRight
<1>5. ASSUME NEW k \in DOMAIN down'  PROVE AnswersRight(down[k])'
  <2>0. PICK q : q = down'[k]
    OBVIOUS
  <2>1. q \in Q \/ \E j \in DOMAIN down \ E : q = down[j]
    BY <2>0, Comes
  <2>2. ASSUME NEW j \in DOMAIN down \ E
        PROVE  /\ AnswersRight(down[j])
               /\ \/ down[j].pt \notin Talk
                  \/ UNCHANGED <<start, isClick, made, names, member>> /\ (inTable' => inTable)
    BY <2>2 DEF OneTalk, Quiet, Talks
  <2>3. AnswersRight(q)'
    BY <1>3, <2>1, <2>2
  <2> QED  BY <2>0, <2>3 DEF AnswersRight, TextRight, Pass
<1> QED  BY <1>1, <1>4, <1>5 DEF OneTalk

\* The page is told the room as it is, if it is told at all.
LEMMA Broadcast ==
  ASSUME OneTalk, RoomRight', NEW m, broadcast(m)
  PROVE  \E q : /\ q.pt = "SYNC" /\ AnswersRight(q)' /\ down' \in Seq(DownPackets)
                /\ Becomes(down, {}, {q}, down')
<1>1. PICK q : q = [pt |-> "SYNC", data |-> Text']
  OBVIOUS
<1>2. /\ Text' \in Texts
      /\ Text'.Status = "END" => status' = "END" /\ Text'.BanList = banData'
  BY DEF Text, Texts, RoomRight
<1>3. q \in DownPackets /\ q.pt = "SYNC" /\ AnswersRight(q)'
  <2>1. q.pt = "SYNC" /\ q.data = Text'
    BY <1>1
  <2>2. q \in DownPackets
    BY <1>1, <1>2 DEF DownPackets
  <2> QED  BY <1>2, <2>1, <2>2 DEF AnswersRight, TextRight
<1>4. down' = IF m = Missing THEN down ELSE Append(down, q)
  BY <1>1 DEF broadcast
<1>5. down \in Seq(DownPackets) /\ Append(down, q) \in Seq(DownPackets)
      /\ Becomes(down, {}, {q}, down) /\ Becomes(down, {}, {q}, Append(down, q))
  BY <1>3, BecomesSame, BecomesLonger DEF OneTalk
<1> QED  BY <1>3, <1>4, <1>5

\* What waits stays right.
LEMMA WaitersOn ==
  ASSUME PageRight, Frozen, waiters' \in Seq(Texts),
         NEW D, NEW P, Becomes(waiters, D, P, waiters'), \A d \in P : TextRight(d)
  PROVE  \A k \in DOMAIN waiters' : TextRight(waiters[k])'
<1>1. \A d : TextRight(d) => TextRight(d)'
  BY DEF TextRight, Frozen, Texts
<1> SUFFICES ASSUME NEW k \in DOMAIN waiters'  PROVE TextRight(waiters[k])'
  OBVIOUS
<1>2. PICK d : d = waiters'[k]
  OBVIOUS
<1>3. d \in P \/ \E j \in DOMAIN waiters \ D : d = waiters[j]
  BY <1>2, Comes
<1>4. TextRight(d)'
  BY <1>1, <1>3 DEF PageRight
<1> QED  BY <1>2, <1>4 DEF TextRight

-----------------------------------------------------------------------------
(* The room, its clock and its captains. *)

\* Of a captain who has banned, the ban stays.
Stands == \A t \in Teams : banData[t] # NoBan => banData'[t] = banData[t]

\* The turn of the clock.
LEMMA ClockRoom ==
  ASSUME RoomRight, SetStatus, UNCHANGED ready
  PROVE  RoomRight' /\ Frozen /\ Stands
<1>1. CASE status = "COMPOSE" /\ status' = "BAN" /\ nowCtrl' = 0 /\ UNCHANGED banData
  BY <1>1 DEF RoomRight, Frozen, Stands
<1>2. CASE /\ status = "BAN"
           /\ banData' = [banData EXCEPT ![nowCtrl] = IF @ = NoBan THEN 0 ELSE @]
           /\ nowCtrl' = 1 - nowCtrl
           /\ status' = IF nowCtrl = 0 THEN "BAN" ELSE "END"
  <2>1. nowCtrl \in Teams /\ banData \in [Teams -> Groups \cup {NoBan}]
        /\ (nowCtrl = 1 => banData[0] # NoBan)
    BY <1>2 DEF RoomRight
  <2>2. /\ banData' \in [Teams -> Groups \cup {NoBan}] /\ banData'[nowCtrl] # NoBan
        /\ \A t \in Teams : t # nowCtrl \/ banData[t] # NoBan => banData'[t] = banData[t]
    BY <1>2, <2>1
  <2> QED  BY <1>2, <2>1, <2>2 DEF RoomRight, Frozen, Stands
<1> QED  BY <1>1, <1>2 DEF SetStatus

\* A captain is ready.
LEMMA ReadyRoom ==
  ASSUME RoomRight, NEW team \in Teams, Ready(team)
  PROVE  /\ RoomRight' /\ Frozen /\ Stands /\ status # "END"
         /\ UNCHANGED <<made, names, inTable>> /\ broadcast(member)
BY DEF Ready, RoomRight, Frozen, Stands

\* A captain bans, in the captain's turn.
LEMMA ChooseRoom ==
  ASSUME RoomRight, NEW team, NEW group \in Groups, Choose(team, group)
  PROVE  /\ RoomRight' /\ Frozen /\ status = "BAN" /\ team \in Teams /\ status' = "BAN"
         /\ banData'[team] = group /\ \A t \in Teams : t # team => banData'[t] = banData[t]
         /\ UNCHANGED <<made, names, inTable>> /\ broadcast(member)
<1>1. /\ status = "BAN" /\ team = nowCtrl
      /\ banData' = [banData EXCEPT ![team] = group]
      /\ UNCHANGED <<made, names, inTable, status, ready, nowCtrl>> /\ broadcast(member)
  BY DEF Choose
<1>2. team \in Teams /\ banData \in [Teams -> Groups \cup {NoBan}]
  BY <1>1 DEF RoomRight
<1>3. /\ banData' \in [Teams -> Groups \cup {NoBan}] /\ banData'[team] = group
      /\ \A t \in Teams : t # team => banData'[t] = banData[t]
  BY <1>1, <1>2
<1> QED  BY <1>1, <1>2, <1>3 DEF RoomRight, Frozen

\* The page stays as it is.
LEMMA PageStays ==
  ASSUME PageInv, RoomRight', Frozen, inTable' => inTable, ChoiceRight',
         UNCHANGED <<made, names, member, tab, label, told>>, conn # "closed" \/ UNCHANGED <<up, down>>
  PROVE  PageInv'
<1> USE DEF tab, view
<1>1. PageRight'
  <2>1. Becomes(waiters, {}, {}, waiters')
    BY BecomesSame DEF PageInv, PageRight
  <2>2. \A k \in DOMAIN waiters' : TextRight(waiters[k])'
    BY <2>1, WaitersOn DEF PageInv, PageRight
  <2> QED  BY <2>2 DEF PageInv, PageRight
<1>2. AddressRight' /\ MemberRight' /\ RefusalRight'
  BY DEF PageInv, AddressRight, Address, Pass, MemberRight, RefusalRight
<1>3. RowsRight'
  BY DEF PageInv, RowsRight, Frozen
<1> QED  BY <1>1, <1>2, <1>3 DEF PageInv

\* The captain's choice stands, when no ban is undone.
LEMMA ChoiceStands ==
  ASSUME ChoiceRight, Stands, status = "END" => status' = "END",
         UNCHANGED <<meant, told, member, href, conn>>
  PROVE  ChoiceRight'
BY DEF ChoiceRight, Stands

\* The clock's step.
LEMMA ClockStep == ASSUME IInv, Clock  PROVE IInv'
<1>1. /\ conn # "closed" /\ SetStatus /\ broadcast(member)
      /\ UNCHANGED <<made, names, inTable, ready, member, tab, up, label, meant, told>>
  BY DEF Clock, history
<1>2. RoomRight' /\ Frozen /\ Stands
  BY <1>1, ClockRoom DEF IInv, PageInv
<1>3. ChoiceRight'
  BY <1>1, <1>2, ChoiceStands DEF IInv, PageInv, Frozen, tab
<1>4. PageInv'
  BY <1>1, <1>2, <1>3, PageStays DEF IInv
<1>5. PICK q : /\ q.pt = "SYNC" /\ AnswersRight(q)' /\ down' \in Seq(DownPackets)
               /\ Becomes(down, {}, {q}, down')
  BY <1>1, <1>2, Broadcast DEF IInv
<1>6. Becomes(up, {}, {}, up') /\ up' \in Seq(UpPackets)
  BY <1>1, BecomesSame DEF IInv, OneTalk
<1>7. OneTalk'
  BY <1>1, <1>2, <1>5, <1>6, PacketsOn DEF IInv, Talk, tab, view
<1> QED  BY <1>4, <1>7 DEF IInv

\* The room leaves the table.
LEMMA ExpireStep == ASSUME IInv, Expire  PROVE IInv'
<1>1. /\ inTable' = FALSE
      /\ UNCHANGED <<made, names, status, ready, nowCtrl, banData, member, tab, up, down,
                     label, meant, told>>
  BY DEF Expire, history
<1>2. RoomRight' /\ Frozen /\ ChoiceRight'
  BY <1>1 DEF IInv, PageInv, RoomRight, Frozen, ChoiceRight, tab
<1>3. PageInv'
  BY <1>1, <1>2, PageStays DEF IInv
<1>4. /\ Becomes(up, {}, {}, up') /\ up' \in Seq(UpPackets)
      /\ Becomes(down, {}, {}, down') /\ down' \in Seq(DownPackets)
  BY <1>1, BecomesSame DEF IInv, OneTalk
<1>5. OneTalk'
  BY <1>1, <1>2, <1>4, PacketsOn DEF IInv, tab, view
<1> QED  BY <1>3, <1>5 DEF IInv

\* A step of the other captain, or of other pages.
LEMMA OtherStep == ASSUME IInv, Other  PROVE IInv'
<1>1. /\ conn # "closed"
      /\ UNCHANGED <<member, tab, up, label, meant, told>>
      /\ \/ \E t \in Teams \ {member} : Ready(t) \/ \E g \in Groups : Choose(t, g)
         \/ UNCHANGED room /\ broadcast(member)
  BY DEF Other, history
<1>2. /\ RoomRight' /\ Frozen /\ ChoiceRight' /\ UNCHANGED <<made, names, inTable>>
      /\ broadcast(member)
  <2>1. ASSUME NEW t \in Teams \ {member}, Ready(t)
        PROVE  /\ RoomRight' /\ Frozen /\ ChoiceRight' /\ UNCHANGED <<made, names, inTable>>
               /\ broadcast(member)
    <3>1. /\ RoomRight' /\ Frozen /\ Stands /\ status # "END"
          /\ UNCHANGED <<made, names, inTable>> /\ broadcast(member)
      BY <2>1, ReadyRoom DEF IInv, PageInv
    <3>2. ChoiceRight'
      BY <1>1, <3>1, ChoiceStands DEF IInv, PageInv, tab
    <3> QED  BY <3>1, <3>2
  <2>2. ASSUME NEW t \in Teams \ {member}, NEW g \in Groups, Choose(t, g)
        PROVE  /\ RoomRight' /\ Frozen /\ ChoiceRight' /\ UNCHANGED <<made, names, inTable>>
               /\ broadcast(member)
    <3>1. /\ RoomRight' /\ Frozen /\ status = "BAN" /\ status' = "BAN"
          /\ \A s \in Teams : s # t => banData'[s] = banData[s]
          /\ UNCHANGED <<made, names, inTable>> /\ broadcast(member)
      BY <2>2, ChooseRoom DEF IInv, PageInv
    <3>2. ASSUME meant # NoGroup
          PROVE  \E s \in Teams : /\ meant = <<1 - s, banData[s]>> /\ banData[s] # NoBan
                                  /\ member = s /\ href.page = 2
      BY <1>1, <3>1, <3>2 DEF IInv, PageInv, ChoiceRight
    <3>3. ChoiceRight'
      BY <1>1, <2>2, <3>1, <3>2 DEF ChoiceRight, tab
    <3> QED  BY <3>1, <3>3
  <2>3. CASE UNCHANGED room /\ broadcast(member)
    BY <1>1, <2>3 DEF IInv, PageInv, room, RoomRight, Frozen, ChoiceRight, tab
  <2> QED  BY <1>1, <2>1, <2>2, <2>3
<1>3. PageInv'
  BY <1>1, <1>2, PageStays DEF IInv
<1>4. PICK q : /\ q.pt = "SYNC" /\ AnswersRight(q)' /\ down' \in Seq(DownPackets)
               /\ Becomes(down, {}, {q}, down')
  BY <1>2, Broadcast DEF IInv
<1>5. Becomes(up, {}, {}, up') /\ up' \in Seq(UpPackets)
  BY <1>1, BecomesSame DEF IInv, OneTalk
<1>6. OneTalk'
  BY <1>1, <1>2, <1>4, <1>5, PacketsOn DEF IInv, Talk, tab, view
<1> QED  BY <1>3, <1>6 DEF IInv

-----------------------------------------------------------------------------
(* The server. *)

\* A packet is answered, or dropped, and nothing else is done.
LEMMA Answered ==
  ASSUME IInv, NEW k \in DOMAIN up, UNCHANGED <<made, names, status, ready, nowCtrl, banData,
           inTable, member, tab, label, meant, told>>,
         up' \in Seq(UpPackets), Becomes(up, {k}, {}, up'),
         NEW a, AnswersRight(a)', down' \in Seq(DownPackets),
         (Becomes(down, {}, {a}, down') /\ up[k].pt \in Talk) \/ Becomes(down, {}, {}, down')
  PROVE  IInv'
<1>1. RoomRight' /\ Frozen /\ ChoiceRight'
  BY DEF IInv, PageInv, RoomRight, Frozen, ChoiceRight, tab
<1>2. conn # "closed"
  BY DEF IInv, PageInv, PageRight
<1>3. PageInv'
  BY <1>1, <1>2, PageStays DEF IInv
<1>4. CASE Becomes(down, {}, {a}, down') /\ up[k].pt \in Talk
  <2>1. Quiet(up, {k}) /\ Quiet(down, {})
    BY <1>4, AskAlone DEF IInv
  <2>2. OneTalk'
    BY <1>1, <1>4, <2>1, PacketsOn DEF IInv, tab
  <2> QED  BY <1>3, <2>2 DEF IInv
<1>5. CASE Becomes(down, {}, {}, down')
  <2>1. OneTalk'
    BY <1>1, <1>5, PacketsOn DEF IInv, tab, view
  <2> QED  BY <1>3, <2>1 DEF IInv
<1> QED  BY <1>4, <1>5

\* The answers to a login, to the request for the cards, and to a link.
LEMMA AnswerStep ==
  ASSUME IInv, NEW k \in DOMAIN up, up' = RemoveAt(up, k), NEW a, down' = Append(down, a) \/ UNCHANGED down,
         UNCHANGED <<room, member, tab, label, meant, told>>,
         \/ up[k].pt = "LOGIN" /\ a = up[k]
         \/ up[k].pt = "GET_DATA" /\ a = [pt |-> "GET_DATA"]
         \/ up[k].pt = "LINKED" /\ a = [pt |-> "LINK_ROOM", resCode |-> 0]
         \/ up[k].pt = "LINK_ROOM" /\ ~Allowed(up[k]) /\ a = [pt |-> "LINK_ROOM", resCode |-> 1]
  PROVE  IInv'
<1>1. up' \in Seq(UpPackets) /\ Becomes(up, {k}, {}, up')
  BY BecomesShorter DEF IInv, OneTalk
<1>2. AsksRight(up[k]) /\ up[k] \in UpPackets
  BY ElementOfSeq, LenProperties DEF IInv, OneTalk
<1>3. up[k].pt \in Talk
  BY DEF Talk
<1>4. ASSUME up[k].pt = "LINK_ROOM", ~Allowed(up[k])  PROVE ~inTable /\ member = Missing
  BY <1>2, <1>4 DEF AsksRight, Allowed, IInv, PageInv, AddressRight, Address
<1>5. a \in DownPackets /\ AnswersRight(a)'
  <2>1. CASE up[k].pt = "LOGIN" /\ a = up[k]
    <3>1. a \in DownPackets  BY <1>2, <2>1 DEF UpPackets, DownPackets
    <3> QED  BY <1>2, <2>1, <3>1 DEF AsksRight, AnswersRight, tab
  <2>2. CASE up[k].pt = "GET_DATA" /\ a = [pt |-> "GET_DATA"]
    <3>1. a \in DownPackets /\ a.pt = "GET_DATA"  BY <2>2 DEF DownPackets
    <3> QED  BY <1>2, <2>2, <3>1 DEF AsksRight, AnswersRight, tab
  <2>3. CASE up[k].pt = "LINKED" /\ a = [pt |-> "LINK_ROOM", resCode |-> 0]
    <3>1. a \in DownPackets /\ a.pt = "LINK_ROOM" /\ a.resCode = 0  BY <2>3 DEF DownPackets
    <3> QED  BY <1>2, <2>3, <3>1 DEF AsksRight, AnswersRight, tab
  <2>4. CASE up[k].pt = "LINK_ROOM" /\ ~Allowed(up[k]) /\ a = [pt |-> "LINK_ROOM", resCode |-> 1]
    <3>1. a \in DownPackets /\ a.pt = "LINK_ROOM" /\ a.resCode = 1  BY <2>4 DEF DownPackets
    <3> QED  BY <1>2, <1>4, <2>4, <3>1 DEF AsksRight, AnswersRight, tab, room
  <2> QED  BY <2>1, <2>2, <2>3, <2>4
<1>6. Becomes(down, {}, {a}, down') /\ down' \in Seq(DownPackets)
  <2>1. /\ down \in Seq(DownPackets) /\ Append(down, a) \in Seq(DownPackets)
        /\ Becomes(down, {}, {a}, down) /\ Becomes(down, {}, {a}, Append(down, a))
    BY <1>5, BecomesLonger, BecomesSame DEF IInv, OneTalk
  <2> QED  BY <2>1
<1> QED  BY <1>1, <1>3, <1>5, <1>6, Answered DEF room

\* A request that comes at the wrong time is dropped.
LEMMA DropStep ==
  ASSUME IInv, NEW k \in DOMAIN up, up' = RemoveAt(up, k),
         UNCHANGED <<room, down, member, tab, label, meant, told>>
  PROVE  IInv'
<1>1. up' \in Seq(UpPackets) /\ Becomes(up, {k}, {}, up')
  BY BecomesShorter DEF IInv, OneTalk
<1>2. Becomes(down, {}, {}, down') /\ down' \in Seq(DownPackets)
  BY BecomesSame DEF IInv, OneTalk
<1>3. PICK a : a = [pt |-> "NONE"]
  OBVIOUS
<1>4. AnswersRight(a)'
  BY <1>3 DEF AnswersRight
<1> QED  BY <1>1, <1>2, <1>4, Answered DEF room

\* The room is made.
LEMMA CreateStep ==
  ASSUME IInv, NEW k \in DOMAIN up, up' = RemoveAt(up, k), up[k].pt = "CREATE_ROOM",
         CreateRoomProtocol(up[k]), UNCHANGED <<member, tab, label, meant, told>>
  PROVE  IInv'
<1> USE DEF tab, view
<1>1. up' \in Seq(UpPackets) /\ Becomes(up, {k}, {}, up')
  BY BecomesShorter DEF IInv, OneTalk
<1>2. AsksRight(up[k]) /\ up[k] \in UpPackets /\ made = 0 /\ conn # "closed"
  BY ElementOfSeq, LenProperties DEF IInv, OneTalk, AsksRight, PageInv, PageRight
<1>3. up[k].names \in [Teams -> STRING]
  BY <1>2 DEF UpPackets
<1>4. /\ made' = 1 /\ names' = up[k].names /\ inTable' = TRUE
      /\ UNCHANGED <<status, ready, nowCtrl, banData>>
  BY <1>2 DEF CreateRoomProtocol
<1>5. start = "open" /\ href.page = 0 /\ isClick /\ member = Missing
  BY <1>2 DEF AsksRight
<1>6. PICK a : a = [pt |-> "CREATE_ROOM", key |-> made', names |-> names',
                    pass |-> [t \in Teams |-> <<made', t>>]]
  OBVIOUS
<1>7. a \in DownPackets /\ a.pt = "CREATE_ROOM"
  BY <1>3, <1>4, <1>6 DEF DownPackets
<1>8. AnswersRight(a)'
  BY <1>4, <1>5, <1>6, <1>7 DEF AnswersRight, Pass
<1>9. Becomes(down, {}, {a}, down') /\ down' \in Seq(DownPackets)
  <2>1. down' = Append(down, a)
    BY <1>6 DEF CreateRoomProtocol
  <2> QED  BY <1>7, <2>1, BecomesLonger DEF IInv, OneTalk
<1>10. Quiet(up, {k}) /\ Quiet(down, {})
  BY AskAlone DEF IInv, Talk
<1>11. RoomRight' /\ Frozen /\ ChoiceRight'
  BY <1>4 DEF IInv, PageInv, RoomRight, Frozen, ChoiceRight
<1>12. OneTalk'
  BY <1>1, <1>8, <1>9, <1>10, <1>11, PacketsOn DEF IInv
<1>13. PageRight'
  <2>1. Becomes(waiters, {}, {}, waiters')
    BY BecomesSame DEF IInv, PageInv, PageRight
  <2>2. \A i \in DOMAIN waiters' : TextRight(waiters[i])'
    BY <1>11, <2>1, WaitersOn DEF IInv, PageInv, PageRight
  <2> QED  BY <1>2, <2>2 DEF IInv, PageInv, PageRight
<1>14. ~told
  BY <1>5 DEF IInv, PageInv, RefusalRight
<1>15. AddressRight' /\ MemberRight' /\ RefusalRight'
  BY <1>4, <1>5, <1>14 DEF IInv, PageInv, AddressRight, Address, MemberRight, RefusalRight
<1>16. RowsRight'
  BY <1>4 DEF IInv, PageInv, RowsRight
<1> QED  BY <1>11, <1>12, <1>13, <1>15, <1>16 DEF IInv, PageInv

\* A page is listed, and the room tells it so.
LEMMA LinkStep ==
  ASSUME IInv, NEW k \in DOMAIN up, up[k].pt = "LINK_ROOM", Allowed(up[k]),
         NEW p, p.pt = "LINKED", up' \in Seq(UpPackets), Becomes(up, {k}, {p}, up'),
         member' = up[k].team, broadcast(up[k].team),
         UNCHANGED <<room, tab, label, meant, told>>
  PROVE  IInv'
<1> USE DEF tab, view, room
<1>1. AsksRight(up[k]) /\ conn # "closed"
  BY DEF IInv, OneTalk, PageInv, PageRight
<1>2. start = "open" /\ href.page \in {2, 3} /\ up[k].team = href.team /\ member = Missing
  BY <1>1 DEF AsksRight
<1>3. href.team \in Teams \cup {Nobody} /\ (href.page = 3 => href.team = Nobody)
  BY <1>2 DEF IInv, PageInv, AddressRight, Address
<1>4. RoomRight' /\ Frozen
  BY DEF IInv, PageInv, RoomRight, Frozen
<1>5. PICK q : /\ q.pt = "SYNC" /\ AnswersRight(q)' /\ down' \in Seq(DownPackets)
               /\ Becomes(down, {}, {q}, down')
  BY <1>4, Broadcast DEF IInv
<1>6. Quiet(up, {k}) /\ Quiet(down, {})
  BY AskAlone DEF IInv, Talk
<1>7. AsksRight(p)'
  BY <1>2 DEF AsksRight
<1>8. OneTalk'
  <2>1. \A x \in {p} : AsksRight(x)'
    BY <1>7
  <2>2. \A x \in {q} : AnswersRight(x)'
    BY <1>5
  <2>3. \A x \in {p}, y \in {q} : ~(x.pt \in Talk /\ y.pt \in Talk)
    BY <1>5 DEF Talk
  <2>4. OneTalk /\ UNCHANGED href
    BY DEF IInv
  <2> QED  BY <1>4, <1>5, <1>6, <2>1, <2>2, <2>3, <2>4, PacketsOn
<1>9. PageRight'
  <2>1. Becomes(waiters, {}, {}, waiters')
    BY BecomesSame DEF IInv, PageInv, PageRight
  <2>2. \A i \in DOMAIN waiters' : TextRight(waiters[i])'
    BY <1>4, <2>1, WaitersOn DEF IInv, PageInv, PageRight
  <2> QED  BY <1>1, <2>2 DEF IInv, PageInv, PageRight
<1>10. AddressRight' /\ MemberRight' /\ RefusalRight'
  BY <1>2, <1>3 DEF IInv, PageInv, AddressRight, Address, Pass, MemberRight, RefusalRight
<1>11. ChoiceRight'
  BY <1>1, <1>2, <1>3 DEF IInv, PageInv, ChoiceRight
<1>12. RowsRight'
  BY DEF IInv, PageInv, RowsRight
<1> QED  BY <1>4, <1>8, <1>9, <1>10, <1>11, <1>12 DEF IInv, PageInv

\* A captain's READY, or CHOOSE, reaches the room in time.
LEMMA CaptainStep ==
  ASSUME IInv, NEW k \in DOMAIN up, up' = RemoveAt(up, k), UNCHANGED <<member, tab, label, told>>,
         \/ up[k].pt = "READY" /\ Ready(up[k].team) /\ UNCHANGED meant
         \/ up[k].pt = "CHOOSE" /\ Choose(member, up[k].choose) /\ meant' = up[k].shown
  PROVE  IInv'
<1> USE DEF tab, view
<1>1. up' \in Seq(UpPackets) /\ Becomes(up, {k}, {}, up')
  BY BecomesShorter DEF IInv, OneTalk
<1>2. AsksRight(up[k]) /\ up[k] \in UpPackets /\ conn # "closed"
  BY ElementOfSeq, LenProperties DEF IInv, OneTalk, PageInv, PageRight
<1>3. RoomRight' /\ Frozen /\ ChoiceRight' /\ UNCHANGED <<made, names, inTable>> /\ broadcast(member)
  <2>1. CASE up[k].pt = "READY" /\ Ready(up[k].team) /\ UNCHANGED meant
    <3>1. up[k].team \in Teams
      BY <1>2, <2>1 DEF UpPackets
    <3>2. /\ RoomRight' /\ Frozen /\ Stands /\ status # "END"
          /\ UNCHANGED <<made, names, inTable>> /\ broadcast(member)
      BY <2>1, <3>1, ReadyRoom DEF IInv, PageInv
    <3>3. ChoiceRight'
      BY <2>1, <3>2, ChoiceStands DEF IInv, PageInv
    <3> QED  BY <3>2, <3>3
  <2>2. CASE up[k].pt = "CHOOSE" /\ Choose(member, up[k].choose) /\ meant' = up[k].shown
    <3>1. up[k].choose \in Groups
      BY <1>2, <2>2 DEF UpPackets
    <3>2. /\ RoomRight' /\ Frozen /\ member \in Teams /\ banData'[member] = up[k].choose
          /\ UNCHANGED <<made, names, inTable>> /\ broadcast(member)
      BY <2>2, <3>1, ChooseRoom DEF IInv, PageInv
    <3>3. /\ href.page = 2 /\ up[k].shown = <<1 - href.team, up[k].choose>> /\ member = href.team
      BY <1>2, <2>2, <3>2 DEF AsksRight, IInv, PageInv, MemberRight
    <3>4. meant' = <<1 - member, banData'[member]>> /\ banData'[member] # NoBan
      BY <2>2, <3>1, <3>2, <3>3
    <3>5. ChoiceRight'
      BY <3>2, <3>3, <3>4 DEF ChoiceRight
    <3> QED  BY <3>2, <3>5
  <2> QED  BY <2>1, <2>2
<1>4. PageInv'
  BY <1>2, <1>3, PageStays DEF IInv
<1>5. PICK q : /\ q.pt = "SYNC" /\ AnswersRight(q)' /\ down' \in Seq(DownPackets)
               /\ Becomes(down, {}, {q}, down')
  BY <1>3, Broadcast DEF IInv
<1>6. OneTalk'
  BY <1>1, <1>3, <1>5, PacketsOn DEF IInv, Talk
<1> QED  BY <1>4, <1>6 DEF IInv

\* The server handles a packet.
LEMMA ServeStep == ASSUME IInv, NEW k \in Taken, Serve(k)  PROVE IInv'
<1>1. k \in DOMAIN up
  BY DEF Taken
<1>2. UNCHANGED <<tab, label, told>>
  BY DEF Serve
<1> DEFINE Done == up' = RemoveAt(up, k)
<1>3. \/ up[k].pt = "LOGIN" /\ Done /\ down' = Append(down, up[k]) /\ UNCHANGED <<room, member, meant>>
      \/ up[k].pt = "GET_DATA" /\ Done /\ GetDataProtocol(up[k]) /\ UNCHANGED <<room, member, meant>>
      \/ up[k].pt = "CREATE_ROOM" /\ Done /\ CreateRoomProtocol(up[k]) /\ UNCHANGED <<member, meant>>
      \/ /\ up[k].pt = "LINK_ROOM" /\ Allowed(up[k])
         /\ up' = [up EXCEPT ![k] = [pt |-> "LINKED"]] /\ UNCHANGED <<room, meant>>
         /\ member' = up[k].team /\ broadcast(up[k].team)
      \/ /\ up[k].pt = "LINKED" /\ Done /\ down' = Append(down, [pt |-> "LINK_ROOM", resCode |-> 0])
         /\ UNCHANGED <<room, member, meant>>
      \/ /\ up[k].pt = "LINK_ROOM" /\ ~Allowed(up[k]) /\ Done
         /\ down' = Append(down, [pt |-> "LINK_ROOM", resCode |-> 1])
         /\ UNCHANGED <<room, member, meant>>
      \/ up[k].pt = "READY" /\ Done /\ Ready(up[k].team) /\ UNCHANGED <<member, meant>>
      \/ /\ up[k].pt = "CHOOSE" /\ Done /\ Choose(member, up[k].choose)
         /\ meant' = up[k].shown /\ UNCHANGED member
      \/ Done /\ UNCHANGED <<room, member, down, meant>>
  BY DEF Serve
<1>4. CASE up[k].pt = "LOGIN" /\ Done /\ down' = Append(down, up[k]) /\ UNCHANGED <<room, member, meant>>
  BY <1>1, <1>2, <1>4, AnswerStep
<1>5. CASE up[k].pt = "GET_DATA" /\ Done /\ GetDataProtocol(up[k]) /\ UNCHANGED <<room, member, meant>>
  BY <1>1, <1>2, <1>5, AnswerStep DEF GetDataProtocol
<1>6. CASE up[k].pt = "CREATE_ROOM" /\ Done /\ CreateRoomProtocol(up[k]) /\ UNCHANGED <<member, meant>>
  BY <1>1, <1>2, <1>6, CreateStep
<1>7. CASE /\ up[k].pt = "LINK_ROOM" /\ Allowed(up[k])
           /\ up' = [up EXCEPT ![k] = [pt |-> "LINKED"]] /\ UNCHANGED <<room, meant>>
           /\ member' = up[k].team /\ broadcast(up[k].team)
  <2>1. PICK p : p = [pt |-> "LINKED"]
    OBVIOUS
  <2>2. p \in UpPackets /\ p.pt = "LINKED"
    BY <2>1 DEF UpPackets
  <2>3. [up EXCEPT ![k] = p] \in Seq(UpPackets) /\ Becomes(up, {k}, {p}, [up EXCEPT ![k] = p])
    BY <1>1, <2>2, BecomesOther DEF IInv, OneTalk
  <2>4. up' = [up EXCEPT ![k] = p]
    BY <1>7, <2>1
  <2>5. up' \in Seq(UpPackets) /\ Becomes(up, {k}, {p}, up')
    BY <2>3, <2>4
  <2> QED  BY <1>1, <1>2, <1>7, <2>2, <2>5, LinkStep
<1>8. CASE /\ up[k].pt = "LINKED" /\ Done /\ down' = Append(down, [pt |-> "LINK_ROOM", resCode |-> 0])
           /\ UNCHANGED <<room, member, meant>>
  BY <1>1, <1>2, <1>8, AnswerStep
<1>9. CASE /\ up[k].pt = "LINK_ROOM" /\ ~Allowed(up[k]) /\ Done
           /\ down' = Append(down, [pt |-> "LINK_ROOM", resCode |-> 1])
           /\ UNCHANGED <<room, member, meant>>
  BY <1>1, <1>2, <1>9, AnswerStep
<1>10. CASE \/ up[k].pt = "READY" /\ Done /\ Ready(up[k].team) /\ UNCHANGED <<member, meant>>
            \/ /\ up[k].pt = "CHOOSE" /\ Done /\ Choose(member, up[k].choose)
               /\ meant' = up[k].shown /\ UNCHANGED member
  BY <1>1, <1>2, <1>10, CaptainStep
<1>11. CASE Done /\ UNCHANGED <<room, member, down, meant>>
  BY <1>1, <1>2, <1>11, DropStep
<1> QED  BY <1>3, <1>4, <1>5, <1>6, <1>7, <1>8, <1>9, <1>10, <1>11

-----------------------------------------------------------------------------
(* The page. *)

\* Nothing of the page is left, and its address is right.
LEMMA Leaves ==
  ASSUME IInv, NEW url, Leave(url), UNCHANGED <<room, meant>>, Address(url, label'),
         made = 0 => ~told', told' => ~inTable /\ url.page = 0,
         url.page \in {Missing, 0} /\ ~told' => made = 0,
         meant # NoGroup => status = "END" /\ (url.page \in {2, 3} \/ told')
  PROVE  IInv'
<1>1. /\ href' = url /\ start' = "load" /\ conn' = "none" /\ up' = <<>> /\ down' = <<>>
      /\ isClick' = FALSE /\ SyncData' = NoSync /\ nowGroup' = 0
      /\ waiters' = <<>> /\ rows' = NoRows /\ member' = Missing
  BY DEF Leave
<1>2. /\ UNCHANGED <<made, names, inTable, status, ready, nowCtrl, banData, meant>>
  BY DEF room
<1>3. RoomRight' /\ RowsRight' /\ MemberRight' /\ RefusalRight'
  BY <1>1, <1>2 DEF IInv, PageInv, RoomRight, RowsRight, MemberRight, RefusalRight
<1>4. \A S : <<>> \in Seq(S)
  OBVIOUS
<1>5. PageRight'
  <2>1. 0 \in Groups
    OBVIOUS
  <2>2. waiters' \in Seq(Texts) /\ DOMAIN waiters' = {}
    BY <1>1, <1>4
  <2> QED  BY <1>1, <2>1, <2>2 DEF PageRight
<1>6. AddressRight'
  BY <1>1, <1>2 DEF IInv, PageInv, AddressRight, Address, Pass
<1>7. ChoiceRight'
  BY <1>1, <1>2 DEF IInv, PageInv, ChoiceRight
<1>8. OneTalk'
  BY <1>1, <1>4 DEF OneTalk, Single
<1> QED  BY <1>3, <1>5, <1>6, <1>7, <1>8 DEF IInv, PageInv

\* The room stays as it is.
LEMMA RoomKept ==
  ASSUME RoomRight, UNCHANGED room
  PROVE  /\ RoomRight' /\ Frozen /\ UNCHANGED <<made, names, inTable, status, banData>>
         /\ \A d : TextRight(d) => TextRight(d)'
BY DEF room, RoomRight, Frozen, TextRight, Texts

\* The channels stay as they are, while the page has not begun or nothing changes.
LEMMA NothingSent ==
  ASSUME OneTalk, UNCHANGED <<href, up, down, room>>, RoomRight,
         \/ Quiet(up, {}) /\ Quiet(down, {})
         \/ UNCHANGED <<start, isClick, member>>
  PROVE  OneTalk'
<1>1. /\ Becomes(up, {}, {}, up') /\ up' \in Seq(UpPackets)
      /\ Becomes(down, {}, {}, down') /\ down' \in Seq(DownPackets)
  BY BecomesSame DEF OneTalk
<1>2. Frozen /\ UNCHANGED <<made, names, inTable>>
  BY RoomKept
<1> QED  BY <1>1, <1>2, PacketsOn

\* A page is loaded.
LEMMA LoadStep == ASSUME IInv, onLoad  PROVE IInv'
<1>1. /\ start = "load" /\ ~told /\ UNCHANGED <<client, room, label, meant, told>>
      /\ \/ href.page = Missing /\ Leave([page |-> 0])
         \/ /\ href.page # Missing /\ start' = "poll" /\ conn' = "connecting"
            /\ UNCHANGED <<href, view, up, down, member>>
  BY DEF onLoad, history
<1>2. CASE href.page = Missing /\ Leave([page |-> 0])
  <2>1. PICK url : url = [page |-> 0]
    OBVIOUS
  <2>2. Leave(url) /\ url.page = 0
    BY <1>2, <2>1
  <2>3. made = 0 /\ meant = NoGroup
    BY <1>1, <1>2 DEF IInv, PageInv, AddressRight, PageRight, ChoiceRight
  <2>4. Address(url, label')
    BY <2>2, <2>3 DEF Address
  <2> QED  BY <1>1, <2>2, <2>3, <2>4, Leaves
<1>3. CASE /\ href.page # Missing /\ start' = "poll" /\ conn' = "connecting"
           /\ UNCHANGED <<href, view, up, down, member>>
  <2> USE DEF view
  <2>1. Quiet(up, {}) /\ Quiet(down, {})
    BY <1>1, NotBegun DEF IInv
  <2>2. OneTalk'
    BY <1>1, <1>3, <2>1, NothingSent DEF IInv, PageInv
  <2>3. /\ RoomRight' /\ Frozen /\ UNCHANGED <<made, names, inTable, status, banData>>
        /\ \A d : TextRight(d) => TextRight(d)'
    BY <1>1, RoomKept DEF IInv, PageInv
  <2>4. PageRight'
    BY <1>1, <1>3, <2>3 DEF IInv, PageInv, PageRight
  <2>5. AddressRight' /\ MemberRight' /\ RefusalRight'
    BY <1>1, <1>3, <2>3 DEF IInv, PageInv, AddressRight, Address, Pass, MemberRight, RefusalRight
  <2>6. ChoiceRight' /\ RowsRight'
    BY <1>1, <1>3, <2>3 DEF IInv, PageInv, PageRight, ChoiceRight, RowsRight, MemberRight
  <2> QED  BY <2>2, <2>3, <2>4, <2>5, <2>6 DEF IInv, PageInv
<1> QED  BY <1>1, <1>2, <1>3

\* A step of the page that leaves the address, the connection and the room alone.
LEMMA PageGoesOn ==
  ASSUME IInv, UNCHANGED <<room, href, conn, member, label, meant, told>>, OneTalk',
         start' = start \/ (start # "load" /\ start' = "open"), conn = "closed" => UNCHANGED <<up, down>>,
         isClick' \in BOOLEAN, isClick => isClick', isClick' => start' = "open" /\ href.page = 0,
         waiters' \in Seq(Texts), \A k \in DOMAIN waiters' : TextRight(waiters[k])',
         SyncData' = NoSync \/ SyncData' \in Texts, nowGroup' \in Groups, RowsRight'
  PROVE  IInv'
<1>1. /\ RoomRight' /\ Frozen /\ UNCHANGED <<made, names, inTable, status, banData>>
  BY RoomKept DEF IInv, PageInv
<1>2. PageRight'
  BY DEF IInv, PageInv, PageRight
<1>3. AddressRight' /\ MemberRight' /\ RefusalRight'
  BY <1>1 DEF IInv, PageInv, AddressRight, Address, Pass, MemberRight, RefusalRight
<1>4. ChoiceRight'
  BY <1>1 DEF IInv, PageInv, ChoiceRight
<1> QED  BY <1>1, <1>2, <1>3, <1>4 DEF IInv, PageInv

\* What waits, and what is shown, is as it was.
LEMMA ViewKept ==
  ASSUME PageInv, UNCHANGED <<room, href, waiters, rows, SyncData, nowGroup>>
  PROVE  /\ waiters' \in Seq(Texts) /\ \A k \in DOMAIN waiters' : TextRight(waiters[k])'
         /\ SyncData' = NoSync \/ SyncData' \in Texts
         /\ nowGroup' \in Groups /\ RowsRight'
<1>1. /\ UNCHANGED <<status, banData>> /\ \A d : TextRight(d) => TextRight(d)'
  BY RoomKept DEF PageInv
<1> QED  BY <1>1 DEF PageInv, PageRight, RowsRight

\* The socket is open.
LEMMA OpenStep == ASSUME IInv, onopen  PROVE IInv'
<1> USE DEF view
<1>1. /\ conn = "connecting" /\ conn' = "open"
      /\ UNCHANGED <<room, member, href, start, view, up, down, label, meant, told>>
  BY DEF onopen, history
<1>2. OneTalk'
  BY <1>1, NothingSent DEF IInv, PageInv
<1>3. /\ RoomRight' /\ Frozen /\ UNCHANGED <<made, names, inTable, status, banData>>
      /\ \A d : TextRight(d) => TextRight(d)'
  BY <1>1, RoomKept DEF IInv, PageInv
<1>4. PageRight'
  BY <1>1, <1>3 DEF IInv, PageInv, PageRight
<1>5. AddressRight' /\ MemberRight' /\ RefusalRight'
  BY <1>1, <1>3 DEF IInv, PageInv, AddressRight, Address, Pass, MemberRight, RefusalRight
<1>6. ChoiceRight' /\ RowsRight'
  BY <1>1, <1>3 DEF IInv, PageInv, ChoiceRight, RowsRight
<1> QED  BY <1>2, <1>3, <1>4, <1>5, <1>6 DEF IInv, PageInv

\* The socket is lost.
LEMMA CloseStep == ASSUME IInv, onclose  PROVE IInv'
<1> USE DEF view
<1>1. /\ conn \in {"connecting", "open"} /\ conn' = "closed"
      /\ up' = <<>> /\ down' = <<>> /\ member' = Missing
      /\ UNCHANGED <<room, href, start, view, label, meant, told>>
  BY DEF onclose, history
<1>2. \A S : <<>> \in Seq(S)
  OBVIOUS
<1>3. OneTalk'
  BY <1>1, <1>2 DEF OneTalk, Single
<1>4. /\ RoomRight' /\ Frozen /\ UNCHANGED <<made, names, inTable, status, banData>>
      /\ \A d : TextRight(d) => TextRight(d)'
  BY <1>1, RoomKept DEF IInv, PageInv
<1>5. PageRight'
  BY <1>1, <1>4 DEF IInv, PageInv, PageRight
<1>6. AddressRight' /\ MemberRight' /\ RefusalRight'
  BY <1>1, <1>4 DEF IInv, PageInv, AddressRight, Address, Pass, MemberRight, RefusalRight
<1>7. ChoiceRight' /\ RowsRight'
  BY <1>1, <1>4 DEF IInv, PageInv, ChoiceRight, RowsRight
<1> QED  BY <1>3, <1>4, <1>5, <1>6, <1>7 DEF IInv, PageInv

\* What a packet to the server does to the channel.
LEMMA Sends ==
  ASSUME OneTalk, NEW p \in UpPackets, Send(p)
  PROVE  /\ up' \in Seq(UpPackets) /\ Becomes(up, {}, {p}, up')
         /\ conn = "closed" => UNCHANGED up
<1>1. /\ up \in Seq(UpPackets) /\ Append(up, p) \in Seq(UpPackets)
      /\ Becomes(up, {}, {p}, up) /\ Becomes(up, {}, {p}, Append(up, p))
  BY BecomesSame, BecomesLonger DEF OneTalk
<1>2. up' = IF conn = "open" THEN Append(up, p) ELSE up
  BY DEF Send
<1> QED  BY <1>1, <1>2

\* A packet is sent, at the beginning of the conversation or outside of it.
LEMMA SendKeeps ==
  ASSUME OneTalk, RoomRight, UNCHANGED <<room, href, down>>,
         NEW p \in UpPackets, Send(p), AsksRight(p)',
         \/ Quiet(up, {}) /\ Quiet(down, {})
         \/ p.pt \notin Talk /\ UNCHANGED <<start, isClick, member>>
  PROVE  OneTalk'
<1>1. up' \in Seq(UpPackets) /\ Becomes(up, {}, {p}, up')
  BY Sends
<1>2. Becomes(down, {}, {}, down') /\ down' \in Seq(DownPackets)
  BY BecomesSame DEF OneTalk
<1>3. Frozen /\ UNCHANGED <<made, names, inTable>>
  BY RoomKept
<1> QED  BY <1>1, <1>2, <1>3, PacketsOn

\* The page logs in.
LEMMA LoginStep == ASSUME IInv, SendLogin  PROVE IInv'
<1> USE DEF view
<1>1. PICK p : p = [pt |-> "LOGIN"]
  OBVIOUS
<1>2. p \in UpPackets /\ p.pt = "LOGIN"
  BY <1>1 DEF UpPackets
<1>3. /\ start = "poll" /\ conn = "open" /\ start' = "login" /\ Send(p)
      /\ UNCHANGED <<room, member, href, conn, view, down, label, meant, told>>
  BY <1>1 DEF SendLogin, history
<1>4. Quiet(up, {}) /\ Quiet(down, {})
  BY <1>3, NotBegun DEF IInv
<1>5. AsksRight(p)'
  BY <1>2, <1>3 DEF AsksRight, IInv, PageInv, MemberRight
<1>6. OneTalk'
  BY <1>2, <1>3, <1>4, <1>5, SendKeeps DEF IInv, PageInv
<1>7. /\ RoomRight' /\ Frozen /\ UNCHANGED <<made, names, inTable, status, banData>>
      /\ \A d : TextRight(d) => TextRight(d)'
  BY <1>3, RoomKept DEF IInv, PageInv
<1>8. PageRight'
  BY <1>3, <1>7 DEF IInv, PageInv, PageRight
<1>9. AddressRight' /\ MemberRight' /\ RefusalRight'
  BY <1>3, <1>7 DEF IInv, PageInv, AddressRight, Address, Pass, MemberRight, RefusalRight
<1>10. ChoiceRight' /\ RowsRight'
  BY <1>3, <1>7 DEF IInv, PageInv, ChoiceRight, RowsRight
<1> QED  BY <1>6, <1>7, <1>8, <1>9, <1>10 DEF IInv, PageInv

\* The button of the form.
LEMMA ClickStep == ASSUME IInv, OnClick  PROVE IInv'
<1>1. /\ start = "open" /\ href.page = 0 /\ ~isClick /\ isClick' = TRUE
      /\ \E pair \in [Teams -> STRING] : CreateRoom(pair)
      /\ UNCHANGED <<room, member, href, start, conn, SyncData, nowGroup, waiters, rows, down,
                     label, meant, told>>
  <2>1. \A typed \in Typed : typed \in [Teams -> STRING]
                             /\ [t \in Teams |-> typed[1 - t]] \in [Teams -> STRING]
    OBVIOUS
  <2>2. \A typed \in Typed : OnClickHP(typed) \/ OnClickLOLM(typed)
          => ~isClick /\ isClick' = TRUE /\ \E pair \in [Teams -> STRING] : CreateRoom(pair)
    BY <2>1 DEF OnClickHP, OnClickLOLM
  <2> QED  BY <2>2 DEF OnClick, Form, history
<1>2. PICK pair \in [Teams -> STRING] : CreateRoom(pair)
  BY <1>1
<1>3. PICK p : p = [pt |-> "CREATE_ROOM", names |-> pair]
  OBVIOUS
<1>4. p \in UpPackets /\ p.pt = "CREATE_ROOM" /\ Send(p)
  BY <1>2, <1>3 DEF UpPackets, CreateRoom
<1>5. made = 0
  BY <1>1 DEF IInv, PageInv, AddressRight, RefusalRight
<1>6. Quiet(up, {}) /\ Quiet(down, {})
  BY <1>1, NotBegun DEF IInv
<1>7. AsksRight(p)'
  BY <1>1, <1>4, <1>5 DEF AsksRight, IInv, PageInv, MemberRight, room
<1>8. OneTalk'
  BY <1>1, <1>4, <1>6, <1>7, SendKeeps DEF IInv, PageInv
<1>9. conn = "closed" => UNCHANGED <<up, down>>
  BY <1>1, <1>4, Sends DEF IInv
<1> QED  BY <1>1, <1>8, <1>9, ViewKept, PageGoesOn DEF IInv

\* A link is followed.
LEMMA GotoStep == ASSUME IInv, OnClick_Goto  PROVE IInv'
<1>1. PICK n \in 0 .. 2 : /\ Leave(Urls(n))
                          /\ label' = IF n \in Teams THEN href.names[n] ELSE Unnamed
  BY DEF OnClick_Goto
<1>2. start = "open" /\ href.page = 1 /\ UNCHANGED <<room, meant, told>>
  BY DEF OnClick_Goto
<1>3. PICK url : url = Urls(n)
  OBVIOUS
<1>4. /\ url.page = 2 /\ url.key = href.key
      /\ n \in Teams => url.team = n /\ url.pass = href.pass[n]
      /\ n \notin Teams => url.team = Nobody /\ url.pass = NoPass
  BY <1>3 DEF Urls
<1>5. /\ href.key = made /\ href.names = names /\ href.pass = Pass /\ made # 0
      /\ ~told /\ meant = NoGroup
  BY <1>2 DEF IInv, PageInv, AddressRight, Address, RefusalRight, ChoiceRight
<1>6. Address(url, label')
  <2>1. CASE n \in Teams
    BY <1>1, <1>4, <1>5, <2>1 DEF Address, Pass
  <2>2. CASE n \notin Teams
    BY <1>4, <1>5, <2>2 DEF Address
  <2> QED  BY <2>1, <2>2
<1> QED  BY <1>1, <1>2, <1>3, <1>4, <1>5, <1>6, Leaves

\* The draft is over.
LEMMA ResultStep ==
  ASSUME IInv, href.page = 2, status = "END", LeaveForResult, UNCHANGED <<room, meant, told>>
  PROVE  IInv'
<1>1. PICK url : url = [page |-> 3, key |-> href.key, team |-> Nobody, pass |-> NoPass]
  OBVIOUS
<1>2. url.page = 3 /\ url.key = href.key /\ url.team = Nobody /\ url.pass = NoPass
  BY <1>1
<1>3. href.key = made /\ made # 0 /\ ~told
  BY DEF IInv, PageInv, AddressRight, Address, RefusalRight
<1>4. Address(url, label')
  BY <1>2, <1>3 DEF Address
<1>5. Leave(url)
  BY <1>1 DEF LeaveForResult
<1> QED  BY <1>2, <1>3, <1>4, <1>5, Leaves

\* A text is drawn.
LEMMA DrawRight ==
  ASSUME PageInv, UNCHANGED <<room, href>>, NEW d, TextRight(d), Draw(d)
  PROVE  (SyncData' = NoSync \/ SyncData' \in Texts) /\ RowsRight'
<1>1. UNCHANGED <<status, banData>>
  BY DEF room
<1>2. CASE href.page = 2 /\ d.Status # "END" /\ SyncData' = d /\ UNCHANGED rows
  BY <1>1, <1>2 DEF TextRight, PageInv, RowsRight
<1>3. CASE href.page = 3 /\ UNCHANGED SyncData /\ rows' = IF d.Status = "END" THEN Rows(d) ELSE rows
  <2>1. CASE d.Status = "END"
    <3>1. status = "END" /\ d.BanList = banData
      BY <2>1 DEF TextRight
    <3>2. rows' = [t \in Teams |-> {group \in Groups : group # banData[1 - t]}]
      BY <1>3, <2>1, <3>1 DEF Rows, Shown
    <3>3. RowsRight'
      BY <1>1, <1>3, <3>1, <3>2 DEF RowsRight
    <3> QED  BY <1>3, <3>3 DEF PageInv, PageRight
  <2>2. CASE d.Status # "END"
    BY <1>1, <1>3, <2>2 DEF PageInv, PageRight, RowsRight
  <2> QED  BY <2>1, <2>2
<1> QED  BY <1>2, <1>3 DEF Draw

\* The packets after which the page is another one.
LEMMA LeavingStep ==
  ASSUME IInv, down # <<>>, NEW packet, AnswersRight(packet), Leaving(packet),
         UNCHANGED <<room, label, meant>>
  PROVE  IInv'
<1>0. conn # "closed"
  BY DEF IInv, PageInv, PageRight
<1>1. CASE packet.pt = "CREATE_ROOM" /\ GetCallBack(packet) /\ UNCHANGED told
  <2>1. PICK url : url = [page |-> 1, key |-> packet.key, pass |-> packet.pass, names |-> packet.names]
    OBVIOUS
  <2>2. url.page = 1 /\ url.key = packet.key /\ url.pass = packet.pass /\ url.names = packet.names
    BY <2>1
  <2>3. /\ start = "open" /\ href.page = 0 /\ made = 1
        /\ packet.key = made /\ packet.names = names /\ packet.pass = Pass
    BY <1>1 DEF AnswersRight
  <2>4. ~told /\ meant = NoGroup
    BY <2>3 DEF IInv, PageInv, RefusalRight, ChoiceRight
  <2>5. Address(url, label')
    BY <2>2, <2>3 DEF Address
  <2>6. Leave(url)
    BY <1>1, <2>1 DEF GetCallBack
  <2> QED  BY <1>1, <2>2, <2>3, <2>4, <2>5, <2>6, Leaves
<1>2. CASE packet.pt = "LINK_ROOM" /\ packet.resCode = 1 /\ Leave([page |-> 0]) /\ told' = TRUE
  <2>1. PICK url : url = [page |-> 0]
    OBVIOUS
  <2>2. url.page = 0 /\ Leave(url)
    BY <1>2, <2>1
  <2>3. ~inTable /\ member = Missing /\ href.page \in {2, 3}
    BY <1>2 DEF AnswersRight
  <2>4. made # 0 /\ (meant # NoGroup => status = "END")
    BY <1>0, <2>3 DEF IInv, PageInv, AddressRight, Address, ChoiceRight
  <2>5. Address(url, label')
    BY <2>2 DEF Address
  <2> QED  BY <1>2, <2>2, <2>3, <2>4, <2>5, Leaves
<1>3. CASE packet.pt = "SYNC" /\ Ends(packet.data) /\ LeaveForResult /\ UNCHANGED told
  BY <1>3, ResultStep DEF AnswersRight, TextRight, Ends
<1> QED  BY <1>1, <1>2, <1>3 DEF Leaving

\* The answer to the login opens the page, which asks for its cards.
LEMMA LoggedInStep ==
  ASSUME IInv, NEW packet, packet = down[1], 1 \in DOMAIN down, packet.pt = "LOGIN", GetLoginCallBack,
         down' \in Seq(DownPackets), Becomes(down, {1}, {}, down'),
         UNCHANGED <<room, member, href, conn, isClick, nowGroup, label, meant, told>>
  PROVE  IInv'
<1>1. start = "login" /\ member = Missing /\ ~isClick /\ conn # "closed"
  BY DEF IInv, OneTalk, AnswersRight, PageInv, PageRight
<1>2. start' = "open" /\ UNCHANGED <<SyncData, waiters, rows>>
  BY DEF GetLoginCallBack
<1>3. Quiet(up, {}) /\ Quiet(down, {1})
  BY AnswerAlone DEF IInv, Talk
<1>4. Frozen /\ UNCHANGED <<made, names, inTable>>
  BY RoomKept DEF IInv, PageInv
<1>5. OneTalk'
  <2>1. CASE href.page \in {2, 3}
    <3>1. PICK p : p = IF client = "HP" THEN GetData ELSE GetLOLMData
      OBVIOUS
    <3>2. p \in UpPackets /\ p.pt = "GET_DATA"
      BY <3>1 DEF UpPackets, GetData, GetLOLMData
    <3>3. Send(p)
      BY <2>1, <3>1 DEF GetLoginCallBack, Open
    <3>4. up' \in Seq(UpPackets) /\ Becomes(up, {}, {p}, up')
      BY <3>2, <3>3, Sends DEF IInv
    <3>5. AsksRight(p)'
      BY <1>1, <1>2, <2>1, <3>2 DEF AsksRight
    <3> QED  BY <1>3, <1>4, <3>4, <3>5, PacketsOn DEF IInv
  <2>2. CASE href.page \notin {2, 3}
    <3>1. up' = up
      BY <2>2 DEF GetLoginCallBack
    <3>2. Becomes(up, {}, {}, up') /\ up' \in Seq(UpPackets)
      BY <3>1, BecomesSame DEF IInv, OneTalk
    <3> QED  BY <1>3, <1>4, <3>2, PacketsOn DEF IInv
  <2> QED  BY <2>1, <2>2
<1> QED  BY <1>1, <1>2, <1>5, ViewKept, PageGoesOn DEF IInv, PageInv, PageRight

\* The cards are there, and the page links itself to the room.
LEMMA CardsStep ==
  ASSUME IInv, NEW packet, packet = down[1], 1 \in DOMAIN down, packet.pt = "GET_DATA", GetLOLMDataCallBack,
         down' \in Seq(DownPackets), Becomes(down, {1}, {}, down'),
         UNCHANGED <<room, member, href, conn, isClick, nowGroup, label, meant, told>>
  PROVE  IInv'
<1>1. start = "open" /\ href.page \in {2, 3} /\ member = Missing /\ conn # "closed"
  BY DEF IInv, OneTalk, AnswersRight, PageInv, PageRight
<1>2. UNCHANGED <<start, SyncData, waiters, rows>>
  BY DEF GetLOLMDataCallBack
<1>3. Quiet(up, {}) /\ Quiet(down, {1})
  BY AnswerAlone DEF IInv, Talk
<1>4. Frozen /\ UNCHANGED <<made, names, inTable>>
  BY RoomKept DEF IInv, PageInv
<1>5. PICK p : p = [pt |-> "LINK_ROOM", key |-> href.key, team |-> href.team, pass |-> href.pass]
  OBVIOUS
<1>6. /\ href.key \in Nat /\ href.team \in Teams \cup {Nobody}
      /\ href.pass \in (Nat \X Teams) \cup {NoPass}
  BY <1>1 DEF IInv, PageInv, AddressRight, Address
<1>7. p \in UpPackets /\ p.pt = "LINK_ROOM" /\ p.key = href.key /\ p.team = href.team /\ p.pass = href.pass
  BY <1>5, <1>6 DEF UpPackets
<1>8. Send(p)
  BY <1>5 DEF GetLOLMDataCallBack
<1>9. up' \in Seq(UpPackets) /\ Becomes(up, {}, {p}, up')
  BY <1>7, <1>8, Sends DEF IInv
<1>10. AsksRight(p)'
  BY <1>1, <1>2, <1>7 DEF AsksRight
<1>11. OneTalk'
  BY <1>3, <1>4, <1>9, <1>10, PacketsOn DEF IInv
<1> QED  BY <1>1, <1>2, <1>11, ViewKept, PageGoesOn DEF IInv, PageInv, PageRight

\* A link that is answered, or a text: nothing is sent.
LEMMA TakenStep ==
  ASSUME IInv, 1 \in DOMAIN down, down' \in Seq(DownPackets), Becomes(down, {1}, {}, down'),
         UNCHANGED <<room, member, href, start, conn, isClick, nowGroup, up, label, meant, told>>,
         waiters' \in Seq(Texts), \A k \in DOMAIN waiters' : TextRight(waiters[k])',
         SyncData' = NoSync \/ SyncData' \in Texts, RowsRight'
  PROVE  IInv'
<1>1. conn # "closed"
  BY DEF IInv, PageInv, PageRight
<1>2. Frozen /\ UNCHANGED <<made, names, inTable>>
  BY RoomKept DEF IInv, PageInv
<1>3. Becomes(up, {}, {}, up') /\ up' \in Seq(UpPackets)
  BY BecomesSame DEF IInv, OneTalk
<1>4. OneTalk'
  BY <1>2, <1>3, PacketsOn DEF IInv
<1> QED  BY <1>1, <1>4, PageGoesOn DEF IInv, PageInv, PageRight

\* A text comes in: it is drawn, or waits until the page is ready.
LEMMA TextStep ==
  ASSUME IInv, NEW d, TextRight(d), SyncCallBack(d), 1 \in DOMAIN down,
         down' \in Seq(DownPackets), Becomes(down, {1}, {}, down'),
         UNCHANGED <<room, member, href, conn, isClick, nowGroup, label, meant, told>>
  PROVE  IInv'
<1>1. UNCHANGED <<start, up>>
  BY DEF SyncCallBack
<1>2. Frozen /\ PageRight /\ waiters \in Seq(Texts) /\ UNCHANGED <<status, banData>>
  BY RoomKept DEF IInv, PageInv, PageRight
<1>3. CASE Draw(d) /\ UNCHANGED waiters
  <2>1. Becomes(waiters, {}, {}, waiters') /\ waiters' \in Seq(Texts)
    BY <1>2, <1>3, BecomesSame
  <2>2. \A k \in DOMAIN waiters' : TextRight(waiters[k])'
    BY <1>2, <2>1, WaitersOn
  <2> QED  BY <1>1, <1>3, <2>1, <2>2, DrawRight, TakenStep DEF IInv
<1>4. CASE waiters' = Append(waiters, d) /\ UNCHANGED <<SyncData, rows>>
  <2>1. d \in Texts
    BY DEF TextRight
  <2>2. Append(waiters, d) \in Seq(Texts) /\ Becomes(waiters, {}, {d}, Append(waiters, d))
    BY <1>2, <2>1, BecomesLonger
  <2>3. waiters' \in Seq(Texts) /\ Becomes(waiters, {}, {d}, waiters')
    BY <1>4, <2>2
  <2>4. \A k \in DOMAIN waiters' : TextRight(waiters[k])'
    BY <1>2, <2>3, WaitersOn
  <2>5. (SyncData' = NoSync \/ SyncData' \in Texts) /\ RowsRight'
    BY <1>2, <1>4 DEF IInv, PageInv, PageRight, RowsRight
  <2> QED  BY <1>1, <2>3, <2>4, <2>5, TakenStep
<1> QED  BY <1>3, <1>4 DEF SyncCallBack

\* A packet comes in.
LEMMA MessageStep == ASSUME IInv, onmessage  PROVE IInv'
<1>1. /\ down # <<>> /\ UNCHANGED <<room, label, meant>>
      /\ Leaving(Head(down)) \/ Staying(Head(down))
  BY DEF onmessage
<1>2. /\ 1 \in DOMAIN down /\ Head(down) = down[1] /\ Tail(down) \in Seq(DownPackets)
      /\ Becomes(down, {1}, {}, Tail(down))
  BY <1>1, BecomesTail DEF IInv, OneTalk
<1>3. PICK packet : packet = down[1]
  OBVIOUS
<1>4. AnswersRight(packet)
  BY <1>2, <1>3 DEF IInv, OneTalk
<1>5. CASE Leaving(packet)
  BY <1>1, <1>4, <1>5, LeavingStep
<1>6. CASE Staying(packet)
  <2>1. down' = Tail(down) /\ UNCHANGED <<member, href, conn, isClick, nowGroup, told>>
    BY <1>6 DEF Staying
  <2>2. down' \in Seq(DownPackets) /\ Becomes(down, {1}, {}, down')
    BY <1>2, <2>1
  <2>3. \/ packet.pt = "LOGIN" /\ GetLoginCallBack
        \/ packet.pt = "GET_DATA" /\ GetLOLMDataCallBack
        \/ packet.pt = "LINK_ROOM" /\ GetLinkCallBack
        \/ packet.pt = "SYNC" /\ SyncCallBack(packet.data)
    BY <1>6 DEF Staying
  <2>4. UNCHANGED <<room, member, href, conn, isClick, nowGroup, label, meant, told>>
    BY <1>1, <2>1
  <2>5. CASE packet.pt = "LOGIN" /\ GetLoginCallBack
    BY <1>2, <1>3, <2>2, <2>4, <2>5, LoggedInStep
  <2>6. CASE packet.pt = "GET_DATA" /\ GetLOLMDataCallBack
    BY <1>2, <1>3, <2>2, <2>4, <2>6, CardsStep
  <2>7. CASE packet.pt = "LINK_ROOM" /\ GetLinkCallBack
    <3>1. UNCHANGED <<start, up, SyncData, waiters, rows>>
      BY <2>7 DEF GetLinkCallBack
    <3> QED  BY <1>2, <2>2, <2>4, <3>1, ViewKept, TakenStep DEF IInv
  <2>8. CASE packet.pt = "SYNC" /\ SyncCallBack(packet.data)
    <3>1. TextRight(packet.data)
      BY <1>4, <2>8 DEF AnswersRight
    <3> QED  BY <1>2, <2>2, <2>4, <2>8, <3>1, TextStep
  <2> QED  BY <2>3, <2>5, <2>6, <2>7, <2>8
<1> QED  BY <1>1, <1>2, <1>3, <1>5, <1>6

\* A text has waited.
LEMMA WaitStep == ASSUME IInv, Wait  PROVE IInv'
<1>1. PICK k \in DOMAIN waiters :
        \/ Ends(waiters[k]) /\ LeaveForResult
        \/ /\ Draw(waiters[k]) /\ waiters' = RemoveAt(waiters, k)
           /\ UNCHANGED <<member, href, start, conn, up, down, isClick, isInit, nowGroup>>
  BY DEF Wait
<1>2. UNCHANGED <<room, label, meant, told>>
  BY DEF Wait, history
<1>3. TextRight(waiters[k]) /\ waiters \in Seq(Texts)
  BY DEF IInv, PageInv, PageRight
<1>4. CASE Ends(waiters[k]) /\ LeaveForResult
  BY <1>2, <1>3, <1>4, ResultStep DEF Ends, TextRight
<1>5. CASE /\ Draw(waiters[k]) /\ waiters' = RemoveAt(waiters, k)
           /\ UNCHANGED <<member, href, start, conn, up, down, isClick, isInit, nowGroup>>
  <2>1. Frozen /\ PageRight
    BY <1>2, RoomKept DEF IInv, PageInv
  <2>2. RemoveAt(waiters, k) \in Seq(Texts) /\ Becomes(waiters, {k}, {}, RemoveAt(waiters, k))
    BY <1>3, BecomesShorter
  <2>3. waiters' \in Seq(Texts) /\ Becomes(waiters, {k}, {}, waiters')
    BY <1>5, <2>2
  <2>4. \A j \in DOMAIN waiters' : TextRight(waiters[j])'
    BY <2>1, <2>3, WaitersOn
  <2>5. PICK d : d = waiters[k]
    OBVIOUS
  <2>6. (SyncData' = NoSync \/ SyncData' \in Texts) /\ RowsRight'
    BY <1>2, <1>3, <1>5, <2>5, DrawRight DEF IInv
  <2>7. OneTalk'
    BY <1>2, <1>5, NothingSent DEF IInv, PageInv
  <2> QED  BY <1>2, <1>5, <2>3, <2>4, <2>6, <2>7, PageGoesOn DEF IInv, PageInv, PageRight
<1> QED  BY <1>1, <1>4, <1>5

\* The check button of the draft page.
LEMMA CheckStep == ASSUME IInv, OnCheckButton  PROVE IInv'
<1>1. /\ href.page = 2 /\ conn = "open" /\ UNCHANGED <<room, member, tab, down, label, meant, told>>
      /\ \/ /\ href.team # Nobody /\ Send([pt |-> "READY", team |-> href.team])
         \/ /\ SyncData.Status = "BAN" /\ href.team = SyncData.NowCtrl
            /\ Send([pt |-> "CHOOSE", choose |-> nowGroup, shown |-> <<1 - SyncData.NowCtrl, nowGroup>>])
  BY DEF OnCheckButton, history
<1>2. href.team \in Teams \cup {Nobody} /\ nowGroup \in Groups
  BY <1>1 DEF IInv, PageInv, AddressRight, Address, PageRight
<1>3. \E p \in UpPackets : Send(p) /\ p.pt \notin Talk /\ AsksRight(p)'
  <2>1. CASE href.team # Nobody /\ Send([pt |-> "READY", team |-> href.team])
    <3>1. PICK p : p = [pt |-> "READY", team |-> href.team]
      OBVIOUS
    <3>2. p \in UpPackets /\ p.pt = "READY" /\ Send(p)
      BY <1>2, <2>1, <3>1 DEF UpPackets
    <3>3. p.pt \notin Talk /\ AsksRight(p)'
      BY <3>2 DEF Talk, AsksRight
    <3> QED  BY <3>2, <3>3
  <2>2. CASE /\ SyncData.Status = "BAN" /\ href.team = SyncData.NowCtrl
             /\ Send([pt |-> "CHOOSE", choose |-> nowGroup, shown |-> <<1 - SyncData.NowCtrl, nowGroup>>])
    <3>1. SyncData \in Texts /\ SyncData.NowCtrl \in Teams \cup {Missing}
      BY <2>2 DEF IInv, PageInv, PageRight, NoSync, Texts
    <3>2. href.team \in Teams
      BY <1>2, <2>2, <3>1
    <3>3. PICK p : p = [pt |-> "CHOOSE", choose |-> nowGroup, shown |-> <<1 - href.team, nowGroup>>]
      OBVIOUS
    <3>4. Send(p)
      BY <2>2, <3>3
    <3>5. 1 - href.team \in Teams
      BY <3>2
    <3>6. p \in UpPackets /\ p.pt = "CHOOSE" /\ p.choose = nowGroup /\ p.shown = <<1 - href.team, nowGroup>>
      BY <1>2, <3>3, <3>5 DEF UpPackets
    <3>7. p.pt \notin Talk /\ AsksRight(p)'
      BY <1>1, <3>2, <3>6 DEF Talk, AsksRight, tab
    <3> QED  BY <3>4, <3>6, <3>7
  <2> QED  BY <1>1, <2>1, <2>2
<1>4. UNCHANGED <<href, start, conn, isClick, SyncData, nowGroup, waiters, rows>>
  BY <1>1 DEF tab, view
<1>5. OneTalk'
  BY <1>1, <1>3, <1>4, SendKeeps DEF IInv, PageInv
<1> QED  BY <1>1, <1>4, <1>5, ViewKept, PageGoesOn DEF IInv, PageInv, PageRight

\* Another group is on the screen.
LEMMA SwitchStep == ASSUME IInv, SwitchGroup  PROVE IInv'
<1>1. /\ \E next \in {-1, 1} : nowGroup' = (nowGroup + next) % composeCount
      /\ UNCHANGED <<room, member, href, start, conn, isClick, SyncData, waiters, rows, up, down,
                     label, meant, told>>
  BY DEF SwitchGroup, history
<1>2. nowGroup' \in Groups
  <2>1. nowGroup \in Groups
    BY DEF IInv, PageInv, PageRight
  <2>2. \A i \in Int : i % composeCount \in 0 .. composeCount - 1
    OBVIOUS
  <2> QED  BY <1>1, <2>1, <2>2
<1>3. OneTalk'
  BY <1>1, NothingSent DEF IInv, PageInv
<1>4. \A k \in DOMAIN waiters' : TextRight(waiters[k])'
  BY <1>1, RoomKept DEF IInv, PageInv, PageRight
<1>5. RowsRight'
  BY <1>1, RoomKept DEF IInv, PageInv, RowsRight
<1> QED  BY <1>1, <1>2, <1>3, <1>4, <1>5, PageGoesOn DEF IInv, PageInv, PageRight

-----------------------------------------------------------------------------
(* The theorems. *)

\* The invariant holds at the start.
LEMMA Initial == Init => IInv
<1> SUFFICES ASSUME Init  PROVE IInv
  OBVIOUS
<1>1. \A S : <<>> \in Seq(S)
  OBVIOUS
<1>2. OneTalk
  BY <1>1 DEF Init, OneTalk, Single
<1>3. RoomRight /\ MemberRight /\ RefusalRight /\ ChoiceRight /\ RowsRight
  BY DEF Init, RoomRight, MemberRight, RefusalRight, ChoiceRight, RowsRight
<1>4. PageRight
  <2>1. 0 \in Groups
    OBVIOUS
  <2>2. waiters \in Seq(Texts) /\ DOMAIN waiters = {}
    BY <1>1 DEF Init
  <2> QED  BY <2>1, <2>2 DEF Init, PageRight
<1>5. AddressRight
  BY DEF Init, AddressRight, Address
<1> QED  BY <1>2, <1>3, <1>4, <1>5 DEF IInv, PageInv

\* Every step keeps it.
LEMMA Step == IInv /\ [Next]_vars => IInv'
<1> SUFFICES ASSUME IInv, [Next]_vars  PROVE IInv'
  OBVIOUS
<1>1. CASE UNCHANGED vars
  <2> USE DEF vars, tab, view, room, history
  <2>1. UNCHANGED <<room, href, start, conn, view, up, down, member, label, meant, told>>
    BY <1>1
  <2>2. OneTalk'
    BY <2>1, NothingSent DEF IInv, PageInv
  <2> QED  BY <2>1, <2>2, ViewKept, PageGoesOn DEF IInv, PageInv, PageRight
<1>2. CASE Next
  BY <1>2, LoadStep, OpenStep, CloseStep, LoginStep, ServeStep, ClockStep, OtherStep, ExpireStep,
     ClickStep, GotoStep, MessageStep, WaitStep, CheckStep, SwitchStep DEF Next
<1> QED  BY <1>1, <1>2

\* There is one conversation, which is of the page that is open; and what the address,
\* the packets and the screen say of the room is so.
THEOREM Invariance == Spec => []IInv
BY Initial, Step, PTL DEF Spec

\* Who follows a link is on the side that the link was labelled with, whatever the
\* form, the server, two addresses and the draft page did with the names (UI_CreateRoom,
\* UI_RoomLink, UI_BP, CreateRoomProtocol and LinkRoomProtocol).
THEOREM SidesAreRight == Spec => []SideAsLabelled
<1>1. IInv => SideAsLabelled
  BY DEF IInv, PageInv, MemberRight, AddressRight, Address, SideAsLabelled
<1> QED  BY <1>1, Invariance, PTL

\* A link of the room is refused only after the room has left the table: the key, the
\* team and the password that a page asks with are those that the room was made with.
THEOREM RefusalsAreRight == Spec => []RefusedOnlyIfGone
<1>1. IInv => RefusedOnlyIfGone
  BY DEF IInv, PageInv, RefusalRight, RefusedOnlyIfGone
<1> QED  BY <1>1, Invariance, PTL

\* The result shows of each team all groups but one, and never the group that the
\* captain saw when the room took the captain's last ban (UI_BP.OnCheckButton,
\* HPBanRoom and UI_Output.SyncCallBack).
THEOREM ResultIsTrue == Spec => []ResultTrue
<1>1. ASSUME IInv, rows # NoRows  PROVE ResultTrue
  <2>1. /\ status = "END" /\ rows = [t \in Teams |-> {group \in Groups : group # banData[1 - t]}]
        /\ \A t \in Teams : banData[t] \in Groups
    BY <1>1 DEF IInv, PageInv, RowsRight, RoomRight
  <2>2. \A t \in Teams : rows[t] = Groups \ {banData[1 - t]} /\ banData[1 - t] \in Groups
    BY <2>1
  <2>3. IsFiniteSet(Groups) /\ Cardinality(Groups) = composeCount
    <3>1. 0 \in Int /\ composeCount - 1 \in Int
      OBVIOUS
    <3>2. IsFiniteSet(Groups) /\ Cardinality(Groups)
            = IF 0 > composeCount - 1 THEN 0 ELSE composeCount - 1 - 0 + 1
      BY <3>1, FS_Interval
    <3> QED  BY <3>2
  <2>4. \A t \in Teams : Cardinality(rows[t]) = composeCount - 1
    <3>1. \A b \in Groups : Cardinality(Groups \ {b}) = Cardinality(Groups) - 1
      BY <2>3, FS_RemoveElement
    <3> QED  BY <2>2, <2>3, <3>1
  <2>5. ASSUME meant # NoGroup  PROVE meant[2] \notin rows[meant[1]]
    <3>1. PICK t \in Teams : meant = <<1 - t, banData[t]>>
      BY <1>1, <2>5 DEF IInv, PageInv, ChoiceRight
    <3>2. meant[1] = 1 - t /\ meant[2] = banData[t] /\ 1 - t \in Teams /\ 1 - (1 - t) = t
      BY <3>1
    <3> QED  BY <2>2, <3>2
  <2> QED  BY <2>4, <2>5 DEF ResultTrue
<1>2. IInv => ResultTrue
  BY <1>1 DEF ResultTrue
<1> QED  BY <1>2, Invariance, PTL
=============================================================================
