------------------------ MODULE MCLOLM3BanRoomThreads ------------------------
(* Small instances of LOLM3BanRoomThreads for TLC. *)
EXTENDS LOLM3BanRoomThreads, TLC

\* Both teams are ready; red chooses a hero as its time runs out; red previews
\* a hero and chooses it; all of these, for both teams.
mcReadies  == [pt : {"READY"}, team : Teams, num : {0}]
mcChooses  == [pt : {"CHOOSE"}, team : {1}, num : {1}]
mcPreviews == [pt : {"CHOOSE", "PREVIEW"}, team : {1}, num : {1}]
mcPackets  == mcReadies \cup [pt : {"CHOOSE", "PREVIEW"}, team : Teams, num : {1}]

Start(bans, picks, packets, overlap, timers) ==
  [bans |-> bans, picks |-> picks, packets |-> packets, overlap |-> overlap, timers |-> timers]

\* Before the draft, at the last ban, at the last pick.
mcOverlap == {Start(0, 0, mcReadies, TRUE, 3), Start(1, 0, mcChooses, TRUE, 3),
              Start(2, 9, mcChooses, TRUE, 3)}
mcAlone   == {Start(b[1], b[2], mcPackets, FALSE, 5) : b \in {<<0, 0>>, <<1, 0>>, <<2, 9>>}}
mcStarts  == mcOverlap \cup mcAlone
mcRace    == {Start(1, 0, mcPreviews, TRUE, 2)}

\* Three handlers at once at the start of the draft, two at once after it.
mcAtOnce == at.overlap => Cardinality(Busy) <= IF at.bans = 0 THEN 3 ELSE 2

mcSymmetry == Permutations(PackThreads)
=============================================================================
