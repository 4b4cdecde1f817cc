------------------------- MODULE MCHPBanRoomThreads -------------------------
(***************************************************************************)
(* Starts for HPBanRoomThreads.                                            *)
(***************************************************************************)
EXTENDS HPBanRoomThreads

READY(team) == [pt |-> "READY", team |-> team, num |-> 0]
CHOOSE_(team) == [pt |-> "CHOOSE", team |-> team, num |-> team + 1]
COMPOSE(team) == [pt |-> "COMPOSE", team |-> team, num |-> 1]
Start(phase, packets, overlap) == [phase |-> phase, packets |-> packets, overlap |-> overlap]

\* Two captains ready at once; cards at the end of the time to compose; bans of
\* either team at the end of the first and of the second turn.
mcOverlap == {Start(0, {READY(0), READY(1)}, TRUE),
              Start(1, {COMPOSE(0), COMPOSE(1)}, TRUE),
              Start(2, {CHOOSE_(0), CHOOSE_(1)}, TRUE),
              Start(3, {CHOOSE_(0), CHOOSE_(1)}, TRUE)}

\* A whole draft, one handler after the other.
mcAlone == {Start(0, {READY(0), READY(1), COMPOSE(0), CHOOSE_(0), CHOOSE_(1)}, FALSE)}

mcStarts == mcOverlap \cup mcAlone
=============================================================================
