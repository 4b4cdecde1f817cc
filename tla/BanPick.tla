------------------------------ MODULE BanPick ------------------------------
(***************************************************************************)
(* What a ban/pick draft promises to the two teams, whatever the room that *)
(* runs it: a fixed list of slots is filled one at a time and in order, a  *)
(* slot once filled is final, a hero stands in one slot only, the team on  *)
(* the move is the owner of the next slot, and a draft that has started is *)
(* completed, because a team that does not answer is timed out.            *)
(*                                                                         *)
(* LOLM3BanRoom and HPBanRoom are shown to implement this module.          *)
(***************************************************************************)
EXTENDS Integers

CONSTANTS Turns,     \* how many slots the draft has
          Order,     \* Order[i] is the team that owns slot i
          Hero,      \* what a team may put in a slot
          NoHero,    \* the choice of no hero, which any number of slots may hold
          Empty      \* what a slot holds that is not filled yet

VARIABLES stage,     \* "waiting", "drafting" or "complete"
          slot,      \* slot[i]: what has been put in slot i, or Empty
          filled,    \* how many slots are filled
          onMove     \* the team that owns the slot to be filled next

vars == <<stage, slot, filled, onMove>>

Slots == 0 .. Turns - 1

Init == /\ stage = "waiting"
        /\ slot = [i \in Slots |-> Empty]
        /\ filled = 0
        /\ onMove = Order[0]

\* Both teams are ready.
Start == /\ stage = "waiting"
         /\ stage' = "drafting"
         /\ UNCHANGED <<slot, filled, onMove>>

Free(h) == h = NoHero \/ \A i \in Slots : i < filled => slot[i] # h

\* The team on the move answers, or its time is up.
Fill(h) == /\ stage = "drafting"
           /\ Free(h)
           /\ slot' = [slot EXCEPT ![filled] = h]
           /\ filled' = filled + 1
           /\ stage' = IF filled' = Turns THEN "complete" ELSE "drafting"
           /\ onMove' = IF filled' = Turns THEN onMove ELSE Order[filled']

Next == Start \/ \E h \in Hero : Fill(h)

\* Once started, a draft never waits for a team for ever.
Spec == /\ Init
        /\ [][Next]_vars
        /\ WF_vars(\E h \in Hero : Fill(h))

=============================================================================
