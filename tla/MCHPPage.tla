------------------------------ MODULE MCHPPage ------------------------------
(* Small instances of HPPage for TLC. *)
EXTENDS HPPage, TLC

\* An earlier page of this captain, and the other captain, fill one place each.
mcOther == {<<0, 0, 0>>, <<1, 0, 0>>}

\* The threads run the same program.
mcSymmetry == Permutations(PackThreads)
=============================================================================
