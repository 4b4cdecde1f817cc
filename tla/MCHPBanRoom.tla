----------------------------- MODULE MCHPBanRoom -----------------------------
(* Small instances of HPBanRoom for TLC. *)
EXTENDS HPBanRoom

CONSTANTS b, r, w  \* the blue captain, the red captain, a watcher

mcCaptains == {<<b, 0>>, <<r, 1>>}
mcJoins    == mcCaptains \cup {<<w, Watcher>>}

\* The captains ask for their own groups; the watcher asks, too, for those of blue.
mcAsks     == mcCaptains \cup {<<w, 0>>}

\* One place that the other team sees, one that it does not.
mcComposed == {<<1, 0>>, <<1, 4>>}
==============================================================================
