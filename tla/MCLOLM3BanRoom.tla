--------------------------- MODULE MCLOLM3BanRoom ---------------------------
(* Small instances of LOLM3BanRoom for TLC. *)
EXTENDS LOLM3BanRoom

CONSTANTS b, r     \* the connections of the blue and the red captain

\* The blue captain may be linked as red as well, which leaves two entries.
mcCaptains == {<<b, 0>>, <<r, 1>>}
mcJoins == {<<b, 0>>, <<r, 1>>, <<b, -1>>}

=============================================================================
