------------------------------ MODULE MCClient ------------------------------
(***************************************************************************)
(* Values for Client: two names, and a form with the same name twice.      *)
(***************************************************************************)
EXTENDS Client

mcTyped == {[t \in Teams |-> IF t = 0 THEN "one" ELSE "two"], [t \in Teams |-> "one"]}
=============================================================================
