---------------------------- MODULE MCVisibility ----------------------------
(***************************************************************************)
(* Values for the model-checking runs of Visibility.                       *)
(***************************************************************************)
EXTENDS Visibility

CONSTANTS m1, m2

OneMsg  == {m1}
TwoMsgs == {m1, m2}
=============================================================================
