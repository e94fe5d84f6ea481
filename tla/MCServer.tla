------------------------------ MODULE MCServer ------------------------------
(***************************************************************************)
(* Values for the model-checking runs of Server.                           *)
(***************************************************************************)
EXTENDS Server

CONSTANTS r1, r2, cl

TwoRequests == {r1, r2}
NoOps       == {}
\* Every append may fail but that of a nack.
AllButNack  == Ops \ {"nack"}
=============================================================================
