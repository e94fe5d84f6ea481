---------------------------- MODULE MCClusterNode ---------------------------
(***************************************************************************)
(* Values for the model-checking runs of ClusterNode.                      *)
(***************************************************************************)
EXTENDS ClusterNode

CONSTANTS a, c1, c2

OneBase    == {a}
BaseName   == {<<a, 0>>}
WithDlq    == {<<a, 0>>, <<a, 1>>}
OneClient  == {c1}
TwoClients == {c1, c2}
=============================================================================
