--------------------------- MODULE MCMemoryStorage --------------------------
(***************************************************************************)
(* Values for the model-checking runs of MemoryStorage.                    *)
(***************************************************************************)
EXTENDS StorageRefinement, TLC

CONSTANTS a, c1, c2, sw

\* The queue a, its dead letter queue, and the names of the runs.
BaseName   == {<<a, 0>>}
WithDlq    == {<<a, 0>>, <<a, 1>>}
OneBase    == {a}

OneClient  == {c1}
TwoClients == {c1, c2}
OneSweeper == {sw}
NoOne      == {}

NoFaults     == {}
WalFails     == {"walfail"}
WalFailsCuts == {"walfail", "cut"}
Tears        == {"walfail", "tear", "cut"}

NoDrops      == {}
SafeDrops    == Operations \ {"dequeue", "nack"}
DequeueDrops == {"dequeue"}
=============================================================================
