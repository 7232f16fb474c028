-------------------------------- MODULE MCIpc --------------------------------
(* Ipc for TLC.  The largest id stands for one that no slot has.            *)
EXTENDS Ipc

OneWatch == {0}
TwoWatches == {0, 1}
ThreeWatches == {0, 1, 2}
FirstId == {0}
SomeIds == {0, 2, 3}
=============================================================================
