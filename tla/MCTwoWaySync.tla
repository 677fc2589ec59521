---------------------------- MODULE MCTwoWaySync ----------------------------
(* TwoWaySync on small instances; the constants that are sets of strings    *)
(* get their values here.                                                   *)
EXTENDS TwoWaySync

AllWriteFaults == {"partial", "raise", "cancel", "crash", "down"}
HonestModes == {"exact", "count"}
AnyMode == {"exact", "count", "errors"}
=============================================================================
