---------------------------- MODULE MCOneWaySync ----------------------------
(* OneWaySync on small instances; the constants that are sets get their     *)
(* values here.                                                             *)
EXTENDS OneWaySync

BothModes == {"source_deletes", "mirror"}
AllFaults == {"partial", "raise", "cancel", "crash", "down", "dry"}
HonestModes == {"exact", "count"}
=============================================================================
